------------------------------ MODULE MCCoroutines -----------------------------
(***************************************************************************)
(* The coroutine runtime for TLC, its parts side by side: each behaviour    *)
(* exercises one of them, which the initial state chooses, and the          *)
(* variables of the others stay at zero.                                    *)
(***************************************************************************)
EXTENDS Integers, Sequences, FiniteSets

CONSTANTS t1, t2, t3, t4, Null, Free, IsSet

Parts == {"mutex", "rwlock", "latch", "barrier", "event", "channel", "forkjoin", "whenany", "timers",
          "stop"}

VARIABLES
  part, pc,
  list, old, st, todo, rounds, count, kind, inbox, dq, done,    \* of several parts
  head, next, cursor,                                           \* waiter lists
  locked, after, cvlist, tokens,                                \* mutex and condition variable
  readers, writer, wwaiting, rhead, whead,                      \* reader/writer lock
  spawns, gen, mygen,                                           \* latch and barrier
  aborted, ret, got, hand, posts, ring, closed, call, left, calls,               \* channel
  ip, waiting, cur, hold, steals, credits, armed, cont, started, failed, err,    \* fork and join
  due, linked, pending, tstate, at, now, fired, rest, tm, cut,  \* timers
  epoch, ep, stopping, quiet, scan, calm,
  rdy, wstate, wresume, thread, how, round, i, tok, winner, refs                 \* when_any

listVars == <<head, next, cursor>>
mutexVars == <<locked, after, cvlist, tokens>>
rwlockVars == <<readers, writer, wwaiting, rhead, whead>>
latchVars == <<spawns, gen, mygen>>
channelVars == <<aborted, ret, got, hand, posts, ring, closed, call, left, calls>>
joinVars == <<ip, waiting, cur, hold, steals, credits, armed, cont, started, failed, err>>
timerVars == <<due, linked, pending, tstate, at, now, fired, rest, tm, cut, epoch, ep, stopping, quiet,
               scan, calm>>
anyVars == <<rdy, wstate, wresume, thread, how, round, i, tok, winner, refs>>
vars == <<part, pc, list, old, st, todo, rounds, count, kind, inbox, dq, done, listVars, mutexVars,
          rwlockVars, latchVars, channelVars, joinVars, timerVars, anyVars>>

Three == {t1, t2, t3}
Four == {t1, t2, t3, t4}
Workers == {1, 2}

\* Frame r forks a, b and then, behind a first join, d; a forks c and c forks e.
Frames == {"r", "a", "b", "c", "d", "e"}
Prog == [r |-> <<"a", "b", "yield", "join", "d", "join">>, a |-> <<"c", "wait", "join">>,
         b |-> <<"wait">>, c |-> <<"e", "join">>, d |-> <<"yield">>, e |-> <<"wait">>]
Parent == [r |-> Null, a |-> "r", b |-> "r", c |-> "a", d |-> "r", e |-> "c"]

Mutex == INSTANCE AsyncMutex WITH Tasks <- Four, Producers <- {t1, t2}
Rwlock == INSTANCE AsyncRwlock WITH Readers <- {t1, t2}, Writers <- {t3, t4}, MaxRounds <- 2
Latch == INSTANCE AsyncLatch WITH Tasks <- Three, Expected <- 2, Steps <- {1, 2}, MaxSpawns <- 3
Barrier == INSTANCE AsyncBarrier WITH Tasks <- Three, GenBits <- 1, MaxRounds <- 3
Event == INSTANCE ManualResetEvent WITH Tasks <- Three
Channel == INSTANCE AsyncChannel
             WITH Tasks <- Four, Sems <- {"space", "items"}, Producers <- {t1}, Consumers <- {t2, t3},
                  Closer <- t4, Cap <- 1, Flood <- 2, MaxCalls <- 1, MaxBulk <- 2, CloseRaces <- FALSE
Join == INSTANCE ForkJoin WITH Root <- "r", Cap <- 2, wpc <- pc
Any == INSTANCE WhenAny WITH N <- 2, Rounds <- 2
Timing == INSTANCE Timers
            WITH Tasks <- {t1, t2}, Timer <- t3, Stopper <- t4, MaxRounds <- 2, Scans <- 1,
                 Stops <- FALSE, StopRaces <- FALSE
Ending == INSTANCE Timers
            WITH Tasks <- {t1, t2}, Timer <- t3, Stopper <- t4, MaxRounds <- 1, Scans <- 1,
                 Stops <- TRUE, StopRaces <- FALSE

--------------------------------------------------------------------------------
(* A part at work, and the variables it does not have. *)

NoList == list = 0
NoOld == old = 0
NoNodes == st = 0 /\ todo = 0
NoRounds == rounds = 0
NoCount == count = 0
NoKind == kind = 0
NoWork == inbox = 0 /\ dq = 0 /\ done = 0
NoChain == head = 0 /\ next = 0 /\ cursor = 0
NoMutex == locked = 0 /\ after = 0 /\ cvlist = 0 /\ tokens = 0
NoRwlock == readers = 0 /\ writer = 0 /\ wwaiting = 0 /\ rhead = 0 /\ whead = 0
NoSpawns == spawns = 0
NoGen == gen = 0 /\ mygen = 0
NoChannel ==
  /\ aborted = 0 /\ ret = 0 /\ got = 0 /\ hand = 0 /\ posts = 0
  /\ ring = 0 /\ closed = 0 /\ call = 0 /\ left = 0 /\ calls = 0
NoJoin ==
  /\ ip = 0 /\ waiting = 0 /\ cur = 0 /\ hold = 0 /\ steals = 0 /\ credits = 0
  /\ armed = 0 /\ cont = 0 /\ started = 0 /\ failed = 0 /\ err = 0
NoTimers ==
  /\ due = 0 /\ linked = 0 /\ pending = 0 /\ tstate = 0 /\ at = 0
  /\ now = 0 /\ fired = 0 /\ rest = 0 /\ tm = 0 /\ cut = 0
  /\ epoch = 0 /\ ep = 0 /\ stopping = 0 /\ quiet = 0 /\ scan = 0 /\ calm = 0
NoAny ==
  /\ rdy = 0 /\ wstate = 0 /\ wresume = 0 /\ thread = 0 /\ how = 0
  /\ round = 0 /\ i = 0 /\ tok = 0 /\ winner = 0 /\ refs = 0

Init ==
  /\ \/ /\ part = "mutex" /\ Mutex!Init
        /\ NoRounds /\ NoCount /\ NoKind /\ NoWork /\ NoChain /\ NoRwlock /\ NoSpawns /\ NoGen
        /\ NoChannel /\ NoJoin /\ NoTimers /\ NoAny
     \/ /\ part = "rwlock" /\ Rwlock!Init
        /\ NoList /\ NoOld /\ NoCount /\ NoKind /\ NoWork /\ NoChain /\ NoMutex /\ NoSpawns /\ NoGen
        /\ NoChannel /\ NoJoin /\ NoTimers /\ NoAny
     \/ /\ part = "latch" /\ Latch!Init
        /\ NoList /\ NoOld /\ NoNodes /\ NoRounds /\ NoWork /\ NoMutex /\ NoRwlock /\ NoGen
        /\ NoChannel /\ NoJoin /\ NoTimers /\ NoAny
     \/ /\ part = "barrier" /\ Barrier!Init
        /\ NoList /\ NoOld /\ NoNodes /\ NoKind /\ NoWork /\ NoMutex /\ NoRwlock /\ NoSpawns
        /\ NoChannel /\ NoJoin /\ NoTimers /\ NoAny
     \/ /\ part = "event" /\ Event!Init
        /\ NoList /\ NoNodes /\ NoRounds /\ NoCount /\ NoKind /\ NoWork /\ NoMutex /\ NoRwlock
        /\ NoSpawns /\ NoGen /\ NoChannel /\ NoJoin /\ NoTimers /\ NoAny
     \/ /\ part = "channel" /\ Channel!Init
        /\ NoOld /\ NoNodes /\ NoRounds /\ NoKind /\ NoWork /\ NoChain /\ NoMutex /\ NoRwlock
        /\ NoSpawns /\ NoGen /\ NoJoin /\ NoTimers /\ NoAny
     \/ /\ part = "forkjoin" /\ Join!Init
        /\ NoList /\ NoOld /\ NoNodes /\ NoRounds /\ NoCount /\ NoChain /\ NoMutex /\ NoRwlock
        /\ NoSpawns /\ NoGen /\ NoChannel /\ NoTimers /\ NoAny
     \/ /\ part = "whenany" /\ Any!Init
        /\ NoList /\ NoOld /\ NoNodes /\ NoRounds /\ NoCount /\ NoKind /\ NoWork /\ NoChain
        /\ NoMutex /\ NoRwlock /\ NoSpawns /\ NoGen /\ NoChannel /\ NoJoin /\ NoTimers
     \/ /\ \/ part = "timers" /\ Timing!Init
           \/ part = "stop" /\ Ending!Init
        /\ NoList /\ NoOld /\ NoNodes /\ NoCount /\ NoKind /\ NoWork /\ NoChain /\ NoMutex
        /\ NoRwlock /\ NoSpawns /\ NoGen /\ NoChannel /\ NoJoin /\ NoAny

OnMutex(A) ==
  /\ part = "mutex" /\ A
  /\ UNCHANGED <<part, rounds, count, kind, inbox, dq, done, listVars, rwlockVars, latchVars,
                 channelVars, joinVars, timerVars, anyVars>>
OnRwlock(A) ==
  /\ part = "rwlock" /\ A
  /\ UNCHANGED <<part, list, old, count, kind, inbox, dq, done, listVars, mutexVars, latchVars,
                 channelVars, joinVars, timerVars, anyVars>>
OnLatch(A) ==
  /\ part = "latch" /\ A
  /\ UNCHANGED <<part, list, old, st, todo, rounds, inbox, dq, done, mutexVars, rwlockVars, gen, mygen,
                 channelVars, joinVars, timerVars, anyVars>>
OnBarrier(A) ==
  /\ part = "barrier" /\ A
  /\ UNCHANGED <<part, list, old, st, todo, kind, inbox, dq, done, mutexVars, rwlockVars, spawns,
                 channelVars, joinVars, timerVars, anyVars>>
OnEvent(A) ==
  /\ part = "event" /\ A
  /\ UNCHANGED <<part, list, st, todo, rounds, count, kind, inbox, dq, done, mutexVars, rwlockVars,
                 latchVars, channelVars, joinVars, timerVars, anyVars>>
OnChannel(A) ==
  /\ part = "channel" /\ A
  /\ UNCHANGED <<part, old, st, todo, rounds, kind, inbox, dq, done, listVars, mutexVars, rwlockVars,
                 latchVars, joinVars, timerVars, anyVars>>
OnJoin(A) ==
  /\ part = "forkjoin" /\ A
  /\ UNCHANGED <<part, list, old, st, todo, rounds, count, listVars, mutexVars, rwlockVars, latchVars,
                 channelVars, timerVars, anyVars>>
OnAny(A) ==
  /\ part = "whenany" /\ A
  /\ UNCHANGED <<part, list, old, st, todo, rounds, count, kind, inbox, dq, done, listVars, mutexVars,
                 rwlockVars, latchVars, channelVars, joinVars, timerVars>>
OnTimers(A) ==
  /\ part \in {"timers", "stop"} /\ A
  /\ UNCHANGED <<part, list, old, st, todo, count, kind, inbox, dq, done, listVars, mutexVars, rwlockVars,
                 latchVars, channelVars, joinVars, anyVars>>

Next ==
  \/ OnMutex(Mutex!Next) \/ OnRwlock(Rwlock!Next) \/ OnLatch(Latch!Next) \/ OnBarrier(Barrier!Next)
  \/ OnEvent(Event!Next) \/ OnChannel(Channel!Next)
  \/ OnJoin(Join!Next) \/ OnAny(Any!Next)
  \/ OnTimers(IF part = "timers" THEN Timing!Next ELSE Ending!Next)

--------------------------------------------------------------------------------
(* Fairness: a task, worker or thread in the middle of an operation goes on,    *)
(* what a frame waits for happens, and promises are kept.                       *)

\* The variables of the part at work.  Its steps change no others, by Next, so
\* that fairness is a matter of these.
own ==
  CASE part = "mutex"    -> Mutex!vars
    [] part = "rwlock"   -> Rwlock!vars
    [] part = "latch"    -> Latch!vars
    [] part = "barrier"  -> Barrier!vars
    [] part = "event"    -> Event!vars
    [] part = "channel"  -> Channel!vars
    [] part = "forkjoin" -> Join!vars
    [] part = "whenany"  -> Any!vars
    [] OTHER             -> Timing!vars

At(p, A) == part = p /\ A /\ UNCHANGED part

Going(t) ==
  \/ At("mutex", Mutex!Running(t)) \/ At("rwlock", Rwlock!Running(t))
  \/ /\ t # t4
     /\ \/ At("latch", Latch!Running(t)) \/ At("barrier", Barrier!Running(t))
        \/ At("event", Event!Running(t))
  \/ At("channel", Channel!Running(t))
  \/ t = t1 /\ At("whenany", Any!ThreadStep)
  \/ /\ t \in {t1, t2}
     /\ \/ At("timers", Timing!Running(t) \/ Timing!Elapse(t))
        \/ At("stop", Ending!Running(t) \/ Ending!Elapse(t))
  \/ /\ t = t2
     /\ \/ At("forkjoin", \E f \in Frames : Join!Submit(f))
        \/ At("whenany", Any!TaskStep \/ Any!Firing(0) \/ \E h \in {"one", "any"} : Any!Await(h))
  \/ t = t3 /\ (At("timers", Timing!TimerStep) \/ At("stop", Ending!TimerStep))
  \/ t = t4 /\ At("channel", Channel!CloseItems \/ Channel!CloseSpace \/ Channel!CloseDone)
  \/ t = t4 /\ At("stop", Ending!StopStep)

Serving(w) ==
  \/ At("forkjoin", Join!Find(w) \/ Join!Work(w))
  \/ At("whenany", Any!Setting(w) \/ Any!Firing(w))
  \/ At("timers", Timing!Working(w)) \/ At("stop", Ending!Working(w))

FairSpec ==
  /\ Init /\ [][Next]_vars
  /\ \A t \in Four : WF_own(Going(t))
  /\ \A w \in Workers : WF_own(Serving(w))
  /\ SF_own(\E t \in Four : At("mutex", Mutex!CasSucceeds(t)))

--------------------------------------------------------------------------------
(* Properties. *)

TypeOK ==
  CASE part = "mutex"    -> Mutex!TypeOK
    [] part = "rwlock"   -> Rwlock!TypeOK
    [] part = "latch"    -> Latch!TypeOK
    [] part = "barrier"  -> Barrier!TypeOK
    [] part = "event"    -> Event!TypeOK
    [] part = "channel"  -> Channel!TypeOK
    [] part = "forkjoin" -> Join!TypeOK
    [] part = "whenany"  -> Any!TypeOK
    [] part = "timers"   -> Timing!TypeOK
    [] part = "stop"     -> Ending!TypeOK

\* Every suspended coroutine and every parked frame is where the one
\* who is to resume it will find it, once, or is in that one's hands.
NobodyStranded ==
  CASE part = "mutex"    -> Mutex!NobodyStranded
    [] part = "rwlock"   -> Rwlock!NobodyStranded
    [] part = "latch"    -> Latch!NobodyStranded
    [] part = "barrier"  -> Barrier!NobodyStranded
    [] part = "event"    -> Event!NobodyStranded
    [] part = "channel"  -> Channel!NobodyStranded
    [] part = "forkjoin" -> Join!FramesInOnePlace
    [] part = "whenany"  -> Any!NobodyStranded
    [] part = "timers"   -> Timing!NobodyStranded
    [] part = "stop"     -> Ending!NobodyStranded

\* The counts add up: the channel's slots and items, the steals and credits of a
\* frame that forks, the references to the state of when_any, the pending timers.
Accounted ==
  CASE part = "channel"  -> Channel!Balanced
    [] part = "forkjoin" -> Join!JoinsBalance
    [] part = "whenany"  -> Any!StateAlive
    [] part = "timers"   -> Timing!PendingCounted
    [] part = "stop"     -> Ending!PendingCounted
    [] OTHER             -> TRUE

\* Who goes on behind an await finds what it waited for: everybody's arrival at
\* the barrier, an item for the permit, all the children ended and their errors
\* noted, a future that is ready or was armed before, a deadline that has passed,
\* at the end of the runtime nobody who sleeps, if a look found it still.
AwaitsKept ==
  CASE part = "barrier"  -> Barrier!Lockstep
    [] part = "channel"  -> Channel!PermitHasItem
    [] part = "forkjoin" -> Join!JoinWaitsForAll /\ Join!ErrorsSurface
    [] part = "whenany"  -> Any!WinnerReady /\ Any!FunctionMatches
    [] part = "timers"   -> Timing!NotEarly
    [] part = "stop"     -> Ending!NotEarly /\ Ending!StopsWithoutSleepers
    [] OTHER             -> TRUE

Reading == IF part = "rwlock" THEN Rwlock!reading ELSE {}
Writing == IF part = "rwlock" THEN Rwlock!writing ELSE IF part = "mutex" THEN Mutex!Holders ELSE {}
Abstract == INSTANCE RWLockSpec WITH Readers <- {t1, t2}, Writers <- Four, reading <- Reading, writing <- Writing

\* async_rwlock lets readers in together or one writer alone; async_mutex is the
\* case without readers, with the lock handed over and not released in between.
ImplementsRWLock == Abstract!Spec

Pending ==
  CASE part = "mutex"    -> Mutex!Pending
    [] part = "rwlock"   -> Rwlock!Pending
    [] part = "latch"    -> Latch!Pending
    [] part = "barrier"  -> Barrier!Pending
    [] part = "event"    -> Event!Resuming(t1)
    [] part = "channel"  -> Channel!Pending
    [] part = "forkjoin" -> Join!Pending
    [] part = "whenany"  -> Any!Pending
    [] part = "timers"   -> Timing!Pending
    [] part = "stop"     -> Ending!Pending

\* Nobody waits for ever for something that has happened: the lock that is
\* released, the latch that is open, the barrier that is full, the channel that
\* is closed, the children that end, the promise that was kept, the deadline that
\* has passed.
EveryoneResumed == Pending ~> ~Pending
================================================================================
