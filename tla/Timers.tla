--------------------------------- MODULE Timers --------------------------------
(***************************************************************************)
(* Sleeping coroutines of tasks/coroutine/cl_sched.hpp: __sleep_awaiter,    *)
(* __ensure_timer_thread, __timer_main, and what stop_coroutine_runtime     *)
(* does about them.                                                         *)
(*                                                                          *)
(* A coroutine that sleeps links its node into the timer's list and tells   *)
(* the timer thread by an epoch and a futex.  The frame may be resumed by   *)
(* another worker as soon as it is linked; the worker that linked it goes   *)
(* on with the epoch and the futex.  A deadline is only known to have       *)
(* passed or not (due), and the list is a set: its order does not matter.   *)
(*                                                                          *)
(* The workers take frames from the inbox (the tasks that are "queued") and *)
(* are active until they find nothing.  How they sleep and are woken is the *)
(* matter of Parking.                                                       *)
(***************************************************************************)
EXTENDS Integers, FiniteSets

CONSTANTS Tasks, Timer, Stopper,
  Workers,        \* integers: the stop looks at them in their order
  MaxRounds,      \* bound: how often the coroutines sleep
  Scans,          \* quiet looks before the stop (4 in the code)
  Stops,          \* whether the runtime is ever told to stop
  StopRaces       \* whether the stop may come between the thread's look at the flag
                  \* and its look at the epoch

VARIABLES
  pc, rounds, due,
  linked, pending,          \* __timer_head and pending_timers
  tstate, epoch,            \* __timer_state and __timer_epoch
  at,                       \* what each worker is at, a task or its own loop
  ep, now, fired, rest,     \* locals of __timer_main: the epoch and the clock it
                            \* read, the nodes it took and those it left
  stopping, tm, cut,        \* the stop: pending timers its deadline was set for
  quiet, scan,              \* its quiet looks so far, workers still to look at
  calm                      \* auxiliary: "still" while nobody has taken a frame or linked
                            \* a node in this look, "calm" behind a look that was still

threadVars == <<ep, now, fired, rest>>
stopVars == <<stopping, tm, cut, quiet, scan, calm>>
vars == <<pc, rounds, due, linked, pending, tstate, epoch, at, threadVars, stopVars>>

Goto(a, l) == pc' = [pc EXCEPT ![a] = l]

Init ==
  /\ pc = [a \in Tasks \cup {Timer, Stopper} |->
             IF a = Timer THEN "none" ELSE IF a = Stopper THEN "idle" ELSE "queued"]
  /\ rounds = 0
  /\ due = {}
  /\ linked = {}
  /\ pending = 0
  /\ tstate = 0
  /\ epoch = 0
  /\ at = [w \in Workers |-> "top"]
  /\ ep = 0
  /\ now = {}
  /\ fired = {}
  /\ rest = {}
  /\ stopping = FALSE
  /\ tm = 0
  /\ cut = FALSE
  /\ quiet = 0
  /\ scan = {}
  /\ calm = "moving"

--------------------------------------------------------------------------------
(* worker_main *)

Turn(w, p) == at' = [at EXCEPT ![w] = p]

Stir == calm' = IF calm = "still" THEN "moving" ELSE calm

Top(w) ==
  /\ at[w] = "top"
  /\ Turn(w, IF stopping THEN "exit" ELSE "find")
  /\ UNCHANGED <<pc, rounds, due, linked, pending, tstate, epoch, threadVars, stopVars>>

\* A frame that is found behind the announcement is dropped when the engine stops.
Take(w) ==
  /\ at[w] = "find"
  /\ \E t \in Tasks :
       /\ pc[t] = "queued"
       /\ \/ Goto(t, "run") /\ Turn(w, t)
          \/ stopping /\ Goto(t, "dropped") /\ Turn(w, "top")
  /\ Stir
  /\ UNCHANGED <<rounds, due, linked, pending, tstate, epoch, threadVars, stopping, tm, cut, quiet, scan>>

Rest(w) ==
  /\ at[w] = "find"
  /\ \A t \in Tasks : pc[t] # "queued"
  /\ Turn(w, "rest")
  /\ UNCHANGED <<pc, rounds, due, linked, pending, tstate, epoch, threadVars, stopVars>>

\* The futex has been called for it, or the wait ran out of time.
Rouse(w) ==
  /\ at[w] = "rest"
  /\ stopping \/ \E t \in Tasks : pc[t] = "queued"
  /\ Turn(w, "top")
  /\ UNCHANGED <<pc, rounds, due, linked, pending, tstate, epoch, threadVars, stopVars>>

--------------------------------------------------------------------------------
(* A coroutine *)

\* __ensure_timer_thread: it is there, or the caller makes it, or another does.
Ensure(t) ==
  \/ tstate = 2 /\ Goto(t, "count") /\ UNCHANGED tstate
  \/ tstate = 0 /\ tstate' = 1 /\ Goto(t, "spawn")
  \/ tstate = 1 /\ Goto(t, "await") /\ UNCHANGED tstate

\* sleep_until(): a deadline that has passed already costs nothing, another
\* needs the timer thread.
Sleep(t) ==
  /\ pc[t] = "run"
  /\ rounds < MaxRounds
  /\ rounds' = rounds + 1
  /\ UNCHANGED <<pc, tstate>> \/ Ensure(t)
  /\ UNCHANGED <<due, linked, pending, epoch, at, threadVars, stopVars>>

End(t) ==
  /\ pc[t] = "run"
  /\ Goto(t, "ended")
  /\ \E w \in Workers : at[w] = t /\ Turn(w, "top")
  /\ UNCHANGED <<rounds, due, linked, pending, tstate, epoch, threadVars, stopVars>>

Spawn(t) ==
  /\ pc[t] = "spawn"
  /\ pc' = [pc EXCEPT ![t] = "publish", ![Timer] = "top"]
  /\ UNCHANGED <<rounds, due, linked, pending, tstate, epoch, at, threadVars, stopVars>>

Publish(t) ==
  /\ pc[t] = "publish"
  /\ tstate' = 2
  /\ Goto(t, "count")
  /\ UNCHANGED <<rounds, due, linked, pending, epoch, at, threadVars, stopVars>>

AwaitThread(t) ==
  /\ pc[t] = "await"
  /\ tstate = 2
  /\ Goto(t, "count")
  /\ UNCHANGED <<rounds, due, linked, pending, tstate, epoch, at, threadVars, stopVars>>

Count(t) ==
  /\ pc[t] = "count"
  /\ pending' = pending + 1
  /\ Goto(t, "link")
  /\ UNCHANGED <<rounds, due, linked, tstate, epoch, at, threadVars, stopVars>>

Link(t) ==
  /\ pc[t] = "link"
  /\ linked' = linked \cup {t}
  /\ \E w \in Workers : at[w] = t /\ Turn(w, "bump")
  /\ Goto(t, "parked")
  /\ Stir
  /\ UNCHANGED <<rounds, due, pending, tstate, epoch, threadVars, stopping, tm, cut, quiet, scan>>

\* Time passes.  Nobody looks at a deadline before its node is linked.
Elapse(t) ==
  /\ pc[t] \in {"link", "parked"}
  /\ t \notin due
  /\ due' = due \cup {t}
  /\ UNCHANGED <<pc, rounds, linked, pending, tstate, epoch, at, threadVars, stopVars>>

Bump(w) ==
  /\ at[w] = "bump"
  /\ epoch' = epoch + 1
  /\ Turn(w, "wake")
  /\ UNCHANGED <<pc, rounds, due, linked, pending, tstate, threadVars, stopVars>>

\* wake_futex(&__timer_epoch, 1)
Wake(w) ==
  /\ at[w] = "wake"
  /\ Goto(Timer, IF pc[Timer] = "asleep" THEN "top" ELSE pc[Timer])
  /\ Turn(w, "top")
  /\ UNCHANGED <<rounds, due, linked, pending, tstate, epoch, threadVars, stopVars>>

--------------------------------------------------------------------------------
(* __timer_main *)

TimerTop ==
  /\ pc[Timer] = "top"
  /\ Goto(Timer, IF stopping THEN "exit" ELSE "epoch")
  /\ ep' = 0
  /\ rest' = {}
  /\ UNCHANGED <<rounds, due, linked, pending, tstate, epoch, at, now, fired, stopVars>>

TimerEpoch ==
  /\ pc[Timer] = "epoch"
  /\ ep' = epoch
  /\ Goto(Timer, "clock")
  /\ UNCHANGED <<rounds, due, linked, pending, tstate, epoch, at, now, fired, rest, stopVars>>

TimerClock ==
  /\ pc[Timer] = "clock"
  /\ now' = due
  /\ Goto(Timer, "scan")
  /\ UNCHANGED <<rounds, due, linked, pending, tstate, epoch, at, ep, fired, rest, stopVars>>

\* Under the lock: whoever was due at that time is taken from the list.
TimerScan ==
  /\ pc[Timer] = "scan"
  /\ fired' = linked \cap now
  /\ linked' = linked \ now
  /\ rest' = linked \ now
  /\ now' = {}
  /\ Goto(Timer, "fire")
  /\ UNCHANGED <<rounds, due, pending, tstate, epoch, at, ep, stopVars>>

\* submit() of one frame after the other, which then is no longer pending.
TimerFire ==
  /\ pc[Timer] = "fire"
  /\ \E t \in fired :
       /\ fired' = fired \ {t}
       /\ due' = due \ {t}
       /\ pc' = [pc EXCEPT ![t] = "queued", ![Timer] = "fired"]
  /\ UNCHANGED <<rounds, linked, pending, tstate, epoch, at, ep, now, rest, stopVars>>

TimerFired ==
  /\ pc[Timer] = "fired"
  /\ pending' = pending - 1
  /\ Goto(Timer, "fire")
  /\ UNCHANGED <<rounds, due, linked, tstate, epoch, at, threadVars, stopVars>>

\* Mutated form: the thread waits on the epoch as it finds it behind the scan.
TimerWaitFresh ==
  /\ pc[Timer] = "fire"
  /\ fired = {}
  /\ ep' = epoch
  /\ Goto(Timer, "asleep")
  /\ UNCHANGED <<rounds, due, linked, pending, tstate, epoch, at, now, fired, rest, stopVars>>

\* futex_wait, with the earliest deadline left as its limit if there is one.
TimerWait ==
  /\ pc[Timer] = "fire"
  /\ fired = {}
  /\ Goto(Timer, IF epoch = ep THEN "asleep" ELSE "top")
  /\ UNCHANGED <<rounds, due, linked, pending, tstate, epoch, at, threadVars, stopVars>>

TimerLimit ==
  /\ pc[Timer] = "asleep"
  /\ rest \cap due # {}
  /\ Goto(Timer, "top")
  /\ UNCHANGED <<rounds, due, linked, pending, tstate, epoch, at, threadVars, stopVars>>

Spurious ==
  /\ pc[Timer] = "asleep"
  /\ Goto(Timer, "top")
  /\ UNCHANGED <<rounds, due, linked, pending, tstate, epoch, at, threadVars, stopVars>>

--------------------------------------------------------------------------------
(* stop_coroutine_runtime *)

StopCall ==
  /\ Stops
  /\ pc[Stopper] = "idle"
  /\ Goto(Stopper, "look")
  /\ UNCHANGED <<rounds, due, linked, pending, tstate, epoch, at, threadVars, stopVars>>

\* Pending timers are waited for, unless their number has stayed the same for so
\* long that they are cut off.
StopLook ==
  /\ pc[Stopper] = "look"
  /\ \/ /\ pending = 0 \/ cut
        /\ tm' = IF pending = 0 THEN 0 ELSE tm
        /\ calm' = IF pending = 0 /\ calm = "moving" THEN "still" ELSE calm
        /\ Goto(Stopper, "inbox")
        /\ UNCHANGED <<cut, quiet>>
     \/ /\ pending # 0 /\ ~cut
        /\ tm' = pending
        /\ quiet' = 0
        /\ UNCHANGED <<pc, cut, calm>>
     \/ /\ pending # 0 /\ ~cut
        /\ tm = pending
        /\ cut' = TRUE
        /\ tm' = 0
        /\ Goto(Stopper, "inbox")
        /\ UNCHANGED <<quiet, calm>>
  /\ UNCHANGED <<rounds, due, linked, pending, tstate, epoch, at, threadVars, stopping, scan>>

\* The end of a look: the next one, or the stop behind enough quiet ones.
Looked(q) ==
  /\ quiet' = IF q THEN quiet + 1 ELSE 0
  /\ scan' = {}
  /\ calm' = IF calm # "still" THEN calm ELSE IF q THEN "calm" ELSE "moving"
  /\ Goto(Stopper, IF quiet' < Scans THEN "look" ELSE "stop")

StopInbox ==
  /\ pc[Stopper] = "inbox"
  /\ IF \E t \in Tasks : pc[t] = "queued"
     THEN Looked(FALSE)
     ELSE scan' = Workers /\ Goto(Stopper, "scan") /\ UNCHANGED <<quiet, calm>>
  /\ UNCHANGED <<rounds, due, linked, pending, tstate, epoch, at, threadVars, stopping, tm, cut>>

\* Mutated form: only the first worker is looked at.
StopScanFirst ==
  /\ pc[Stopper] = "scan"
  /\ LET i == CHOOSE i \in scan : \A j \in scan : i <= j IN
     Looked(at[i] \in {"rest", "exit"})
  /\ UNCHANGED <<rounds, due, linked, pending, tstate, epoch, at, threadVars, stopping, tm, cut>>

\* One worker after the other: is it active?
StopScan ==
  /\ pc[Stopper] = "scan"
  /\ LET i == CHOOSE i \in scan : \A j \in scan : i <= j
         resting == at[i] \in {"rest", "exit"} IN
     IF resting /\ scan # {i}
     THEN scan' = scan \ {i} /\ UNCHANGED <<pc, quiet, calm>>
     ELSE Looked(resting)
  /\ UNCHANGED <<rounds, due, linked, pending, tstate, epoch, at, threadVars, stopping, tm, cut>>

StopFlag ==
  /\ pc[Stopper] = "stop"
  /\ stopping' = TRUE
  /\ Goto(Stopper, IF tstate = 0 THEN "clear" ELSE "bump")
  /\ UNCHANGED <<rounds, due, linked, pending, tstate, epoch, at, threadVars, tm, cut, quiet, scan, calm>>

StopBump ==
  /\ pc[Stopper] = "bump"
  /\ StopRaces \/ pc[Timer] # "epoch"
  /\ epoch' = epoch + 1
  /\ Goto(Stopper, "wake")
  /\ UNCHANGED <<rounds, due, linked, pending, tstate, at, threadVars, stopVars>>

StopWake ==
  /\ pc[Stopper] = "wake"
  /\ pc' = [pc EXCEPT ![Stopper] = "join", ![Timer] = IF @ = "asleep" THEN "top" ELSE @]
  /\ UNCHANGED <<rounds, due, linked, pending, tstate, epoch, at, threadVars, stopVars>>

StopJoin ==
  /\ pc[Stopper] = "join"
  /\ pc[Timer] = "exit"
  /\ tstate' = 0
  /\ Goto(Stopper, "clear")
  /\ UNCHANGED <<rounds, due, linked, pending, epoch, at, threadVars, stopVars>>

StopClear ==
  /\ pc[Stopper] = "clear"
  /\ linked' = {}
  /\ Goto(Stopper, "reset")
  /\ UNCHANGED <<rounds, due, pending, tstate, epoch, at, threadVars, stopVars>>

StopReset ==
  /\ pc[Stopper] = "reset"
  /\ pending' = 0
  /\ Goto(Stopper, "workers")
  /\ UNCHANGED <<rounds, due, linked, tstate, epoch, at, threadVars, stopVars>>

StopWorkers ==
  /\ pc[Stopper] = "workers"
  /\ \A w \in Workers : at[w] = "exit"
  /\ Goto(Stopper, "stopped")
  /\ UNCHANGED <<rounds, due, linked, pending, tstate, epoch, at, threadVars, stopVars>>

--------------------------------------------------------------------------------
Running(t) ==
  \/ Sleep(t) \/ Spawn(t) \/ Publish(t) \/ AwaitThread(t) \/ Count(t) \/ Link(t)
  \/ End(t)

Working(w) == Top(w) \/ Take(w) \/ Rest(w) \/ Rouse(w) \/ Bump(w) \/ Wake(w)

TimerStep ==
  \/ TimerTop \/ TimerEpoch \/ TimerClock \/ TimerScan
  \/ TimerFire \/ TimerFired \/ TimerWait \/ TimerLimit

StopStep ==
  \/ StopLook \/ StopInbox \/ StopScan \/ StopFlag \/ StopBump \/ StopWake \/ StopJoin
  \/ StopClear \/ StopReset \/ StopWorkers

Next ==
  \/ \E t \in Tasks : Running(t) \/ Elapse(t)
  \/ \E w \in Workers : Working(w)
  \/ TimerStep \/ Spurious \/ StopCall \/ StopStep

Spec == Init /\ [][Next]_vars

\* Workers and threads in the middle of something go on, and time passes.
FairSpec ==
  /\ Spec
  /\ \A t \in Tasks : WF_vars(Running(t)) /\ WF_vars(Elapse(t))
  /\ \A w \in Workers : WF_vars(Working(w))
  /\ WF_vars(TimerStep) /\ WF_vars(StopStep)

--------------------------------------------------------------------------------
(* Properties. *)

TypeOK ==
  /\ \A t \in Tasks :
       pc[t] \in {"queued", "run", "spawn", "publish", "await", "count", "link", "parked",
                  "ended", "dropped"}
  /\ pc[Timer] \in {"none", "top", "epoch", "clock", "scan", "fire", "fired", "asleep", "exit"}
  /\ pc[Stopper] \in {"idle", "look", "inbox", "scan", "stop", "bump", "wake", "join", "clear", "reset",
                     "workers", "stopped"}
  /\ rounds \in 0 .. MaxRounds
  /\ due \subseteq Tasks /\ now \subseteq Tasks
  /\ linked \subseteq Tasks /\ fired \subseteq Tasks /\ rest \subseteq Tasks
  /\ pending \in 0 .. Cardinality(Tasks) + 1
  /\ tstate \in 0 .. 2
  /\ epoch \in Nat /\ ep \in Nat
  /\ \A w \in Workers : at[w] \in Tasks \/ at[w] \in {"top", "find", "rest", "bump", "wake", "exit"}
  /\ stopping \in BOOLEAN /\ cut \in BOOLEAN
  /\ tm \in Nat /\ quiet \in 0 .. Scans
  /\ scan \subseteq Workers /\ calm \in {"moving", "still", "calm"}

\* The timer thread never sleeps past a node: while one is linked the thread
\* exists, and it is awake, or knows that deadline, or will be told of it.  A
\* parked coroutine is linked or about to be resumed.
NobodyStranded ==
  ~stopping =>
    /\ \A t \in Tasks : pc[t] = "parked" <=> t \in linked \cup fired
    /\ linked # {} => pc[Timer] \notin {"none", "exit"}
    /\ pc[Timer] = "asleep" =>
         \/ linked \subseteq rest
         \/ \E w \in Workers : at[w] = "bump" \/ (epoch # ep /\ at[w] = "wake")

\* pending_timers is what the stop may rely on: it counts a node from before it is
\* linked until behind its submission.
PendingCounted ==
  pc[Stopper] \notin {"reset", "workers", "stopped"} =>
    pending = Cardinality({t \in Tasks : pc[t] = "link"}) + Cardinality(linked \cup fired)
                + (IF pc[Timer] = "fired" THEN 1 ELSE 0)

\* A coroutine wakes no earlier than its deadline.
NotEarly == fired \subseteq due

\* The looks of stop_coroutine_runtime, each of which takes many steps, suffice when
\* the runtime is still during one of them: unless it cut its timers off, or a frame
\* was taken or a node linked in the middle of every single look, the runtime stops
\* under no coroutine that runs, waits in the inbox or sleeps.
StopsWithoutSleepers ==
  stopping /\ ~cut /\ calm = "calm" => \A t \in Tasks : pc[t] = "ended"

\* Somebody sleeps or runs, or the runtime is about to stop.
Pending ==
  \/ pc[Stopper] # "stopped" /\ \E t \in Tasks : pc[t] # "ended"
  \/ pc[Stopper] \notin {"idle", "stopped"}

\* Whatever sleeps, the runtime comes to its end once it is stopping: "a parked
\* timer must not be able to hold the process open".
StopReturns == stopping ~> pc[Stopper] = "stopped"
================================================================================
