--------------------------------- MODULE Parking -------------------------------
(***************************************************************************)
(* How the workers of tasks/coroutine/cl_sched.hpp go to sleep, are woken   *)
(* and stop: engine::worker_main, engine::__find, engine::submit,           *)
(* __cl_wake_one (tasks/coro_core.hpp) and stop_coroutine_runtime.          *)
(*                                                                          *)
(* A worker that finds nothing reads its epoch, announces itself in the     *)
(* mask, looks once more, and waits on the futex while the epoch is still   *)
(* what it read.  Whoever submits looks at the mask after the work is in    *)
(* the inbox, claims one bit, bumps that worker's epoch and wakes it.       *)
(*                                                                          *)
(* A job is a frame up to its next suspension.  The job with a kid forks:   *)
(* the kid goes to the worker's own deque, where others may steal it.       *)
(***************************************************************************)
EXTENDS Integers, FiniteSets

CONSTANTS
  Workers,        \* integers: the lowest bit of the mask is claimed first
  Submitters,     \* each submits the job of its name
  Stopper, Null,
  Kid,            \* function on the jobs: what a job forks, or Null
  Scans           \* quiet scans before the stop (4 in the code)

Jobs == DOMAIN Kid

VARIABLES
  pc, inbox, dq, mask, epoch, active, stopping, asleep,
  job, ep, announced,       \* of each worker
  seen,                     \* the mask as a waker knows it
  done,
  quiet, scan,              \* the stopper: quiet scans so far, workers still to look at
  calm                      \* auxiliary: "still" while no worker has taken a frame in this
                            \* scan, "calm" behind a quiet scan that was still

workVars == <<inbox, dq, job, done>>
parkVars == <<mask, epoch, asleep, ep, announced>>
stopVars == <<stopping, quiet, scan, calm>>
vars == <<pc, workVars, parkVars, stopVars, active, seen>>

Actors == Workers \cup Submitters \cup {Stopper}

Goto(a, l) == pc' = [pc EXCEPT ![a] = l]

Init ==
  /\ pc = [a \in Actors |-> IF a \in Workers THEN "top" ELSE "idle"]
  /\ inbox = {}
  /\ dq = [w \in Workers |-> {}]
  /\ mask = {}
  /\ epoch = [w \in Workers |-> 0]
  /\ active = [w \in Workers |-> FALSE]
  /\ stopping = FALSE
  /\ asleep = {}
  /\ job = [w \in Workers |-> Null]
  /\ ep = [w \in Workers |-> 0]
  /\ announced = [w \in Workers |-> FALSE]
  /\ seen = [a \in Actors |-> {}]
  /\ done = {}
  /\ quiet = 0
  /\ scan = {}
  /\ calm = "moving"

--------------------------------------------------------------------------------
(* __cl_wake_one: a submitter or a worker that forked, from "wake" to "claim",  *)
(* "bump", "call" and back.                                                     *)

Woke(a) == IF a \in Workers THEN "ran" ELSE "done"

\* The strong form reads the mask; the weak one of __notify_work may read it as
\* it was before.
ReadMask(a) ==
  /\ pc[a] = "wake"
  /\ \/ mask # {} /\ seen' = [seen EXCEPT ![a] = mask] /\ Goto(a, "claim")
     \/ (mask = {} \/ a \in Workers) /\ Goto(a, Woke(a)) /\ UNCHANGED seen
  /\ UNCHANGED <<workVars, parkVars, stopVars, active>>

Claim(a) ==
  /\ pc[a] = "claim"
  /\ LET i == CHOOSE i \in seen[a] : \A j \in seen[a] : i <= j IN
       /\ mask' = mask \ {i}
       /\ IF i \in mask
          THEN seen' = [seen EXCEPT ![a] = {i}] /\ Goto(a, "bump")
          ELSE /\ seen' = [seen EXCEPT ![a] = mask]
               /\ Goto(a, IF mask = {} THEN Woke(a) ELSE "claim")
  /\ UNCHANGED <<workVars, epoch, asleep, ep, announced, stopVars, active>>

Bump(a) ==
  /\ pc[a] = "bump"
  /\ \E i \in seen[a] : epoch' = [epoch EXCEPT ![i] = @ + 1]
  /\ Goto(a, "call")
  /\ UNCHANGED <<workVars, mask, asleep, ep, announced, stopVars, active, seen>>

WakeFutex(a) ==
  /\ pc[a] = "call"
  /\ asleep' = asleep \ seen[a]
  /\ seen' = [seen EXCEPT ![a] = {}]
  /\ Goto(a, Woke(a))
  /\ UNCHANGED <<workVars, mask, epoch, ep, announced, stopVars, active>>

\* Mutated form: the mask is looked at before the work is in the inbox.
SubmitLate(s) ==
  /\ s \in Submitters
  /\ \/ /\ pc[s] = "idle"
        /\ mask = {}
        /\ Goto(s, "late")
        /\ UNCHANGED inbox
     \/ /\ pc[s] = "idle"
        /\ mask # {}
        /\ inbox' = inbox \cup {s}
        /\ Goto(s, "wake")
     \/ /\ pc[s] = "late"
        /\ inbox' = inbox \cup {s}
        /\ Goto(s, "done")
  /\ UNCHANGED <<dq, job, done, parkVars, stopVars, active, seen>>

Submit(s) ==
  /\ s \in Submitters
  /\ pc[s] = "idle"
  /\ inbox' = inbox \cup {s}
  /\ Goto(s, "wake")
  /\ UNCHANGED <<dq, job, done, parkVars, stopVars, active, seen>>

--------------------------------------------------------------------------------
(* worker_main *)

Loop(w) ==
  /\ active' = [active EXCEPT ![w] = ~stopping]
  /\ Goto(w, IF stopping THEN "exit" ELSE "find")

Top(w) ==
  /\ pc[w] = "top"
  /\ Loop(w)
  /\ UNCHANGED <<workVars, parkVars, stopVars, seen>>

Got(w, j) ==
  /\ calm' = IF calm = "still" THEN "moving" ELSE calm
  /\ job' = [job EXCEPT ![w] = j]
  /\ Goto(w, IF announced[w] THEN "unannounce" ELSE "run")

\* __find: the worker's own deque, then the inbox ...
Find(w) ==
  /\ pc[w] = "find"
  /\ \/ \E j \in dq[w] : dq' = [dq EXCEPT ![w] = @ \ {j}] /\ Got(w, j) /\ UNCHANGED inbox
     \/ /\ dq[w] = {}
        /\ \E j \in inbox : inbox' = inbox \ {j} /\ Got(w, j)
        /\ UNCHANGED dq
     \/ dq[w] = {} /\ inbox = {} /\ Goto(w, "steal") /\ UNCHANGED <<inbox, dq, job, calm>>
  /\ UNCHANGED <<done, parkVars, stopping, quiet, scan, active, seen>>

\* ... then the others' deques.
Steal(w) ==
  /\ pc[w] = "steal"
  /\ \/ \E v \in Workers \ {w} : \E j \in dq[v] :
          dq' = [dq EXCEPT ![v] = @ \ {j}] /\ Got(w, j)
     \/ /\ \A v \in Workers \ {w} : dq[v] = {}
        /\ Goto(w, "rest")
        /\ UNCHANGED <<dq, job, calm>>
  /\ UNCHANGED <<inbox, done, parkVars, stopping, quiet, scan, active, seen>>

\* The frame runs; what it forks is published, with a weak notification.
Run(w) ==
  /\ pc[w] = "run"
  /\ LET k == Kid[job[w]] IN
     IF k # Null
     THEN dq' = [dq EXCEPT ![w] = @ \cup {k}] /\ Goto(w, "wake")
     ELSE Goto(w, "ran") /\ UNCHANGED dq
  /\ UNCHANGED <<inbox, job, done, parkVars, stopVars, active, seen>>

Ran(w) ==
  /\ pc[w] = "ran"
  /\ done' = done \cup {job[w]}
  /\ job' = [job EXCEPT ![w] = Null]
  /\ Loop(w)
  /\ UNCHANGED <<inbox, dq, parkVars, stopVars, seen>>

\* Nothing found: not active, and the epoch is read before the announcement, or
\* with the announcement made already the futex comes next.
Rest(w) ==
  /\ pc[w] = "rest"
  /\ active' = [active EXCEPT ![w] = FALSE]
  /\ IF announced[w]
     THEN Goto(w, "check") /\ UNCHANGED ep
     ELSE Goto(w, "announce") /\ ep' = [ep EXCEPT ![w] = epoch[w]]
  /\ UNCHANGED <<workVars, mask, epoch, asleep, announced, stopVars, seen>>

\* Mutated form: the worker sleeps without looking for work once more.
AnnounceOnly(w) ==
  /\ pc[w] = "announce"
  /\ mask' = mask \cup {w}
  /\ announced' = [announced EXCEPT ![w] = TRUE]
  /\ Goto(w, "check")
  /\ UNCHANGED <<workVars, epoch, asleep, ep, stopVars, active, seen>>

Announce(w) ==
  /\ pc[w] = "announce"
  /\ mask' = mask \cup {w}
  /\ announced' = [announced EXCEPT ![w] = TRUE]
  /\ Goto(w, "reactivate")
  /\ UNCHANGED <<workVars, epoch, asleep, ep, stopVars, active, seen>>

Reactivate(w) ==
  /\ pc[w] = "reactivate"
  /\ active' = [active EXCEPT ![w] = TRUE]
  /\ Goto(w, "find")
  /\ UNCHANGED <<workVars, parkVars, stopVars, seen>>

\* A frame has been found, or the sleep is over: the bit is cleared, and a frame
\* in hand is run unless the engine stops.
Unannounce(w) ==
  /\ pc[w] = "unannounce" \/ (pc[w] = "parked" /\ w \notin asleep)
  /\ mask' = mask \ {w}
  /\ announced' = [announced EXCEPT ![w] = FALSE]
  /\ ep' = [ep EXCEPT ![w] = 0]
  /\ IF job[w] # Null /\ ~stopping
     THEN Goto(w, "run") /\ UNCHANGED job
     ELSE Goto(w, "top") /\ job' = [job EXCEPT ![w] = Null]
  /\ UNCHANGED <<inbox, dq, done, epoch, asleep, stopVars, active, seen>>

Check(w) ==
  /\ pc[w] = "check"
  /\ Goto(w, IF stopping THEN "unannounce" ELSE "wait")
  /\ UNCHANGED <<workVars, parkVars, stopVars, active, seen>>

\* futex_wait compares and sleeps in one step; the time limit may end it early.
FutexWait(w) ==
  /\ pc[w] = "wait"
  /\ IF epoch[w] = ep[w]
     THEN asleep' = asleep \cup {w} /\ Goto(w, "parked")
     ELSE Goto(w, "unannounce") /\ UNCHANGED asleep
  /\ UNCHANGED <<workVars, mask, epoch, ep, announced, stopVars, active, seen>>

TimesOut(w) ==
  /\ w \in asleep
  /\ asleep' = asleep \ {w}
  /\ UNCHANGED <<pc, workVars, mask, epoch, ep, announced, stopVars, active, seen>>

--------------------------------------------------------------------------------
(* stop_coroutine_runtime, called when nobody submits any more *)

StopCall ==
  /\ pc[Stopper] = "idle"
  /\ \A s \in Submitters : pc[s] = "done"
  /\ Goto(Stopper, "scan")
  /\ UNCHANGED <<workVars, parkVars, stopVars, active, seen>>

\* A scan looks at the inbox and then at one worker after the other.
ScanInbox ==
  /\ pc[Stopper] = "scan"
  /\ IF inbox = {}
     THEN /\ Goto(Stopper, "workers")
          /\ scan' = Workers
          /\ calm' = IF calm = "moving" THEN "still" ELSE calm
          /\ UNCHANGED quiet
     ELSE quiet' = 0 /\ UNCHANGED <<pc, scan, calm>>
  /\ UNCHANGED <<workVars, parkVars, stopping, active, seen>>

\* The end of a scan: the next one, or the stop behind enough quiet ones.
Scanned(q) ==
  /\ quiet' = IF q THEN quiet + 1 ELSE 0
  /\ scan' = {}
  /\ calm' = IF calm # "still" THEN calm ELSE IF q THEN "calm" ELSE "moving"
  /\ Goto(Stopper, IF quiet' < Scans THEN "scan" ELSE "stop")

\* Mutated form: a worker that runs a frame counts as idle.
ScanWorkerDeque ==
  /\ pc[Stopper] = "workers"
  /\ LET i == CHOOSE i \in scan : \A j \in scan : i <= j IN
     IF dq[i] = {} /\ scan # {i}
     THEN scan' = scan \ {i} /\ UNCHANGED <<pc, quiet, calm>>
     ELSE Scanned(dq[i] = {})
  /\ UNCHANGED <<workVars, parkVars, stopping, active, seen>>

ScanWorker ==
  /\ pc[Stopper] = "workers"
  /\ LET i == CHOOSE i \in scan : \A j \in scan : i <= j
         idle == ~active[i] /\ dq[i] = {} IN
     IF idle /\ scan # {i}
     THEN scan' = scan \ {i} /\ UNCHANGED <<pc, quiet, calm>>
     ELSE Scanned(idle)
  /\ UNCHANGED <<workVars, parkVars, stopping, active, seen>>

Stop ==
  /\ pc[Stopper] = "stop"
  /\ stopping' = TRUE
  /\ scan' = Workers
  /\ Goto(Stopper, "raise")
  /\ UNCHANGED <<workVars, parkVars, quiet, calm, active, seen>>

\* The epoch of each worker is bumped and the worker woken.
StopWake ==
  /\ pc[Stopper] = "raise"
  /\ scan # {}
  /\ \E i \in scan :
       /\ scan' = scan \ {i}
       /\ epoch' = [epoch EXCEPT ![i] = @ + 1]
       /\ asleep' = asleep \ {i}
       /\ Goto(Stopper, IF scan = {i} THEN "join" ELSE "raise")
  /\ UNCHANGED <<workVars, mask, ep, announced, stopping, quiet, calm, active, seen>>

StopJoin ==
  /\ pc[Stopper] = "join"
  /\ \A w \in Workers : pc[w] = "exit"
  /\ Goto(Stopper, "stopped")
  /\ UNCHANGED <<workVars, parkVars, stopVars, active, seen>>

--------------------------------------------------------------------------------
Waking(a) == ReadMask(a) \/ Claim(a) \/ Bump(a) \/ WakeFutex(a)

Working(w) ==
  \/ Top(w) \/ Find(w) \/ Steal(w) \/ Run(w) \/ Ran(w)
  \/ Rest(w) \/ Announce(w) \/ Reactivate(w) \/ Unannounce(w)
  \/ Check(w) \/ FutexWait(w)

Stopping == StopCall \/ ScanInbox \/ ScanWorker \/ Stop \/ StopWake \/ StopJoin

Next ==
  \/ \E a \in Actors : Waking(a) \/ Submit(a)
  \/ \E w \in Workers : Working(w) \/ TimesOut(w)
  \/ Stopping

Spec == Init /\ [][Next]_vars

--------------------------------------------------------------------------------
(* Properties. *)

PCs == {"idle", "wake", "claim", "bump", "call", "done", "top", "find", "steal", "run", "ran",
        "rest", "announce", "reactivate", "unannounce", "check", "wait", "parked", "exit",
        "scan", "workers", "stop", "raise", "join", "stopped", "late"}

TypeOK ==
  /\ pc \in [Actors -> PCs]
  /\ inbox \subseteq Jobs /\ done \subseteq Jobs
  /\ dq \in [Workers -> SUBSET Jobs]
  /\ mask \subseteq Workers /\ asleep \subseteq Workers /\ scan \subseteq Workers
  /\ epoch \in [Workers -> Nat] /\ ep \in [Workers -> Nat]
  /\ active \in [Workers -> BOOLEAN] /\ announced \in [Workers -> BOOLEAN]
  /\ stopping \in BOOLEAN
  /\ job \in [Workers -> Jobs \cup {Null}]
  /\ seen \in [Actors -> SUBSET Workers]
  /\ quiet \in 0 .. Scans
  /\ calm \in {"moving", "still", "calm"}

\* No wake-up is lost: when there is work in the inbox, not every worker sleeps
\* or is bound to, unless somebody is still going to wake one.
NobodyStranded ==
  LET sleeps(w) == w \in asleep \/ (pc[w] \in {"check", "wait"} /\ epoch[w] = ep[w] /\ ~stopping)
  IN (inbox # {} /\ \A w \in Workers : sleeps(w)) =>
       \E a \in Submitters : pc[a] \in {"wake", "claim", "bump", "call"}

\* The scans of stop_coroutine_runtime, which look at one worker after the other,
\* suffice when the workers are still during one of them: unless a frame changed
\* hands in the middle of every single scan, the engine stops with nothing left
\* in the inbox, in a deque or in a worker's hand.
StopsEmpty ==
  stopping /\ calm = "calm" => inbox = {} /\ \A w \in Workers : dq[w] = {} /\ job[w] = Null

\* A job that was submitted is not done, or the workers are to end and have not.
Pending ==
  \/ \E s \in Submitters : pc[s] # "idle" /\ s \notin done
  \/ stopping /\ pc[Stopper] # "stopped"
================================================================================
