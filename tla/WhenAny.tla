--------------------------------- MODULE WhenAny -------------------------------
(***************************************************************************)
(* sync/futex_future.hpp, awaited by a thread in wait() or wait_for() and   *)
(* by a coroutine through __futex_future_awaiter or when_any of             *)
(* tasks/coroutine/cl_sched.hpp.                                            *)
(*                                                                          *)
(* A future has one place for a coroutine waiter: 0, 1 once the value is    *)
(* there, or a token with the function to call for it.  when_any puts a     *)
(* token with every future and lets the first that fires decide a word that *)
(* is -1 while the awaiter arms, -2 once it has suspended, and then the     *)
(* winner; the last of its n + 1 references frees it.                       *)
(***************************************************************************)
EXTENDS Integers, FiniteSets

CONSTANTS
  N,              \* futures 1 .. N, each with one promise
  Rounds          \* awaits of the task, one after the other

Futs == 1 .. N
Task == 0
Actors == {Task} \cup Futs        \* who may call a token's function

VARIABLES
  rdy, wstate, wresume,     \* of each future; wstate: 0, 1 or a token
  pc,                       \* of the promises' owners and of the task
  thread,                   \* a thread in wait_for() on the first future
  how, round, i,            \* the task: "one" or "any", its await, the future it arms
  tok,                      \* the token an actor has in hand
  winner, refs              \* __sel_state of each round

futVars == <<rdy, wstate, wresume>>
selVars == <<winner, refs>>
taskVars == <<how, round, i>>
vars == <<futVars, selVars, taskVars, pc, thread, tok>>

\* The token of a future, as the place for it holds it.
Token(r, f, h) == [round |-> r, fut |-> f, how |-> h]
NoToken == Token(0, 0, "none")
Unset == Token(0, 0, "unset")
Set == Token(0, 0, "set")

Goto(a, l) == pc' = [pc EXCEPT ![a] = l]

Init ==
  /\ rdy = [f \in Futs |-> FALSE]
  /\ wstate = [f \in Futs |-> Unset]
  /\ wresume = [f \in Futs |-> "none"]
  /\ pc = [a \in Actors |-> "idle"]
  /\ thread = "check"
  /\ how = "none"
  /\ round = 0
  /\ i = 0
  /\ tok = [a \in Actors |-> NoToken]
  /\ winner = [r \in 1 .. Rounds |-> -1]
  /\ refs = [r \in 1 .. Rounds |-> 0]

--------------------------------------------------------------------------------
(* set_value(), set_exception() or the end of the promise *)

SetReady(f) ==
  /\ pc[f] = "idle"
  /\ rdy' = [rdy EXCEPT ![f] = TRUE]
  /\ Goto(f, "wakeall")
  /\ UNCHANGED <<wstate, wresume, selVars, taskVars, thread, tok>>

WakeThreads(f) ==
  /\ pc[f] = "wakeall"
  /\ thread' = IF f = 1 /\ thread = "asleep" THEN "check" ELSE thread
  /\ Goto(f, "swap")
  /\ UNCHANGED <<futVars, selVars, taskVars, tok>>

\* __wake_waiter(): the swap; a token that was there is fired.
SwapState(f) ==
  /\ pc[f] = "swap"
  /\ wstate' = [wstate EXCEPT ![f] = Set]
  /\ IF wstate[f].round > 0
     THEN tok' = [tok EXCEPT ![f] = wstate[f]] /\ Goto(f, "fire")
     ELSE Goto(f, "done") /\ UNCHANGED tok
  /\ UNCHANGED <<rdy, wresume, selVars, taskVars, thread>>

--------------------------------------------------------------------------------
(* The function of a token.  The task itself calls it for a future that is      *)
(* ready when it is armed, and goes on arming.                                  *)

\* What is called: the function of the future's place, or __sel_fire by the task.
Called(a) == IF a = Task THEN "any" ELSE wresume[a]

Fired(a) == IF a = Task THEN "arm" ELSE "done"

\* __futex_future_awaiter: the frame is submitted.
FireOne(a) ==
  /\ pc[a] = "fire"
  /\ Called(a) = "one"
  /\ pc' = [pc EXCEPT ![a] = "done", ![Task] = "resume"]
  /\ tok' = [tok EXCEPT ![a] = NoToken]
  /\ UNCHANGED <<futVars, selVars, taskVars, thread>>

\* Mutated form: a suspended awaiter is left alone.
FireFirstOnly(a) ==
  /\ pc[a] = "fire"
  /\ Called(a) = "any"
  /\ LET r == tok[a].round IN
       winner' = [winner EXCEPT ![r] = IF @ = -1 THEN tok[a].fut ELSE @]
  /\ Goto(a, "rel")
  /\ UNCHANGED <<futVars, refs, taskVars, thread, tok>>

\* __sel_fire: the first compare-exchange ...
FireFirst(a) ==
  /\ pc[a] = "fire"
  /\ Called(a) = "any"
  /\ LET r == tok[a].round IN
       /\ winner' = [winner EXCEPT ![r] = IF @ = -1 THEN tok[a].fut ELSE @]
       /\ Goto(a, IF winner[r] = -2 THEN "again" ELSE "rel")
  /\ UNCHANGED <<futVars, refs, taskVars, thread, tok>>

\* ... the second, which resumes the task that has suspended ...
FireAgain(a) ==
  /\ pc[a] = "again"
  /\ LET r == tok[a].round IN
     IF winner[r] = -2
     THEN /\ winner' = [winner EXCEPT ![r] = tok[a].fut]
          /\ pc' = [pc EXCEPT ![a] = "rel", ![Task] = "resume"]
     ELSE Goto(a, "rel") /\ UNCHANGED winner
  /\ UNCHANGED <<futVars, refs, taskVars, thread, tok>>

\* ... and the reference.
Release(a) ==
  /\ pc[a] = "rel"
  /\ refs' = [refs EXCEPT ![tok[a].round] = @ - 1]
  /\ tok' = [tok EXCEPT ![a] = NoToken]
  /\ Goto(a, Fired(a))
  /\ i' = IF a = Task THEN i + 1 ELSE i
  /\ UNCHANGED <<futVars, winner, how, round, thread>>

--------------------------------------------------------------------------------
(* The task *)

\* co_await on one future: await_ready(); or when_any: the state is made.  Any
\* future may be in when_any again with the token of an earlier await in its place,
\* but one that has such a token is not awaited alone: its place would then hold
\* the function of one await with the token of another, and calling that is
\* undefined.
Await(h) ==
  /\ pc[Task] = "idle"
  /\ round < Rounds
  /\ round' = round + 1
  /\ how' = h
  /\ \E f \in IF h = "any" THEN {1} ELSE Futs :
       /\ h = "one" => wstate[f].round = 0
       /\ i' = f
       /\ Goto(Task, IF h = "one" /\ rdy[f] THEN "resume" ELSE "arm")
  /\ refs' = IF h = "any" THEN [refs EXCEPT ![round + 1] = N + 1] ELSE refs
  /\ UNCHANGED <<futVars, winner, thread, tok>>

\* __arm_waiter(): the function is stored ...
ArmStore ==
  /\ pc[Task] = "arm"
  /\ i <= N
  /\ wresume' = [wresume EXCEPT ![i] = how]
  /\ Goto(Task, "armcas")
  /\ UNCHANGED <<rdy, wstate, selVars, taskVars, thread, tok>>

\* Mutated form: the token is stored over whatever is there.
ArmBlindly ==
  /\ pc[Task] = "armcas"
  /\ wstate' = [wstate EXCEPT ![i] = Token(round, i, how)]
  /\ IF how = "any" THEN Goto(Task, "arm") /\ i' = i + 1 ELSE Goto(Task, "parked") /\ UNCHANGED i
  /\ UNCHANGED <<rdy, wresume, selVars, how, round, thread, tok>>

\* ... and then the token, unless something is there already: that counts as
\* ready, and when_any fires on the spot.
ArmCas ==
  /\ pc[Task] = "armcas"
  /\ IF wstate[i] = Unset
     THEN /\ wstate' = [wstate EXCEPT ![i] = Token(round, i, how)]
          /\ IF how = "any" THEN Goto(Task, "arm") /\ i' = i + 1
                            ELSE Goto(Task, "parked") /\ UNCHANGED i
          /\ UNCHANGED tok
     ELSE /\ IF how = "any" THEN Goto(Task, "fire") /\ tok' = [tok EXCEPT ![Task] = Token(round, i, how)]
                            ELSE Goto(Task, "resume") /\ UNCHANGED tok
          /\ UNCHANGED <<wstate, i>>
  /\ UNCHANGED <<rdy, wresume, selVars, how, round, thread>>

\* Mutated form: the task goes on whether there is a winner or not.
SuspendNot ==
  /\ pc[Task] = "arm"
  /\ i > N
  /\ Goto(Task, "resume")
  /\ UNCHANGED <<futVars, selVars, taskVars, thread, tok>>

\* Behind the last future of when_any: suspend, unless there is a winner.
Suspend ==
  /\ pc[Task] = "arm"
  /\ i > N
  /\ IF winner[round] = -1
     THEN winner' = [winner EXCEPT ![round] = -2] /\ Goto(Task, "parked")
     ELSE Goto(Task, "resume") /\ UNCHANGED winner
  /\ UNCHANGED <<futVars, refs, taskVars, thread, tok>>

\* await_resume(): the winner and the task's own reference; or get(), which
\* waits until the value is there.
Resume ==
  /\ pc[Task] = "resume"
  /\ IF how = "any"
     THEN refs' = [refs EXCEPT ![round] = @ - 1]
     ELSE rdy[i] /\ UNCHANGED refs
  /\ Goto(Task, "idle")
  /\ how' = "none"
  /\ i' = 0
  /\ UNCHANGED <<futVars, winner, round, thread, tok>>

--------------------------------------------------------------------------------
(* The thread: wait_for() tests the word, sleeps on the futex while it is 0,    *)
(* and may run out of time.                                                     *)

ThreadCheck ==
  /\ thread = "check"
  /\ thread' = IF rdy[1] THEN "ready" ELSE "futex"
  /\ UNCHANGED <<futVars, selVars, taskVars, pc, tok>>

ThreadFutex ==
  /\ thread = "futex"
  /\ thread' = IF rdy[1] THEN "check" ELSE "asleep"
  /\ UNCHANGED <<futVars, selVars, taskVars, pc, tok>>

\* A timeout looks at the word once more for the status.
ThreadTimeout ==
  /\ thread = "asleep"
  /\ thread' = IF rdy[1] THEN "ready" ELSE "timeout"
  /\ UNCHANGED <<futVars, selVars, taskVars, pc, tok>>

--------------------------------------------------------------------------------
Setting(f) == SetReady(f) \/ WakeThreads(f) \/ SwapState(f)
Firing(a) == FireOne(a) \/ FireFirst(a) \/ FireAgain(a) \/ Release(a)
TaskStep == ArmStore \/ ArmCas \/ Suspend \/ Resume
ThreadStep == ThreadCheck \/ ThreadFutex

Next ==
  \/ \E f \in Futs : Setting(f)
  \/ \E a \in Actors : Firing(a)
  \/ \E h \in {"one", "any"} : Await(h)
  \/ TaskStep \/ ThreadStep \/ ThreadTimeout

Spec == Init /\ [][Next]_vars

--------------------------------------------------------------------------------
(* Properties. *)

Tokens == [round : 0 .. Rounds, fut : 0 .. N, how : {"none", "unset", "set", "one", "any"}]

TypeOK ==
  /\ rdy \in [Futs -> BOOLEAN]
  /\ wstate \in [Futs -> Tokens]
  /\ wresume \in [Futs -> {"none", "one", "any"}]
  /\ pc \in [Actors -> {"idle", "wakeall", "swap", "fire", "again", "rel", "done", "arm", "armcas", "parked", "resume"}]
  /\ thread \in {"check", "futex", "asleep", "ready", "timeout"}
  /\ how \in {"none", "one", "any"}
  /\ round \in 0 .. Rounds
  /\ i \in 0 .. N + 1
  /\ tok \in [Actors -> Tokens]
  /\ winner \in [1 .. Rounds -> {-1, -2} \cup Futs]
  /\ refs \in [1 .. Rounds -> 0 .. N + 1]

\* The task goes on behind an await of one future only when that is ready, and
\* behind when_any with a winner that is ready or, as armed already counts as ready,
\* still has the token of an earlier when_any in its place.
WinnerReady ==
  pc[Task] = "resume" =>
    IF how = "any"
    THEN LET w == winner[round] IN w \in Futs /\ (rdy[w] \/ wstate[w].round \in 1 .. round - 1)
    ELSE rdy[i]

\* The select state is there whenever it is used: a token in a future or in
\* somebody's hand, and the task itself, each have a reference.
StateAlive ==
  \A r \in 1 .. Rounds :
    LET mine(t) == t.round = r /\ t.how = "any"
        unarmed == IF round # r \/ how # "any" THEN 0
                   ELSE IF pc[Task] \in {"arm", "armcas"} THEN N + 1 - i
                   ELSE IF mine(tok[Task]) THEN N - i ELSE 0
    IN refs[r] = Cardinality({f \in Futs : mine(wstate[f])}) + Cardinality({a \in Actors : mine(tok[a])})
                   + unarmed + (IF round = r /\ how = "any" THEN 1 ELSE 0)

\* A token is called with the function that was stored with it.
FunctionMatches == \A a \in Actors : pc[a] = "fire" /\ a # Task => wresume[a] = tok[a].how

\* A parked task has a token with a future that is not set, or one is being fired.
NobodyStranded ==
  pc[Task] = "parked" =>
    \/ \E f \in Futs : wstate[f].round = round
    \/ \E f \in Futs : pc[f] \in {"fire", "again"} /\ tok[f].round = round

\* The task has not been through its awaits, or the thread is in wait_for().
Pending ==
  \/ round < Rounds \/ pc[Task] # "idle"
  \/ thread \notin {"ready", "timeout"}
================================================================================
