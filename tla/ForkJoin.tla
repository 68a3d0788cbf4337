-------------------------------- MODULE ForkJoin -------------------------------
(***************************************************************************)
(* Fork and join by stealing continuations: tasks/fork_join.hpp,            *)
(* tasks/coro_core.hpp, the end of a task in tasks/task.hpp, and where      *)
(* engine::__find of tasks/coroutine/cl_sched.hpp takes its work.           *)
(*                                                                          *)
(* fork publishes the parent's continuation on the worker's deque and runs  *)
(* the child.  A child that ends and finds the parent at the bottom of the  *)
(* deque goes on with it, and nothing is counted.  A continuation that is   *)
(* taken otherwise is counted in steals; each child that ends without its   *)
(* parent's continuation gives a credit; join waits for as many credits as  *)
(* there were steals.                                                       *)
(*                                                                          *)
(* A frame runs Prog[f], a sequence of frames to fork, "wait" (suspended on *)
(* something that resumes it through the inbox), "yield" (reschedule()) and *)
(* "join".  Whoever forks joins.  The deques are sequences, the bottom      *)
(* last, which is what ChaseLev implements.                                 *)
(***************************************************************************)
EXTENDS Integers, Sequences, FiniteSets

CONSTANTS Workers, Frames, Root, Null,
  Prog, Parent,   \* functions on Frames
  Cap             \* places of a deque

VARIABLES
  ip, dq, inbox,            \* next step of a frame; where frames wait for a worker
  waiting,                  \* frames suspended on something else
  wpc, cur, hold,           \* each worker: where it is, its frame, a popped one
  kind,                     \* __pushed_kind
  steals, credits, armed,   \* __steals and __joins; armed: Null or the expected credits
  cont,                     \* children that hold their parent in __cont
  started, done, failed,    \* frames that exist, that ended, that have an error
  err                       \* frames whose __first_err is set

accounts == <<steals, credits, armed>>
vars == <<ip, dq, inbox, waiting, wpc, cur, hold, kind, accounts, cont, started, done, failed, err>>

Init ==
  /\ ip = [f \in Frames |-> 1]
  /\ dq = [w \in Workers |-> <<>>]
  /\ inbox = {Root}
  /\ waiting = {}
  /\ wpc = [w \in Workers |-> "find"]
  /\ cur = [w \in Workers |-> Null]
  /\ hold = [w \in Workers |-> Null]
  /\ kind = [f \in Frames |-> "plain"]
  /\ steals = [f \in Frames |-> 0]
  /\ credits = [f \in Frames |-> 0]
  /\ armed = [f \in Frames |-> Null]
  /\ cont = {}
  /\ started = {Root}
  /\ done = {}
  /\ failed = {}
  /\ err = {}

\* Worker w goes on with frame f, or looks for one.
RunNext(w, f) ==
  /\ cur' = [cur EXCEPT ![w] = f]
  /\ wpc' = [wpc EXCEPT ![w] = IF f = Null THEN "find" ELSE "run"]

Bottom(w) == IF dq[w] = <<>> THEN Null ELSE dq[w][Len(dq[w])]
PopBottom(w) == dq' = [dq EXCEPT ![w] = SubSeq(@, 1, Len(@) - 1)]
PushBottom(w, f) == Len(dq[w]) < Cap /\ dq' = [dq EXCEPT ![w] = Append(@, f)]

--------------------------------------------------------------------------------
(* engine::__find: the worker's own deque, the inbox, and then the others'       *)
(* deques.  Now and then the inbox comes first.                                 *)

\* Mutated form: a continuation that is stolen is not counted.
CountTakeNot(f) == UNCHANGED steals

CountTake(f) ==
  steals' = IF kind[f] = "fork" THEN [steals EXCEPT ![f] = @ + 1] ELSE steals

FindOwn(w) ==
  /\ wpc[w] = "find"
  /\ dq[w] # <<>>
  /\ PopBottom(w)
  /\ CountTake(Bottom(w))
  /\ RunNext(w, Bottom(w))
  /\ UNCHANGED <<ip, inbox, waiting, hold, kind, credits, armed, cont, done, failed, err, started>>

FindInbox(w) ==
  /\ wpc[w] = "find"
  /\ \E f \in inbox :
       /\ inbox' = inbox \ {f}
       /\ RunNext(w, f)
  /\ UNCHANGED <<ip, dq, waiting, hold, kind, accounts, cont, done, failed, err, started>>

\* The thief takes the oldest continuation.
Steal(w, v) ==
  /\ wpc[w] = "find"
  /\ v # w
  /\ dq[w] = <<>>
  /\ dq[v] # <<>>
  /\ dq' = [dq EXCEPT ![v] = Tail(@)]
  /\ CountTake(Head(dq[v]))
  /\ RunNext(w, Head(dq[v]))
  /\ UNCHANGED <<ip, inbox, waiting, hold, kind, credits, armed, cont, done, failed, err, started>>

--------------------------------------------------------------------------------
(* A frame at work *)

At(w, op) == wpc[w] = "run" /\ ip[cur[w]] <= Len(Prog[cur[w]]) /\ Prog[cur[w]][ip[cur[w]]] = op

Step(f) == ip' = [ip EXCEPT ![f] = @ + 1]

\* fork: the continuation is published, or the child keeps it; the child runs.
Fork(w, c) ==
  /\ c \in Frames
  /\ At(w, c)
  /\ kind' = [kind EXCEPT ![cur[w]] = "fork"]
  /\ \/ PushBottom(w, cur[w]) /\ UNCHANGED cont
     \/ Len(dq[w]) = Cap /\ cont' = cont \cup {c} /\ UNCHANGED dq
  /\ Step(cur[w])
  /\ RunNext(w, c)
  /\ started' = started \cup {c}
  /\ UNCHANGED <<inbox, waiting, hold, accounts, done, failed, err>>

\* fork, when the child cannot be made: the parent goes on with the error noted.
ForkFails(w, c) ==
  /\ c \in Frames
  /\ At(w, c)
  /\ Step(cur[w])
  /\ err' = err \cup {cur[w]}
  /\ failed' = failed \cup {c}
  /\ started' = started \cup {c}
  /\ done' = done \cup {c}
  /\ UNCHANGED <<dq, inbox, waiting, wpc, cur, hold, kind, accounts, cont>>

\* The frame suspends; whatever it waits for submits it to the inbox.
Wait(w) ==
  /\ At(w, "wait")
  /\ Step(cur[w])
  /\ waiting' = waiting \cup {cur[w]}
  /\ RunNext(w, Null)
  /\ UNCHANGED <<dq, inbox, hold, kind, accounts, cont, done, failed, err, started>>

Submit(f) ==
  /\ f \in waiting
  /\ waiting' = waiting \ {f}
  /\ inbox' = inbox \cup {f}
  /\ UNCHANGED <<ip, dq, wpc, cur, hold, kind, accounts, cont, done, failed, err, started>>

\* Mutated form: the frame is rescheduled with the mark of its last fork.
YieldMarked(w) ==
  /\ At(w, "yield")
  /\ Step(cur[w])
  /\ IF Len(dq[w]) < Cap
     THEN PushBottom(w, cur[w]) /\ RunNext(w, Null)
     ELSE UNCHANGED <<dq, cur, wpc>>
  /\ UNCHANGED <<inbox, waiting, hold, kind, accounts, cont, done, failed, err, started>>

\* reschedule(): back onto the worker's own deque if there is room.
Yield(w) ==
  /\ At(w, "yield")
  /\ Step(cur[w])
  /\ kind' = [kind EXCEPT ![cur[w]] = "plain"]
  /\ IF Len(dq[w]) < Cap
     THEN PushBottom(w, cur[w]) /\ RunNext(w, Null)
     ELSE UNCHANGED <<dq, cur, wpc>>
  /\ UNCHANGED <<inbox, waiting, hold, accounts, cont, done, failed, err, started>>

--------------------------------------------------------------------------------
(* join *)

\* Mutated form: the joiner suspends although the credits are there.
JoinSuspendLate(w) ==
  /\ At(w, "join")
  /\ LET f == cur[w] IN
     IF steals[f] = 0
     THEN wpc' = [wpc EXCEPT ![w] = "joined"] /\ UNCHANGED <<accounts, cur>>
     ELSE armed' = [armed EXCEPT ![f] = steals[f]] /\ RunNext(w, Null) /\ UNCHANGED <<steals, credits>>
  /\ UNCHANGED <<ip, dq, inbox, waiting, hold, kind, cont, done, failed, err, started>>

\* __join_suspend: nothing was stolen, or the credits are all there, or the
\* frame waits for them with the joiner bit set.  The steals are few: the trap on
\* more than the 32767 that the packed word can count is left out.
JoinSuspend(w) ==
  /\ At(w, "join")
  /\ LET f == cur[w] IN
     \/ /\ steals[f] = credits[f] \/ steals[f] = 0
        /\ wpc' = [wpc EXCEPT ![w] = "joined"]
        /\ UNCHANGED <<accounts, cur>>
     \/ /\ steals[f] # credits[f] /\ steals[f] # 0
        /\ armed' = [armed EXCEPT ![f] = steals[f]]
        /\ RunNext(w, Null)
        /\ UNCHANGED <<steals, credits>>
  /\ UNCHANGED <<ip, dq, inbox, waiting, hold, kind, cont, done, failed, err, started>>

\* await_resume(): the counts start again, the children's frames are destroyed,
\* and the error of a child is raised, which here ends the frame.
JoinResume(w) ==
  /\ wpc[w] = "joined"
  /\ LET f == cur[w] IN
       /\ credits' = [credits EXCEPT ![f] = 0]
       /\ steals' = [steals EXCEPT ![f] = 0]
       /\ armed' = [armed EXCEPT ![f] = Null]
       /\ err' = err \ {f}
       /\ ip' = [ip EXCEPT ![f] = IF f \in err THEN Len(Prog[f]) + 1 ELSE @ + 1]
       /\ failed' = IF f \in err THEN failed \cup {f} ELSE failed
  /\ wpc' = [wpc EXCEPT ![w] = "run"]
  /\ UNCHANGED <<dq, inbox, waiting, cur, hold, kind, cont, done, started>>

--------------------------------------------------------------------------------
(* The end of a frame *)

\* __on_final: an error goes to the parent, and then the child goes on with the
\* parent's continuation if it holds it, or completes.
Final(w) ==
  /\ wpc[w] = "run"
  /\ ip[cur[w]] > Len(Prog[cur[w]])
  /\ LET f == cur[w] IN
       /\ \/ failed' = failed
          \/ failed' = failed \cup {f}
       /\ err' = IF f # Root /\ f \in failed' THEN err \cup {Parent[f]} ELSE err
       /\ \/ /\ f = Root
             /\ done' = done \cup {f}
             /\ RunNext(w, Null)
             /\ UNCHANGED cont
          \/ /\ f \in cont
             /\ done' = done \cup {f}
             /\ cont' = cont \ {f}
             /\ RunNext(w, Parent[f])
          \/ /\ f # Root /\ f \notin cont
             /\ wpc' = [wpc EXCEPT ![w] = "complete"]
             /\ UNCHANGED <<done, cont, cur>>
  /\ UNCHANGED <<ip, dq, inbox, waiting, hold, kind, accounts, started>>

\* __child_complete: the worker's own deque is popped.  The parent's
\* continuation at the bottom, published by a fork, is what the child goes on with.
CompletePop(w) ==
  /\ wpc[w] = "complete"
  /\ LET p == Parent[cur[w]] IN
     IF Bottom(w) = p /\ kind[p] = "fork"
     THEN /\ PopBottom(w)
          /\ done' = done \cup {cur[w]}
          /\ RunNext(w, p)
          /\ UNCHANGED hold
     ELSE /\ IF dq[w] = <<>> THEN UNCHANGED dq ELSE PopBottom(w)
          /\ hold' = [hold EXCEPT ![w] = Bottom(w)]
          /\ wpc' = [wpc EXCEPT ![w] = "credit"]
          /\ UNCHANGED <<done, cur>>
  /\ UNCHANGED <<ip, inbox, waiting, kind, accounts, cont, failed, err, started>>

\* Otherwise the parent gets a credit, and is resumed by whoever gives the last
\* one it waits for.  A continuation that was popped goes on, or back.
CompleteCredit(w) ==
  /\ wpc[w] = "credit"
  /\ LET p == Parent[cur[w]]
         ready == armed[p] = credits[p] + 1
         c == hold[w]
     IN /\ credits' = [credits EXCEPT ![p] = @ + 1]
        /\ done' = done \cup {cur[w]}
        /\ IF c \notin {Null, p}
           THEN CountTake(c) /\ kind' = IF ready THEN [kind EXCEPT ![c] = "plain"] ELSE kind
           ELSE UNCHANGED <<steals, kind>>
        /\ \/ /\ ready
              /\ cur' = [cur EXCEPT ![w] = p]
              /\ wpc' = [wpc EXCEPT ![w] = IF c = Null THEN "joined" ELSE "requeue"]
              /\ UNCHANGED hold
           \/ /\ ~ready
              /\ RunNext(w, c)
              /\ hold' = [hold EXCEPT ![w] = Null]
  /\ UNCHANGED <<ip, dq, inbox, waiting, armed, cont, failed, err, started>>

\* The other continuation goes back.  It has just been popped, so there is room
\* for it, and the list for frames that find none stays empty.
Requeue(w) ==
  /\ wpc[w] = "requeue"
  /\ PushBottom(w, hold[w])
  /\ hold' = [hold EXCEPT ![w] = Null]
  /\ wpc' = [wpc EXCEPT ![w] = "joined"]
  /\ UNCHANGED <<ip, inbox, waiting, cur, kind, accounts, cont, done, failed, err, started>>

--------------------------------------------------------------------------------
Find(w) == FindOwn(w) \/ FindInbox(w) \/ \E v \in Workers : Steal(w, v)

Work(w) ==
  \/ \E c \in Frames : Fork(w, c) \/ ForkFails(w, c)
  \/ Wait(w) \/ Yield(w) \/ JoinSuspend(w) \/ JoinResume(w)
  \/ Final(w) \/ CompletePop(w) \/ CompleteCredit(w) \/ Requeue(w)

Next ==
  \/ \E w \in Workers : Find(w) \/ Work(w)
  \/ \E f \in Frames : Submit(f)

Spec == Init /\ [][Next]_vars

--------------------------------------------------------------------------------
(* Properties. *)

TypeOK ==
  /\ ip \in [Frames -> Nat]
  /\ dq \in [Workers -> Seq(Frames)]
  /\ inbox \subseteq Frames /\ waiting \subseteq Frames
  /\ wpc \in [Workers -> {"find", "run", "joined", "complete", "credit", "requeue"}]
  /\ cur \in [Workers -> Frames \cup {Null}]
  /\ hold \in [Workers -> Frames \cup {Null}]
  /\ kind \in [Frames -> {"plain", "fork"}]
  /\ steals \in [Frames -> Nat] /\ credits \in [Frames -> Nat]
  /\ armed \in [Frames -> Nat \cup {Null}]
  /\ cont \subseteq Frames /\ started \subseteq Frames /\ done \subseteq Frames
  /\ failed \subseteq Frames /\ err \subseteq Frames

Forked(p) == {c \in started \ {Root} : Parent[c] = p}

Times(s, f) == Cardinality({i \in DOMAIN s : s[i] = f})

\* How often a frame is to be found: on a deque, in the inbox, waiting,
\* at a worker, popped, at its join, or with the child it waits for inline.
Found(f) ==
  LET on(S) == Cardinality({x \in S : f = x})
      at(g) == Cardinality({w \in Workers : g[w] = f})
      listed(g) == LET n == {w \in Workers : Times(g[w], f) > 0} IN Cardinality(n)
  IN listed(dq) + on(inbox) + on(waiting) + at(cur) + at(hold)
       + (IF armed[f] # Null /\ ~\E w \in Workers : cur[w] = f THEN 1 ELSE 0)
       + Cardinality({c \in cont : Parent[c] = f})

\* A frame that was started and has not ended is in exactly one place, so that it
\* is neither lost nor run by two workers; and a frame that has ended is nowhere.
FramesInOnePlace ==
  \A f \in Frames : Found(f) = IF f \in started \ done THEN 1 ELSE 0

\* The children of a frame that have not ended are as many as the continuation on
\* a deque, the steals without a credit and the child that goes on inline.
JoinsBalance ==
  \A p \in Frames :
    LET onDeque == \E w \in Workers : (Times(dq[w], p) > 0 \/ hold[w] = p) /\ kind[p] = "fork"
        resumed == \E w \in Workers : cur[w] = p /\ wpc[w] \in {"joined", "requeue"}
    IN ~resumed =>
         Cardinality(Forked(p) \ done)
           = (IF onDeque THEN 1 ELSE 0) + steals[p] - credits[p]
             + Cardinality({c \in cont : Parent[c] = p})

\* A frame goes on behind join only when all its children have ended: their frames
\* are destroyed there.
JoinWaitsForAll ==
  \A w \in Workers : wpc[w] \in {"joined", "requeue"} => Forked(cur[w]) \subseteq done

\* The error of a child is never lost: it is with the parent or on its way there.
ErrorsSurface ==
  \A f \in (failed \cap done) \ {Root} :
    Parent[f] \in err \cup failed

Pending == Root \notin done
================================================================================
