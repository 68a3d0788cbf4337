------------------------------ MODULE AsyncChannel -----------------------------
(***************************************************************************)
(* tasks/async_channel.hpp: the bounded channel, a ring between a           *)
(* semaphore of free slots and one of items.  A push claims a slot of the   *)
(* ring and publishes it in a second step; a pop takes the oldest slot once *)
(* it is published.                                                         *)
(*                                                                          *)
(* The single and the bulk operations have the same parts.  A producer      *)
(* takes space permits (push awaits one, post tries, push_bulk tries and    *)
(* then awaits), fills as many slots, and gives as many item permits; a     *)
(* consumer does the same the other way round.  call[t] is the operation,   *)
(* left[t] what a bulk operation has still to move.                         *)
(***************************************************************************)
EXTENDS AsyncSemaphore

CONSTANTS
  Producers, Consumers, Closer,     \* these are the Tasks; Sems is {"space", "items"}
  Cap,
  MaxCalls,       \* calls of each task
  MaxBulk,        \* items of a bulk operation
  CloseRaces      \* may operations that would take permits run while close() does?

VARIABLES
  ring,           \* slots claimed: whose they are, and whether published
  closed, call, left, calls

chanVars == <<ring, closed, call, left, calls>>
vars == <<semVars, taskVars, chanVars>>

Takes(t) == IF t \in Producers THEN "space" ELSE "items"

\* close() aborts the items first and then the space.
Gives(t) ==
  IF t \in Producers THEN "items"
  ELSE IF t \in Consumers THEN "space"
  ELSE IF aborted["space"] THEN "space" ELSE "items"

Init ==
  /\ SemInit([q \in Sems |-> IF q = "space" THEN Cap ELSE 0])
  /\ ring = <<>>
  /\ closed = FALSE
  /\ call = [t \in Tasks |-> "none"]
  /\ left = [t \in Tasks |-> 0]
  /\ calls = [t \in Tasks |-> 0]

Closing == pc[Closer] \notin {"idle", "done"}

--------------------------------------------------------------------------------
(* push(), post(), push_bulk(); pull(), try_pull(), pull_bulk() *)

Call(t, op, n) ==
  /\ pc[t] = "idle"
  /\ t # Closer
  /\ calls[t] < MaxCalls
  /\ Closing => CloseRaces \/ (t \in Producers /\ op = "one")
  /\ op # "bulk" => n = 1
  /\ calls' = [calls EXCEPT ![t] = @ + 1]
  /\ call' = [call EXCEPT ![t] = op]
  /\ left' = [left EXCEPT ![t] = n]
  /\ IF op = "one"
     THEN Goto(t, "acquire") /\ ret' = [ret EXCEPT ![t] = "awaited"]
     ELSE Goto(t, "look") /\ UNCHANGED ret
  /\ UNCHANGED <<semVars, got, hand, posts, ring, closed>>

Return(t) ==
  /\ Goto(t, "idle")
  /\ call' = [call EXCEPT ![t] = "none"]
  /\ left' = [left EXCEPT ![t] = 0]

\* post() and push_bulk() give up on a closed channel; then, and in try_pull()
\* and pull_bulk() at once, comes the attempt on what is left.
Look(t) ==
  /\ pc[t] = "look"
  /\ \/ /\ t \in Producers /\ closed
        /\ Return(t)
        /\ UNCHANGED <<ret, hand>>
     \/ /\ t \in Consumers \/ ~closed
        /\ Goto(t, "try")
        /\ ret' = [ret EXCEPT ![t] = "tried"]
        /\ hand' = [hand EXCEPT ![t] = left[t]]
        /\ UNCHANGED <<call, left>>
  /\ UNCHANGED <<semVars, got, posts, ring, closed, calls>>

\* Behind the attempt: move as many as there are permits; without one a bulk
\* operation awaits one, post() fails, and try_pull() looks at __closed.
Tried(t) ==
  /\ pc[t] = "tried"
  /\ \/ /\ hand[t] > 0
        /\ Goto(t, "move")
        /\ UNCHANGED <<ret, call, left>>
     \/ /\ hand[t] = 0 /\ call[t] = "bulk"
        /\ Goto(t, "acquire")
        /\ ret' = [ret EXCEPT ![t] = "awaited"]
        /\ UNCHANGED <<call, left>>
     \/ /\ hand[t] = 0 /\ call[t] = "try"
        /\ IF t \in Consumers /\ closed
           THEN Goto(t, "scrape") /\ UNCHANGED <<call, left>>
           ELSE Return(t)
        /\ UNCHANGED ret
  /\ UNCHANGED <<semVars, got, hand, posts, ring, closed, calls>>

\* Behind co_await acquire(): a producer goes on unless the channel is closed,
\* a consumer moves an item if it has a permit.
Awaited(t) ==
  /\ pc[t] = "awaited"
  /\ got' = [got EXCEPT ![t] = FALSE]
  /\ \/ /\ t \in Producers /\ closed
        /\ Return(t)
        /\ UNCHANGED hand
     \/ /\ IF t \in Producers THEN ~closed ELSE got[t]
        /\ hand' = [hand EXCEPT ![t] = 1]
        /\ Goto(t, "move")
        /\ UNCHANGED <<call, left>>
     \/ /\ t \in Consumers /\ ~got[t]
        /\ Goto(t, "scrape")
        /\ UNCHANGED <<hand, call, left>>
  /\ UNCHANGED <<semVars, ret, posts, ring, closed, calls>>

\* A producer's ring.push(): the slot is claimed, and then published.
Claim(t) ==
  /\ pc[t] = "move"
  /\ t \in Producers
  /\ Len(ring) < Cap
  /\ ring' = Append(ring, [by |-> t, ready |-> FALSE])
  /\ Goto(t, "publish")
  /\ UNCHANGED <<semVars, ret, got, hand, posts, closed, call, left, calls>>

\* One item is moved.  Behind the last one release() gives the other side as many
\* permits; then a bulk operation goes round again until nothing is left.
Moved(t) ==
  /\ posts' = [posts EXCEPT ![t] = @ + 1]
  /\ IF hand[t] > 1
     THEN Goto(t, "move") /\ UNCHANGED ret
     ELSE Goto(t, "post") /\ ret' = [ret EXCEPT ![t] = IF left[t] > 1 THEN "look" ELSE "idle"]
  /\ left' = [left EXCEPT ![t] = @ - 1]
  /\ call' = [call EXCEPT ![t] = IF left[t] > 1 THEN @ ELSE "none"]

Publish(t) ==
  /\ pc[t] = "publish"
  /\ ring' = [i \in DOMAIN ring |-> IF ring[i].by = t THEN [ring[i] EXCEPT !.ready = TRUE] ELSE ring[i]]
  /\ hand' = [hand EXCEPT ![t] = @ - 1]
  /\ Moved(t)
  /\ UNCHANGED <<semVars, got, closed, calls>>

OldestReady == Len(ring) > 0 /\ ring[1].ready

\* A consumer's ring.pop(), which it repeats until it succeeds.
Pop(t) ==
  /\ pc[t] = "move"
  /\ t \in Consumers
  /\ OldestReady
  /\ ring' = Tail(ring)
  /\ hand' = [hand EXCEPT ![t] = @ - 1]
  /\ Moved(t)
  /\ UNCHANGED <<semVars, got, closed, calls>>

\* The pop of a consumer without a permit on a closed channel: the call ends if
\* there is nothing.
Scrape(t) ==
  /\ pc[t] = "scrape"
  /\ \/ OldestReady /\ ring' = Tail(ring) /\ Moved(t)
     \/ ~OldestReady /\ Return(t) /\ UNCHANGED <<ring, posts, ret>>
  /\ UNCHANGED <<semVars, got, hand, closed, calls>>

--------------------------------------------------------------------------------
(* close() *)

\* Operations that close() may meet wherever it happens: the ones that are
\* suspended, consumers with only permits left to give, and a push() that has
\* not looked at __closed yet.
Harmless(t) ==
  \/ pc[t] \in {"idle", "parked"}
  \/ t \in Consumers /\ pc[t] \in {"post", "pop"} /\ ret[t] = "idle"
  \/ t \in Producers /\ call[t] = "one" /\ pc[t] \in {"acquire", "take", "suspend", "awaited"}

Close ==
  /\ pc[Closer] = "idle"
  /\ CloseRaces \/ \A t \in Tasks : Harmless(t)
  /\ closed' = TRUE
  /\ Goto(Closer, "abort")
  /\ UNCHANGED <<semVars, ret, got, hand, posts, ring, call, left, calls>>

CloseItems ==
  /\ pc[Closer] = "abort"
  /\ Abort(Closer, "items")
  /\ UNCHANGED chanVars

CloseSpace ==
  /\ ~aborted["space"]
  /\ Flooded(Closer, "items")
  /\ Abort(Closer, "space")
  /\ UNCHANGED chanVars

CloseDone ==
  /\ aborted["space"]
  /\ Flooded(Closer, "space")
  /\ Goto(Closer, "done")
  /\ UNCHANGED <<semVars, ret, got, hand, posts, chanVars>>

--------------------------------------------------------------------------------
Running(t) ==
  \/ SemStep(t, Takes(t), Gives(t), t # Closer) /\ UNCHANGED chanVars
  \/ Look(t) \/ Tried(t) \/ Awaited(t)
  \/ Claim(t) \/ Publish(t) \/ Pop(t) \/ Scrape(t)

Closes == Close \/ CloseItems \/ CloseSpace \/ CloseDone

Calls == \E t \in Tasks, op \in {"one", "try", "bulk"}, n \in 1 .. MaxBulk : Call(t, op, n)

Next == Calls \/ Closes \/ \E t \in Tasks : Running(t)

Spec == Init /\ [][Next]_vars

--------------------------------------------------------------------------------
(* Properties. *)

Places == {"look", "awaited", "tried", "move", "publish", "scrape", "abort", "done"}

TypeOK ==
  /\ SemTypeOK(Places)
  /\ ring \in Seq([by : Producers, ready : BOOLEAN])
  /\ Len(ring) <= Cap
  /\ closed \in BOOLEAN
  /\ call \in [Tasks -> {"none", "one", "try", "bulk"}]
  /\ left \in [Tasks -> 0 .. MaxBulk]
  /\ calls \in [Tasks -> 0 .. MaxCalls]

NobodyStranded == AwaitersCounted(Takes, Gives)

\* The sum of f[t] over a set of tasks.
Total(f, S) ==
  LET sum[R \in SUBSET S] == IF R = {} THEN 0 ELSE LET t == CHOOSE t \in R : TRUE IN f[t] + sum[R \ {t}]
  IN sum[S]

\* Permits a task has taken and not yet used: in hand, or in
\* its awaiter unless it is going to give up on a closed channel.
Held(t) ==
  IF pc[t] = "awaited" /\ got[t] /\ (t \in Producers => ~closed) THEN 1
  ELSE IF pc[t] \in {"tried", "move", "publish"} THEN hand[t] ELSE 0

\* "permit held -> an item is guaranteed (may be mid-publish)": the consumers'
\* permits are never more than the items in the ring, and the producers' never
\* more than its free slots, so that no pop() and no push() spins for ever.
PermitHasItem ==
  LET holding(S) == Total([t \in S |-> Held(t)], S) IN
  /\ holding(Consumers) <= Len(ring)
  /\ holding(Producers) <= Cap - Len(ring) + Cardinality({t \in Producers : pc[t] = "publish"})

\* Until close() every slot is accounted for: it is free and counted, held by a
\* producer, in the ring, or moved and about to be counted again; and so for
\* the items.
Balanced ==
  LET holding(S) == Total([t \in S |-> Held(t)], S)
      owed(S) == Total([t \in S |-> posts[t]], S)
      popping(S) == Cardinality({t \in S : pc[t] = "pop"})
      claimed == Cardinality({t \in Producers : pc[t] = "publish"})
  IN ~closed =>
       LET free == count["space"] + Cardinality({t \in Producers : pc[t] \in {"suspend", "parked"}})
           full == count["items"] + Cardinality({t \in Consumers : pc[t] \in {"suspend", "parked"}})
       IN /\ free - popping(Consumers) + holding(Producers) - claimed + Len(ring) + owed(Consumers) = Cap
          /\ full - popping(Producers) + holding(Consumers) + claimed + owed(Producers) = Len(ring)

\* Somebody is still busy with a channel that is closed.
Pending == closed /\ \E t \in Tasks : pc[t] \notin {"idle", "done"}
================================================================================
