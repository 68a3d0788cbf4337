----------------------------- MODULE AsyncSemaphore ----------------------------
(***************************************************************************)
(* tasks/async_sync.hpp: async_semaphore, as the operations the channels    *)
(* call.  A negative count is the number of awaiters that are on the list   *)
(* or on the way to it; a post that finds one waits for it to be listed.    *)
(*                                                                          *)
(* A task works on one semaphore at a time.  It comes to "acquire", "try"   *)
(* or "post" from its caller and goes back to ret[t]; the spinlock makes    *)
(* each list operation one step.                                            *)
(***************************************************************************)
EXTENDS Integers, Sequences, FiniteSets

CONSTANTS Tasks, Sems,
  Flood           \* permits abort() leaves behind (256 in the code)

VARIABLES
  count, aborted, list,     \* of each semaphore
  pc, ret,
  got,                      \* __has_permit of the task's awaiter
  hand,                     \* permits try_acquire_many() asks for, and then has
  posts                     \* permits a post still has to give

semVars == <<count, aborted, list>>
taskVars == <<pc, ret, got, hand, posts>>

Goto(t, l) == pc' = [pc EXCEPT ![t] = l]

SemInit(initial) ==
  /\ count = initial
  /\ aborted = [q \in Sems |-> FALSE]
  /\ list = [q \in Sems |-> <<>>]
  /\ pc = [t \in Tasks |-> "idle"]
  /\ ret = [t \in Tasks |-> "idle"]
  /\ got = [t \in Tasks |-> FALSE]
  /\ hand = [t \in Tasks |-> 0]
  /\ posts = [t \in Tasks |-> 0]

--------------------------------------------------------------------------------
(* co_await acquire() *)

\* await_ready(): an aborted semaphore lets through without a permit.
AcquireAborted(t, q) ==
  /\ pc[t] = "acquire"
  /\ IF aborted[q]
     THEN Goto(t, ret[t]) /\ got' = [got EXCEPT ![t] = FALSE]
     ELSE Goto(t, "take") /\ UNCHANGED got
  /\ UNCHANGED <<semVars, ret, hand, posts>>

\* await_ready(): the fetch_sub.
Take(t, q) ==
  /\ pc[t] = "take"
  /\ count' = [count EXCEPT ![q] = @ - 1]
  /\ IF count[q] > 0
     THEN Goto(t, ret[t]) /\ got' = [got EXCEPT ![t] = TRUE]
     ELSE Goto(t, "suspend") /\ UNCHANGED got
  /\ UNCHANGED <<aborted, list, ret, hand, posts>>

Suspend(t, q) ==
  /\ pc[t] = "suspend"
  /\ list' = [list EXCEPT ![q] = <<t>> \o @]
  /\ Goto(t, "parked")
  /\ UNCHANGED <<count, aborted, ret, got, hand, posts>>

--------------------------------------------------------------------------------
(* try_acquire_many(), and try_acquire() as the call for one permit *)

TryAborted(t, q) ==
  /\ pc[t] = "try"
  /\ IF aborted[q]
     THEN Goto(t, ret[t]) /\ hand' = [hand EXCEPT ![t] = 0]
     ELSE Goto(t, "trytake") /\ UNCHANGED hand
  /\ UNCHANGED <<semVars, ret, got, posts>>

\* Mutated form: all that is asked for is taken if there is any.
TryTakeAll(t, q) ==
  /\ pc[t] = "trytake"
  /\ LET n == IF count[q] <= 0 THEN 0 ELSE hand[t] IN
       /\ count' = [count EXCEPT ![q] = @ - n]
       /\ hand' = [hand EXCEPT ![t] = n]
  /\ Goto(t, ret[t])
  /\ UNCHANGED <<aborted, list, ret, got, posts>>

\* The load and the compare-exchange, which succeeds on an unchanged count.
TryTake(t, q) ==
  /\ pc[t] = "trytake"
  /\ LET n == IF count[q] <= 0 THEN 0 ELSE IF count[q] < hand[t] THEN count[q] ELSE hand[t] IN
       /\ count' = [count EXCEPT ![q] = @ - n]
       /\ hand' = [hand EXCEPT ![t] = n]
  /\ Goto(t, ret[t])
  /\ UNCHANGED <<aborted, list, ret, got, posts>>

--------------------------------------------------------------------------------
(* release(n) and abort(), which post with and without a permit *)

\* Behind one unit of the post.
Posted(t) == IF posts[t] = 1 THEN ret[t] ELSE "post"

\* Mutated form: an awaiter that is not yet listed is not waited for.
PostAddHasty(t, q) ==
  /\ pc[t] = "post"
  /\ count' = [count EXCEPT ![q] = @ + 1]
  /\ IF count[q] < 0 /\ list[q] # <<>>
     THEN Goto(t, "pop") /\ UNCHANGED posts
     ELSE posts' = [posts EXCEPT ![t] = @ - 1] /\ Goto(t, Posted(t))
  /\ UNCHANGED <<aborted, list, ret, got, hand>>

PostAdd(t, q) ==
  /\ pc[t] = "post"
  /\ count' = [count EXCEPT ![q] = @ + 1]
  /\ IF count[q] < 0
     THEN Goto(t, "pop") /\ UNCHANGED posts
     ELSE posts' = [posts EXCEPT ![t] = @ - 1] /\ Goto(t, Posted(t))
  /\ UNCHANGED <<aborted, list, ret, got, hand>>

PostPop(t, q, withPermit) ==
  /\ pc[t] = "pop"
  /\ list[q] # <<>>
  /\ LET w == Head(list[q]) IN
       /\ list' = [list EXCEPT ![q] = Tail(@)]
       /\ got' = [got EXCEPT ![w] = withPermit]
       /\ pc' = [pc EXCEPT ![t] = Posted(t), ![w] = ret[w]]
  /\ posts' = [posts EXCEPT ![t] = @ - 1]
  /\ UNCHANGED <<count, aborted, ret, hand>>

\* abort(): the store, and then one post after the other while the count is low.
Abort(t, q) ==
  /\ aborted' = [aborted EXCEPT ![q] = TRUE]
  /\ Goto(t, "flood")
  /\ ret' = [ret EXCEPT ![t] = "flood"]
  /\ UNCHANGED <<count, list, got, hand, posts>>

FloodMore(t, q) ==
  /\ pc[t] = "flood"
  /\ count[q] < Flood
  /\ posts' = [posts EXCEPT ![t] = 1]
  /\ Goto(t, "post")
  /\ UNCHANGED <<semVars, ret, got, hand>>

Flooded(t, q) ==
  /\ pc[t] = "flood"
  /\ count[q] >= Flood

SemStep(t, takes, gives, withPermit) ==
  \/ AcquireAborted(t, takes) \/ Take(t, takes) \/ Suspend(t, takes)
  \/ TryAborted(t, takes) \/ TryTake(t, takes)
  \/ PostAdd(t, gives) \/ PostPop(t, gives, withPermit)
  \/ FloodMore(t, gives)

--------------------------------------------------------------------------------
(* Properties. *)

SemPCs == {"idle", "acquire", "take", "suspend", "parked", "try", "trytake", "post", "pop", "flood"}

SemTypeOK(places) ==
  /\ count \in [Sems -> Int]
  /\ aborted \in [Sems -> BOOLEAN]
  /\ list \in [Sems -> Seq(Tasks)]
  /\ pc \in [Tasks -> SemPCs \cup places]
  /\ ret \in [Tasks -> places \cup {"idle", "flood"}]
  /\ got \in [Tasks -> BOOLEAN]
  /\ hand \in [Tasks -> Nat]
  /\ posts \in [Tasks -> Nat]

\* Every parked awaiter is on the list of its semaphore, once.  The awaiters of
\* a semaphore that are listed or on the way to the list are as many as its
\* count is below zero, and the posts that owe one a resumption.
AwaitersCounted(takes(_), gives(_)) ==
  \A q \in Sems :
    LET waiting == {t \in Tasks : pc[t] \in {"suspend", "parked"} /\ takes(t) = q}
        owing == {t \in Tasks : pc[t] = "pop" /\ gives(t) = q}
    IN /\ {list[q][i] : i \in DOMAIN list[q]} = {t \in waiting : pc[t] = "parked"}
       /\ Len(list[q]) = Cardinality({t \in waiting : pc[t] = "parked"})
       /\ Cardinality(waiting)
            = Cardinality(owing) + (IF count[q] < 0 THEN -count[q] ELSE 0)
================================================================================
