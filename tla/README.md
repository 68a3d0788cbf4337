# micron: verification of the concurrency layer

micron is a header-only C++23 replacement of libc and the standard library on
Linux system calls.  Most of its 381 000 lines are containers, strings, maths,
SIMD and system-call wrappers.  What is hard to get right and hard to test is
its concurrency layer, and this project models that layer: the locks of
`mutex/`, the futex-based primitives of `sync/`, the lock-free queues of
`queue/`, and the coroutine runtime of `tasks/` that is built from them.

## Inventory

| part | state | operations | what makes it hard |
|---|---|---|---|
| adaptive mutex, `mutex/locks/futex_mutex.hpp` | one word free/held/contended, kernel wait queue | `operator()`, `try_lock`, `try_lock_until/for`, `unlock` | barging, wake only on contended, timeout racing a wake |
| ticket lock, `mutex/locks/ticket_lock.hpp` | `__next`, `__serving` (u32) | `operator()`, `try_lock`, `unlock` | wraparound, `try_lock` reads two words |
| MCS, `mutex/mutex.hpp` (`queuing_mutex`), `mutex/locks/mcs_lock.hpp` | tail, per-thread nodes, slots idle/busy/releasing | lock, try, unlock from any thread | the window between tail swap and link, node reuse |
| CLH, `mutex/locks/clh_lock.hpp` | tail, node arena, hint | `__take`, `__give`, lock, try, unlock | node recycling, ABA of the tail, arena exhaustion |
| TTAS and spin locks, recursive lock | one word, owner, depth | lock, try, unlock | little: one word |
| reader/writer lock, `mutex/locks/shared_mutex.hpp` | writer bit and reader count, queued writers | lock, lock_shared, try, unlock | lost wake, writer preference, upgrade |
| seqlock, `mutex/locks/seqlock.hpp` | sequence, payload | load, try_load, store | torn reads, wraparound |
| call-once, lock sets, `mutex/locks/once.hpp`, `mutex/locks.hpp` | gate; several locks | run; lock all with back-off | throwing initialiser; deadlock |
| semaphore, `sync/semaphore.hpp` | signed counter, wake tokens | wait, try_wait, flag, reset, abort | permits and sleepers counted in two words |
| event count, latch, barrier, `sync/` | epoch and waiters; count; generation | prepare/commit/notify; arrive | notification between check and sleep |
| work-stealing deque, `queue/chase_lev.hpp` | bottom, top, ring (growable) | push, pop, steal, grow | last element, stale top, growing under thieves |
| bounded MPMC ring, `queue/crossbeam.hpp`, `queue/static_mpmc.hpp`, allocator's `mpsc_free.hpp` | head, tail, per-cell sequence | push, pop | reuse of a cell one lap later |
| SPSC ring, disruptor | head, tail, cached counterparts | push, pop, batches | stale cached index |
| coroutine primitives, `tasks/async_*.hpp` | waiter lists, counters | lock, acquire, release, notify, abort | suspension racing resumption |
| channels, `tasks/*_channel.hpp` | ring and two semaphores, closed flag | push, pull, post, try_pull, close | close racing everything |
| fork/join and scheduler, `tasks/coro_core.hpp`, `tasks/coroutine/cl_sched.hpp` | deques, inbox, park words, join words | fork, join, steal, park, submit, stop | stolen continuations, Dekker parking, shutdown |
| futures, `sync/futex_future.hpp`, `when_any` | ready word, waiter slot, references | set, get, arm, abandon | set racing arm, several winners |

`PROJECT.json` lists every part, modelled or not, with the files that implement
it.  The map names about 2 300 lines of code: a third of the files of the
modelled parts, and about half a per cent of the whole library.  The rest of the
library is not of a kind that a state machine says anything about (see "Not
modelled"), so that share will stay small however much of the concurrency layer
is added.

## How the parts interact

The kernel's futex is under everything that sleeps: the adaptive mutex, the
reader/writer mutex, the semaphore, the latch and the event count, which in
turn carries the barrier.  The spinning queue locks stand alone.  The allocator
returns blocks freed by other threads through the one-consumer ring.

Coroutines wait at primitives of their own, which never block a thread: they link
a node into a list and suspend, and whoever releases takes the node and submits
the frame to the scheduler.  A channel is a ring between two such semaphores.
The scheduler moves frames through one work-stealing deque per worker and an
inbox; workers without work sleep on a futex.  A coroutine that sleeps is on the
list of one timer thread, which submits it when its time has come.  Fork and join run on the deques:
a parent's continuation is published and the child runs at once.  Futures join
the two worlds: a promise kept by any thread resumes a coroutine.

## What a model keeps

Each atomic operation, each futex call and each access to a slot another thread
may use is an action of its own; what a thread does between two of them touches
nothing shared and belongs to the next.  A thread's `pc` names the operation it
is about to perform.  Weak exchanges may fail for no reason, futex waits may
return for no reason, timeouts may fire at any moment.  A local or a field that
nobody will read before it is stored again may be forgotten (`consumed` of
`ClhLock`).

- *Memory order.*  Operations interleave as if sequentially consistent.  The
  models say nothing about an ordering that is too weak for the hardware.
- *Width.*  Counters that wrap in use (tickets, epochs, generations, reader
  counts) have a small width and wrap.  The 64-bit indices of queues do not.
- *Payload.*  An item is a number, a critical section a place.
- *Misuse.*  Threads call in the order the interface asks for, except in
  `StraySpec`, where `unlock_shared` is called once too often as a test does.  A
  future whose place holds the token of an earlier `when_any` may be in another
  `when_any`, but is not awaited alone: that would call the function of one await
  with the token of another.

## Modules

| module | models | state and actions |
|---|---|---|
| `MutexSpec` | promise of a lock | who is inside |
| `FutexMutex` | `futex_mutex.hpp` | word free/held/contended and the sleepers; lock, timed lock, try, unlock with its separate wake |
| `RWLockSpec` | promise of a reader/writer lock | readers and writers inside |
| `SharedMutex` | `shared_mutex.hpp` | `__s` as `s`, `__ww` as `ww`, the value each thread loaded |
| `FifoLockSpec` | promise of a first-come lock | the queue of arrivals |
| `TicketLock`, `McsLock`, `ClhLock` | the queue locks | counters; linked slots; recycled nodes |
| `Semaphore` | `semaphore.hpp` | counter, tokens, flag in three steps, abort |
| `EventCount` | `event_count.hpp` | epoch and waiters |
| `EventQueue`, `Barrier` | users of `EventCount` | a condition guarded by it; the packed word of `latch.hpp` |
| `Latch` | `latch.hpp` | the count and who sleeps on which value |
| `QueueSpec`, `DequeSpec` | promises of the queues | the items, what each consumer was given |
| `MpmcRing` | `crossbeam.hpp`, `static_mpmc.hpp`, `mpsc_free.hpp` | head, tail, a tag per cell; `single` selects the allocator's form |
| `SpscRing` | `spsc_queue.hpp`, `disruptor.hpp` | head, tail, the copies each side keeps; `caches` selects whether the consumer keeps one |
| `ChaseLev` | `chase_lev.hpp` | bottom, top, the rings made so far; `grows` selects the growing form |
| `Seqlock` | `seqlock.hpp` | sequence, writer flag, the payload word by word; load, try_load, store |
| `DoOnce` | `once.hpp` | the gate; run, wait, throw, run again |
| `LockSet` | `locks.hpp` | the locks of `lock_all`; block on one, try the rest, give back |
| `RecursiveLock` | `recursive_lock.hpp` | owner and depth |
| `WaiterList` | `waiter_list.hpp` | the list of suspended coroutines: push unless closed, take all, resume one by one |
| `AsyncLatch` | `async_latch.hpp`, `fork_group.hpp` | count and `WaiterList` |
| `AsyncBarrier` | `async_barrier.hpp` | count, generation, `WaiterList` |
| `ManualResetEvent` | `async_sync.hpp` | one word: unset, set, or the waiters |
| `AsyncMutex` | `async_sync.hpp`, `async_condvar.hpp` | one word; the reversed list its holder keeps; the condition variable on top |
| `AsyncRwlock` | `async_rwlock.hpp` | counts and two lists under a spinlock; a word per node for suspension and grant |
| `AsyncSemaphore` | `async_sync.hpp` | signed count, list under a spinlock, abort |
| `AsyncChannel` | `async_channel.hpp` | two `AsyncSemaphore`s around the items; push, post, pull, bulk pulls, close |
| `ForkJoin` | `fork_join.hpp`, `coro_core.hpp`, `task.hpp` | deques, inbox, steals and credits, errors |
| `Parking` | `cl_sched.hpp`, `coro_core.hpp` | sleeper mask, epochs, submission, the stop that looks at one worker after the other |
| `WhenAny` | `futex_future.hpp`, `cl_sched.hpp` | ready word, place for a waiter, the shared state of `when_any` and its references |
| `Timers` | `cl_sched.hpp` | list of sleepers, epoch, pending count, the timer thread's loop, what each worker is at, the stop that waits for timers or cuts them off |
| `Queues` | the three queues side by side | `kind` chooses one |
| `MC*` | | instances for TLC |
| `*_proofs` | | theorems and their proofs |

`MCFifoLocks`, `MCWaiting`, `Queues` and `MCCoroutines` check several components side by
side: the initial state chooses one, whose actions alone are then enabled; the
other variables keep a fixed value.  Definitions named "Mutated form" are
plausible mistakes; each property is shown to fail when one replaces the action
it is written after.

## Runs

| run | instance | distinct states | shows |
|---|---|---|---|
| `futex_mutex` | 4 threads | 81 000 | exclusion, no sleeper forgotten, `MutexSpec` implemented, a lone waiter is served |
| `shared_mutex` | 2 readers, 2 writers, word of 3 bits | 182 000 | the word exact, no sleep without a reason, `RWLockSpec`, writers not starved |
| `shared_mutex_stray` | 2 readers, 1 writer, 1 stray call | | violated, see Findings |
| `clh_lock` | 3 threads on an arena for 2, weak exchanges in `try_lock` | 868 000 | nodes accounted for, chain and queue agree, first come first served |
| `clh_lock_fit` | 3 threads on an arena for 3, no spurious failures | | violated, see Findings |
| `fifo_locks` | 3 threads (CLH: 2, weak exchanges everywhere), tickets of 3 bits starting at 6 | 179 000 | the three queue locks implement `FifoLockSpec` and serve everyone |
| `waiting_primitives` | 3 threads; 2 workers, 2 jobs, the stop | 251 000 | books balance, no lost wake-up, nobody passes without what the call promises, every waiter returns |
| `queues` | 2+2 threads, 2 cells; 1+1 threads, 4 cells, batches to 3; deque: 1 owner, 2 thieves, 2 slots, 5 items | 798 000 | both rings implement `QueueSpec`, refuse only with a reason; `DequeSpec` implemented with a fixed and a growing ring |
| `ring_of_one` | capacity 1 | | violated, see Findings |
| `coroutines` | 3 or 4 tasks; 2 workers, 6 frames; 2 futures, 2 rounds; 2 sleepers on 2 workers, with and without the stop | 236 000 | nobody stranded, counts and references add up, awaits keep their promise, `RWLockSpec` implemented, everyone resumed |
| `channel_close` | 1 producer, 1 consumer, 1 closer | | violated, see Findings |
| `timer_stop` | 1 sleeper, the timer thread, the stop | | violated, see Findings |

*What the shared properties say.*  A run over several components checks one
property per question, defined part by part in its MC module; the comment there
and in the component's module say what it means for each.

*Bounds.*  Three threads let one overtake another while a third is between two
steps.  Counters start next to their wrap.  Rings are small enough to be lapped,
and five items make the deque grow twice from two slots.  Pushes, rounds, flags,
stores and tickets overtaken are bounded by named constants, guards of the
actions.  Where the model has a smaller number than the code: `abort()` of a
channel's semaphore fills it up to 2 permits (`Flood`) instead of 256, as many as
there are consumers; the stop looks once (`Scans`) instead of four times, for the
reason given below; generations and epochs have one to four bits.  The epoch of the
barrier wraps; that of the producer and its consumers does not, since a waiter that
sleeps through a whole round of it is lost (the code leaves 2^32).
A reader of the seqlock is overtaken by fewer stores than bring the sequence
round (`Overtakes`; the code leaves 2^31).  A deque of fork/join holds two
continuations, so that one of three nested forks finds it full.
Deadlock is checked except in `waiting_primitives` and `coroutines`, where a
semaphore without permits, a finished barrier or a runtime that has stopped
really stops, and in `channel_close` and `timer_stop`.

*The stop.*  `stop_coroutine_runtime` reads the pending timers, the inbox and the
workers one after the other, and takes four quiet looks in a row for silence.  Work
that moves during each of the looks deceives it: a frame handed to a worker that was
already looked at, or a coroutine that sleeps and wakes again behind the look at the
timers.  Neither the number of looks nor anything else in the code excludes that, so
"the runtime stops empty" is false without a condition, and the models do not claim
it.  `StopsEmpty` and `StopsWithoutSleepers` are what the code does give: one look
during which nothing changed hands (`calm`) is enough.  With `Scans = 1` the first
hand-over already deceives the stop, so that runtimes that stop too early are inside
the bounds; more looks only make the same behaviours longer.  Without the condition
TLC refutes both, also for one coroutine that sleeps four times against the four
looks of the code, although `t_timer_teardown.cpp:87` says of a timer that fires that
it "is still waited for, not cut loose".

*Weak exchanges.*  `WeakAt` names the places where the exchange of `ClhLock` may fail
for no reason.  `fifo_locks` has them all, with two threads.  With three, `clh_lock`
has those of `try_lock`; with those of `__take` too, TLC needs four minutes for
3.4 million states and finds nothing.  `clh_lock_fit` has none, so that what it shows
comes from the nodes that move; that threads that fit are served is claimed nowhere,
since with weak exchanges even a lone thread may be refused.

*Races left out of a passing run.*  `coroutines` has the channel without
`CloseRaces` and the timers without `StopRaces`: the interleavings in which the
violations of `channel_close` and `timer_stop` happen are guarded against there,
so that everything else about these parts is checked.

*Resumption.*  In the models of the coroutine primitives a resumed coroutine is
simply ready to go on, as if there were a worker for each; how workers are shared
is the matter of `ForkJoin` and `Parking`.

*Fairness.*  A thread inside a call keeps running, and a critical section ends
(weak fairness of `Running`, `Going`); workers keep looking for work (`Serving`);
what a frame waits for happens and time passes.  The kernel
schedules runnable threads, and nothing stronger is assumed, with one exception:
a weak exchange of `async_mutex` that is retried does not fail for ever (strong
fairness of `CasSucceeds`).  Nobody has to call.  The adaptive mutex and the
reader/writer mutex let late-comers overtake, so no run claims that each of
several waiters is served there: `LoneWaiterServed` and `WritersNotStarved` are
what the code does give.  `lock_all` may go round for ever when two threads keep
refusing each other a lock, and the recursive lock lets anybody overtake; no run
claims progress for them.

## Proofs

| theorem | for every |
|---|---|
| `FutexMutex_proofs`: `Typing`, `Exclusion`, `Remembrance`, `Implementation` | set of threads |
| `SharedMutex_proofs`: `Typing`, `Truth`, `Justification`, `Implementation` | finite sets of readers and writers, and width of the word that holds the readers |
| `Seqlock_proofs`: `NoTornRead`, `OneWriterAtATime` | set of threads, payload size, width of the sequence and number of stores |
| `Queues_proofs`: `Typing`, `Refusals`, `TaggedRing` (tagged ring); `Memory`, `InOrder`, `PairedRing` (one-to-one ring); `Room`, `Agreement`, `NoneTwice`, `StealingDeque` (deque) | set of producers, of consumers and of thieves, capacity, size of a batch and number of items |
| `TicketLock_proofs`: `FirstComeFirstServed`, `Exclusion` | finite set of threads and width of the counters with room for them |
| `Semaphore_proofs`: `Balance`, `Bounded`, `NoneOverslept` | finite set of threads, number of permits and of calls |

*Adaptive mutex.*  Exclusion is inductive with the types, since every way in
tests and takes the word in one operation.  A sleeper is remembered by the word
or by an awake thread that will mark it again; one step per action.

*Reader/writer mutex.*  `WordTruthful` is not inductive: an exchange starts from
a value loaded earlier.  `IInv` adds what each loaded value is good for
(`SeenUseful`) and the exact meaning of `__ww` (`Cardinality(Announced)`), from
which it follows that `__ww` never wraps.  Assumed: the readers fit below the
writer bit (`ReadersFit`).

*Queues.*  The invariants are about the components: `MpmcRing_proofs` has that of
the tagged ring, `CachedIndex_proofs` those of the two queues in which one side
computes with a copy of the other's index.  `Queues_proofs` imports them with
`INSTANCE`, for the variables of the run, and states the run's own properties.
Assumed (`Fits`): a tagged ring has two cells at least (with one, see Findings),
the others one; the two sides are different threads, the owner is no thief.

*Tagged ring.*  A position that somebody has claimed belongs to nobody else
(`ClaimsToPush`, `ClaimsToPop`), and the tag of a cell tells which lap it is on and
whether it is open, filled or being worked on (`Laps`); from these the items between
head and tail are those of the abstract queue, in order, published or not
(`Window`).  A position loaded long ago is harmless because tags only grow: that a
tag equals it means nobody has passed it.  `Moved` says what a step does to the
window, from which the refinement follows by cases.

*Deque.*  `NeverOverfull` needs that the cached top is never ahead of top and
that the room counted from it is there (`CacheUseful`); `EmptyAgreed` needs that
a pop in doubt finds top at the item or just past it (`PopUndecided`), and that
a thief that can still win is looking at an item of the deque
(`ThievesBehind`).  For `ImplementsDeque` the slots count: the ring in use holds the
items from top to bottom (`Contents`), and what a thief has read, from this ring or
from one it replaced, is the item at the top it saw as long as top has not moved
(`Reads`).  Slots are told apart because fewer items than slots are in a ring.

*Seqlock.*  That a load returns no mixture is not inductive: it depends on what
the payload holds while a store is under way.  `IInv` adds that the sequence is
twice the number of stores, plus one during a store (`SeqCounts`); that the words
below the writer's cursor are the new value and the others the old
(`DataKnown`, `CursorKnown`); and that a reader's copy so far is of the value it
began with as long as no store has begun since (`CopyKnown`).  The second look at
the sequence then tells whether one has, since fewer stores than bring the
sequence round have overtaken the reader (the bound `Overtakes` in the guards of the
writer).  Assumed: a payload of at least one word and a sequence that can change
(`Sizes`).

*One-to-one ring.*  `MemoryUsable` bounds what each side remembers by what the
other has published.  `PairIInv` adds that a producer between its check and its
publish has the room it counted from the remembered head (`PairRoomFound`), that a
consumer between its check and its release has the items (`PairItemsFound`), and what
the slots hold (`PairContents`): an item stays in its slot because the slots in use
are fewer than a round apart.

*Ticket lock.*  `TicketsInOrder` is not inductive for `try_lock`, which compares
`next` with a value loaded earlier.  `IInv` adds how far `next` may have come since
(`TryBounded`): fewer tickets than bring the counter round, so that equality means
nobody has drawn one and the lock is free.  Assumed: the width has more numbers than
there are threads and tickets drawn during one `try_lock` (`Sizes`; the bound
`MaxOvertaking` is in the guards).  With more threads than
numbers two of them would draw the same ticket.

*Semaphore.*  `IInv` is `BooksBalance` and `NoTokenOverslept`, by the number of
threads at each place of the code, with the fact that `abort()` has marked itself
before it hands out tokens (`AbortMarked`).  A step moves one thread from one place
to another, or two for a wake, and the lemmas `Moves` and `Tally` say how the
numbers shift.  Assumed: finitely many threads (`Sizes`).

The theorems on the two mutexes and on the queues state the properties their runs
check.  The others are about `Seqlock`, `TicketLock` and `Semaphore` by themselves;
the runs `waiting_primitives` and `fifo_locks` check them there as one part among
several.

Only model-checked: all liveness, which needs fairness; the MCS and CLH locks, the
waiting primitives except the seqlock and the semaphore, and the coroutine runtime.

## Findings

- *`shared_mutex`*: the repair of a stray `unlock_shared` is a second atomic
  operation.  A writer that unlocks in between leaves a reader counted for ever.
- *`clh_lock`*: the scan for a free node can miss the one that is free at every
  moment, so `lock()` reports an exhausted arena to threads that fit; a weak
  exchange that fails for no reason does the same.
- *Tagged rings of capacity 1* accept a second item over the first.
- *`async_channel`*: `pull` takes a permit for an item, but the permits that
  `close()` gives out through `abort()` stand for nothing; a consumer that tested
  the abort flag before it was set takes one of them.
- *Timer thread*: it looks at the stop flag and then reads the epoch it waits on.
  A stop that raises the flag, bumps the epoch and wakes between the two is
  missed, and the stop joins a thread that sleeps on.

Read in the code and not checked by a run: `crossbeam` and `mpsc_free` take the
difference of two tags in 64 bits whatever the width of `usize`; the comment on
`__ww` (`shared_mutex.hpp:26`) says "held or waiting" where the code counts
waiting writers only; `arrive_and_drop` does not lower the barrier's threshold.
A future that lost a `when_any` keeps the token, and an await of it before it is
set finds its place taken and takes that for readiness (`futex_future.hpp:144`):
the second `when_any` may return a future that is not ready, where
`cl_sched.hpp:1325` says "index of the first ready future".  `WinnerReady` therefore
says that the winner is ready or was armed before; without the second case TLC finds
it violated in the second of the two rounds.
The looks of the stop can be deceived (see "The stop").
When the stop cuts timers off, a frame the timer thread has just submitted may
still be run and sleep again after the list was cleared (`cl_sched.hpp:790`); in
`Timers` TLC then finds a node linked when the runtime has stopped, which
`t_timer_teardown.cpp:100` says does not happen ("the timer list does not survive
into the next runtime").
A consumer in `sync_channel::pull` that holds a permit and has seen the channel
open may find its item drained by another one after `close()` and then spins.

## Not modelled

- *Containers, strings, algorithms, maths, SIMD, graphics, parsers, system-call
  wrappers*: nearly all of the library's lines.  They are sequential functions of
  their arguments; a test or a proof of the C++ says more than a transcription.
- *Allocator*, except the ring of `mpsc_free.hpp`: size classes, page maps and
  thread caches are sequential per arena.
- *Threads, pools, arenas; parallel algorithms*: loops over threads that are
  created and joined; what they synchronise with is modelled.
- *One-word locks and guards*: a single exchange.
- *RCU*: disabled in the source.  *Hazard pointers*: nothing retires or scans.
- *Reactor, asynchronous I/O, fibers*: their behaviour is the kernel's, or
  assembly.
- *The trap in `__join_suspend`* on more than 32767 steals in one join.
- The spinning search before a worker sleeps, the
  propagation of wakes when a deque holds more than one frame, the io_uring build
  and the build with one global signal.
- *`unbounded_channel`, `sync_channel`*: compositions of modelled parts.
- *Eviction of thread slots* (`__node_pool.hpp`).
- *`semaphore::reset` with waiters*: it stores two words and wakes nobody; the
  code does not say what it means then.
- *Destruction*: no object of a model is destroyed while somebody may still use
  it, except the frames of `ForkJoin` and the state of `WhenAny`.

## Plan

1. `unbounded_channel` and `sync_channel` with `close()` racing `push` and `pull`.
2. Proofs: the order of the MCS and CLH locks; the event count and the latch.
