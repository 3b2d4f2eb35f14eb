# A TLA+ model of sse-eventbus-go

The event bus keeps Server-Sent-Events clients, queues published events for
them, sends the events from a pool of workers, retries failed sends, replays
retained events to clients that reconnect, and shuts down in order. Most of what
can go wrong in it lies between goroutines. These modules model the goroutines
and what they share, TLC explores small instances of them, and TLAPS proves, for
every size, the central invariants of the send queue, the client lock, the bus as
a whole, the retry schedule, the retained events and subscriptions, and the HTTP
streams.

## The system

| Part | State | Operations | Who runs them |
| --- | --- | --- | --- |
| send queue (`queue.go`) | `items`, `closed`, one-slot channels `itemReady`, `spaceReady` | `push`, `pop`, `remove`, `close`, `drain` | publishers, scheduler, workers, lifecycle calls, shutdown |
| send order (`bus.go`, `client`) | `nextOrder`, `nextTurn`, `canceledOrders` | `assignOrder`, `waitForTurn`, `finishTurn`, `cancelTurn` | whoever pushes, pops or removes |
| lifecycle lock (`bus.go`) | `clientLocks`: a reference-counted lock object per ID | `lockClientContext`, unlock | every lifecycle call, publishers, replay |
| clients (`bus.go`) | `b.clients`; per client object `inactive`, `connectionClosed`, `mu`, `replayGeneration` | `Register`, `Disconnect`, `Unregister`, removal of an exhausted client | application, removal goroutines |
| publishing (`bus.go`) | | `Publish`, `handle`, `deliver`, `send` | application |
| workers (`bus.go`) | the event a worker holds | `worker`, `attempt`, `send`, `waitForRetry` | send workers |
| retries (`queue.go`, `bus.go`) | `retryQueue` | `schedule`, `popDue`, `remove`, `retryLoop` | workers, scheduler, lifecycle calls |
| replay (`replay.go`, `bus.go`) | retained events per ID | `Store`, `EventsSince`, `ClearClient`, `PurgeExpired`, `ReplayMissedEvents` | publishers, application, cleanup loop |
| subscriptions (`subscription.go`) | IDs per event name | `Subscribe`, `Unsubscribe`, ... | anybody, without the lifecycle lock |
| shutdown (`bus.go`) | `closed`, `stop`, `shutdownDone` | `Close` | one goroutine |
| maintenance (`bus.go`) | `lastTransfer` | expiration, heartbeat, replay cleanup | three loops |
| HTTP adapter (`httpadapter`) | `connection` | `Serve`, `Send`, `Close` | request goroutine, workers |

What makes it hard: a publisher waits for queue space with the lifecycle lock of
the client; removal needs that lock, and workers must go on meanwhile; a worker
holds an event across a replacement of its client; a failed event may be retried
after later ones; events are taken out of the middle of the queue while others
wait for their turn; Close runs against all of it. `PROJECT.json` lists these
hazards with the line of each and the properties that watch it.

## Modules

| Module | What it is |
| --- | --- |
| `TurnOrder` | the tickets of one client as operators on a record |
| `EventQueue` | the send queue, its producers, workers and shutdown |
| `ClientLock` | the lock object per ID; `ClientMutex` is what it promises |
| `BusState` | the state of the bus and the helpers of its steps |
| `BusCalls` | the calls of the application and the removal goroutines |
| `BusDelivery` | workers, retry scheduler and shutdown |
| `Bus` | the composition of the last three, fairness and the properties |
| `RetrySchedule` | backoff, the heap of retries and its scheduler, with a clock |
| `Sessions` | subscriptions, retained events and their cleanup, with a clock |
| `SSEFrame` | the text of a stream, and a reader of it |
| `Streams` | HTTP streams of a client with the adapter, expiration, heartbeats and Close |
| `MCEventQueue`, `MCBus`, `MCSessions`, `MCStreams` | symmetry sets and the scenarios for TLC |
| `TurnOrderProofs`, `EventQueueProofs`, `ClientLockProofs`, `BusProofs`, `BusConnectionProofs`, `RetryScheduleProofs`, `SessionsProofs`, `StreamsProofs` | theorems |

The bus is seen from four sides. `Bus` composes calls, queue, workers, retries
and shutdown without time. `RetrySchedule`, `Sessions` and `Streams` look closely
at one part, with the time and the data that part depends on, and keep of the
others what it meets. A single module with all of it would be out of TLC's reach.

An operator with a name such as `PopSilently` or `MaySendAnyway`, directly
before the definition it resembles, is a deliberately wrong variant of it. No
specification uses these; putting one in the place of the right definition
breaks the property that `PROJECT.json` pairs with it, which shows that the
property depends on that line of the code.

### EventQueue and TurnOrder

The slice with its head index is a set of events, each with its arrival number;
compaction moves nothing that callers can see. A channel with one slot is a
Boolean: a signal sets it, a receive clears it. Sections under `q.mu` are one
step, and so is the read of the context just before them. A removed set of
tickets is given back at once (`CancelTurns`); `CancelTurn` is a single call of
`cancelTurn`, and theorem `CancelOneByOne` shows that the loop in `remove` comes
to the same. `remove` may drop any subset of a client's events, because a replay
drops those that have an ID.

### ClientLock

The two sections under `clientLockMu`, the select on the gate and the context,
and the two ways out are steps. A lock object that nobody refers to is garbage
and may be used again, as memory is. `Owner` maps the state to `ClientMutex`.

### Bus

A registration makes a client object; objects are numbered, and 0 is nil. A call
of the application is a record in `caller` whose `pc` says which statement comes
next. A goroutine can be interrupted between any two statements that touch shared
state; sections under one mutex are one step. `send` is two steps, so that
`client.mu` is held while `Connection.Send` runs; `mu` is the goroutine that has
it. `Close` is a counter of phases, run by the goroutine `Closer`.

Abstractions:

* The lifecycle lock is the mutex of `ClientMutex`. `push` and `pop` block on the
  queue itself. Both are what the two modules above justify, with the exception
  of the lost wake-up described under Findings.
* Time is abstract. Any scheduled retry may be due, and any may be the earliest;
  `RetrySchedule` has the times.
* There is one event name. Registrations subscribe to it, and anybody may
  subscribe or unsubscribe at any time (`SetSubscribed`). Direct and excluded
  recipients are a choice of the set of IDs in `Publish`; `Sessions` has the names
  and the recipients.
* `unregister` deletes the client and its subscriptions in one step: a publisher
  looks at both, so the moment between them is not visible to it.
* In a run, either all registrations use `ReplayFrom` or none. The cursor is the
  last event that any connection of the ID received, as an EventSource sends it.
* A closed connection answers `Send` with `ErrClosed`, whatever else it does.
  Errors of `Connection.Close`, listeners and observers are left out.
* `Rest` is a stuttering step at quiescence. It lets TLC look for deadlocks:
  a state in which somebody is in a call or something is pending and nobody can
  take a step is reported.

The options given to `New` and the application are a *scenario*, chosen in `Init`
and kept in `options`: synchronous or not, replay or not, capacities, attempts,
number of workers, what `Send` may return, the kinds of calls, and the bounds.
Among the calls, `"cancel"` lets contexts be cancelled, `"noID"` mixes events with
and without an ID, and `"reuse"` lets a registration bring the connection in use.
`MCBus` defines the scenarios, and a run checks one or several.

### RetrySchedule

The heap is the set of its retries and `Less` is `retryHeap.Less`; what `heap.Pop`
returns is the element that `IsFirst`. The scheduler of `retryLoop` polls, looks
whether what is due is still current, pushes it to the send queue, arms its timer
with what it read, and sleeps until the timer, the `changed` channel or `stop`.
These are steps of their own: a client may be replaced while its retry, found
current, waits for space, and others schedule between the read and the sleep.
`schedule` on a full heap hands the first retry back to the worker, which waits for
it in naps (`waitForRetry`). Durations have a width: `Double`
wraps at `DurationLimit`, which stands for 2^63 as `MaxDoublings` stands for 63.
A client that is replaced makes its events stale at any time. `Horizon` is a
stuttering step at the end of the modelled time.

### Sessions

The registry and the store have mutexes of their own, so one call of either is a
step, and a call of the bus is the sequence of its steps: `UnsubscribeFromAll`
removes the names of a snapshot one by one, `RegisterContext` with
`ReplaceSubscriptions` does so inside the lifecycle lock, `SubscribeOnly` outside.
`handle` looks at a client without the lock and again with it, reads the time of
the entry and stores it. A history is a set of numbered entries; IDs may repeat.
The cleanup loop ticks and purges in two steps, so that the cutoff may be old.
`log`, `entitled` and `disturbed` only observe: the store without its cleanup, who
was subscribed all through a publish, and to which names others changed the
subscriptions of a call's client while it ran.

### Streams and SSEFrame

Requests of one client ID come, register, are replaced, end, and clean up with
`conn.Close` and `Bus.Disconnect`. Each has its connection with its mutex and its
client object. A worker, the heartbeat loop and the flush of `Close` send to the
client they found, perhaps long ago; the expiration loop scans under `b.mu`, waits
for `client.mu` in `lastSeen`, and looks again in `unregister`. A message is put
on the wire as lines; a write may stop after any of them, or fail after the last
one in the flush. A cut line swallows the next one, which is how a reader sees a
broken frame. A text is a sequence of character classes (carriage return, line
feed, space, other), enough to tell the line-break and leading-space rules apart.
The timeout of a request and its cancellation are one event, `requestDone`.

## Runs

| Run | Instance | What it shows |
| --- | --- | --- |
| `event_queue_safety` | 2 producers (1 cancelable), 2 workers, 2 clients, capacity 2, 4 events | bound, no lost wake-up of a worker, tickets conserved, attempts of a client serialized in queue order |
| `event_queue_progress` | 3 producers, 2 workers, 1 client, capacity 2, 3 events, fair | without cancelled contexts no free slot is left without a producer being told of it, producers sleep only while the queue is full; every turn comes |
| `event_queue_lost_wakeup` | 2 producers, one cancelable, capacity 1, fair | violated: see Findings |
| `client_lock` | 3 callers, all cancelable, 2 IDs, fair | refinement of `ClientMutex`, which is mutual exclusion per ID; every caller proceeds |
| `bus_lifecycle` | 11 scenarios: an ID registered, replaced, disconnected and unregistered by two callers, with and without retries; the same in synchronous mode; two IDs with reused connections; two workers with complete-after-message, with and without retries; replays of events with and without ID and cancelled contexts; an ID with retained events unregistered | no send on a connection the bus closed, at most one message to a client that completes, history cleared, no leaked connection, clean shutdown, stale work removes no replacement, a reused connection stays open, no event that was not attempted leaves the bus unless it is stale or its client inactive |
| `bus_replay` | `Reconnect` (2 registrations, 2 callers, a replay call; sends succeed or find the connection closed), `ReconnectAgain` (1 caller, 2 replay calls), `ReconnectFailing` (1 event, whose sends also fail and are retried) | at least once, one live copy per event |
| `bus_progress` | `FullQueues` (both capacities 1, 3 events), `Shutdown` and `ShutdownUnregister` (Close at any time), fair | every call returns, Close returns, an exhausted client is removed |
| `bus_overtaken`, `bus_sync_reordered` | 1 registration, 2 events | violated: see Findings |
| `retry_schedule` | 1 worker, 3 events, both capacities 1, 2 attempts, 3 ticks, fair | the heap keeps its bound, the scheduler does not oversleep, a full heap hands back the first retry, no retry waits for ever, stale ones included, Close ends every wait; the backoff of every valid setting doubles to its maximum without overflow |
| `sessions` | 2 callers; `Retain` (3 events, repeated IDs, 3 ticks), `Recipients` (2 clients, direct, repeated and excluded), `Rearrange` (2 names, two calls of any kind against a publish) | the cleanup cannot be noticed, entitled recipients get an event and get it once, calls leave the subscriptions they were asked for in every name that nobody else changed, none that stays is lost for a moment |
| `streams` | 2 requests, one of them complete-after-message; one stream with failing writes, a takeover, Close with and without flush, expiration with and without a reconnect, fair | what a reader sees is what was written, no write after `Serve` returned, no ghost of a returned handler, a late cleanup retires no replacement, only silent clients expire, silent clients do expire, every handler returns |

Bounds. Capacity 1 or 2 makes queues full with two or three events. Two
registrations of an ID give a replaced client and its replacement; three events
give one sent, one waiting and one blocked. Two attempts give a retry and an
exhausted client. With two attempts all retries of `retry_schedule` have the same
delay, so that an earlier retry never overtakes a later one in its heap: the
doubling is checked as a function, for every number of failures up to
`MaxDoublings`, and that a retry scheduled before the one slept for wakes the
scheduler is theorem `SchedulerNeverOversleeps`; the run has the case of the empty
heap. In `bus_replay` two events and failing sends together would be the scenario
of `bus_overtaken`. `MaxArrivals` bounds the pushes in `EventQueue`. The `callers`, `ids`,
`registrations`, `published` and `replays` of a scenario bound what the application
starts in `Bus`; `published`, `calls` and
`time` do so in `Sessions`, `arrive`, `frames` and `time` in `Streams`, `MaxEvents`
and `MaxTime` in `RetrySchedule`; what was started is finished. With a retention
or expiration time of 1, three ticks let an event be stored, expire and be purged
while a later one stays; two ticks let a client expire that has been written to
once. Symmetry is used only in runs without liveness properties.

Deadlock is checked except in `sessions` and `streams`: there the system stops
when the application has made its calls or all handlers have returned, and
`ServeReturns` says that the handlers do.

Fairness. `EventQueue`: a goroutine that can take a step is scheduled (weak
fairness). `ClientLock`: blocked senders on a Go channel are queued first in,
first out, hence strong fairness of passing the gate; whoever has the lock
returns it. `Bus`: the same for its goroutines; strong fairness for taking the
lifecycle lock; `Connection.Send` returns, and a scheduled retry becomes due.
`RetrySchedule`: weak fairness of the clock, the workers, the scheduler and of
`close(b.stop)` after the queues are closed. `Streams`: strong fairness of each
handler, because a Go mutex starves nobody, and of the reaper's `stop` case, which
its select meets again and again; weak fairness of senders, reaper and Close; a
write ends. Nobody has to start a call, cancel a context or call `Close`.

## Findings

1. **A cancelled producer loses a wake-up** (`queue.go:42`, run
   `event_queue_lost_wakeup`). The queue is full and two producers sleep in
   `push`. A worker pops and signals `spaceReady`. The first producer takes the
   token, finds its context cancelled at the top of the loop and returns. The
   token is gone; the second producer sleeps beside a free slot until another
   pop, push or remove signals. If the queue is empty by then and nobody else
   publishes, that is never. `README.md:110` says that a publisher waits when the
   queue is full. Theorem `SpaceWakeups` shows that cancellation is the only cause.
2. **An overtaken event is lost across a disconnect** (`bus.go:290`, run
   `bus_overtaken`). A first event fails and waits for its retry, a second is
   received, `Disconnect` drops the retry, and the client reconnects with the ID
   of the second: the first is retained but not replayed. `README.md:241` promises
   delivery at least once across a disconnect.
3. **The same in synchronous mode** (`bus.go:512`, run `bus_sync_reordered`). Two
   publishers retain in one order and send in the other, because the lock is
   released between the two. The event sent second meets a disconnected client;
   its `Publish` returns nil, and a replay from the last ID received misses it.

## Proofs

All theorems hold for any sets of goroutines, clients, IDs, names and requests,
any capacity and any times. The assumptions are those named in the modules:
capacities, attempts, delays, retention and expiration times are positive, the
backoff is one that `WithRetryBackoff` accepts and fits a duration, the cancelable
goroutines are goroutines, the values that stand for "none" are none of the others,
and, where something is counted, finite: the callers of `ClientLock` and the IDs of
`Sessions`.

* `TurnOrderProofs` describes the tickets by the set `Live`: those not given back
  from the turn on. `assignOrder` adds the next, `finishTurn` takes the least,
  `cancelTurn` takes any. `WellFormed` says that the turn itself is never a
  cancelled ticket, which is what `advanceCanceledLocked` maintains.
* `EventQueueProofs`: serialization is not inductive by itself. The invariant
  `IInv` adds that the orders of a client's events in flight are exactly its live
  tickets and follow arrival (`Consistent`), that an event is in one place
  (`OnePlace`), that workers hold older events than the queue (`HeldFirst`), that
  draining comes after the workers (`FlushLast`), and that a sending worker has
  the turn (`SenderHasTurn`). From it follow `QueueBounded`, `TicketsConserved`,
  `TurnIsHeld` and `Serialized`. `ItemWakeups` and `SpaceWakeups` are inductive
  given the types; the second assumes that no context is cancelled.
* `ClientLockProofs`: `IInv` adds to the reference count and the life of the entry
  that IDs have different lock objects and that the gate is full while a caller is
  past it. From it follow `TypeCorrect`, `LockExcludes`, `EntriesLive`,
  `ReferencesAreUsers`, and step by step `Refinement`.
* `RetryScheduleProofs`: `BackoffDoubles` is about the loop of the backoff for
  every width. One round does not overflow because of the test before it
  (`DoubleStep`); that all rounds exist and stay bounded goes by the least round
  that fails (`LeastElement`), in place of an induction. `HeapIsBounded` needs that
  the worker that overfills the heap takes one out in the same section of `q.mu`.
  `SchedulerNeverOversleeps` is not inductive: `NextIsFirst` adds that what the
  scheduler read last is no later than the first retry, or `changed` is set.
  `RetriesAreNeverEarly`, `KeptRetriesAreWatched` and `FullHeapHandsBackFirst`
  follow from the types and the order of the heap.
* `SessionsProofs`: a purge may take the entry a cursor names and so make
  `EventsSince` start at the oldest entry. `CleanupIsInvisible` holds because only
  expired entries are missing and a history is in the order of its times
  (`Ordered`), so that what is older than a purged cursor has expired as well.
  Histories are in order because the time of an entry is read inside the lifecycle
  lock (`Locks`): the lock makes no later entry come between. `KeepsWhatIsWanted`
  rests on `Rewriting`: the names a call still has to remove are not among those
  it keeps. `CallsLeaveWhatWasAsked` needs what a call has done at each of its
  places (`Settled`): in the names that nobody else changed, every one not wanted is
  among those left to remove, and every wanted one is there or left to add; what
  others change only adds names to leave out of account (`FitsOutside`). `TypeCorrect`
  shows that the registry holds only clients: a call that rewrites subscriptions has
  a client throughout. `EntitledOnesGetIt` needs `PInv`, what a publish has done at
  each of its places: the recipients still ahead of `handle` are different ones and
  have no copy of the event (`Awaits`), and whoever is entitled and no longer ahead
  has exactly one (`Spreads`). That a list of direct recipients with repetitions
  is gone through once per client is lemma `UniqueStringsUnique`, by the least round
  in which an ID would come twice.
* `StreamsProofs`: `IInv` says that a writer has the connection's mutex
  (`Writers`), that only requests that have begun have clients (`Begun`), that once
  the cleanup of a request has closed its connection nobody is writing to it, and
  whoever gets the mutex will find it closed or the request done (`Over`), and which
  of `Disconnect`'s steps are done by then (`Gone`). `ResponsesAreLeftAlone` is the
  contract of `http.ResponseWriter`, and `NoGhosts` that of `Disconnect`.
  `OnlySilentOnesExpire` follows from the second look that `unregister` takes in
  the lock. `RetiredOnlyForCause` goes over every way to `retire`: whoever comes
  there has the lifecycle lock, has taken the client out of the table or found the
  bus closed (`Cause`), and no other goroutine changes that (`Undisturbed`).
* `BusProofs` and `BusConnectionProofs` are about the composition, in any scenario:
  in either mode, with any options and any of the calls. They rest on four
  invariants, each inductive given some of those before it.
  - `TInv` says what each goroutine has at each of its places. Most of it is types;
    that a client object is known only to the registration that made it until it is
    installed (`Fresh`, `Known`) is not.
  - `SInv` says what each relies on. A call between its statements has the lifecycle
    lock, and its target is still the client in the table (`SafeAt`). A closed
    connection belongs to an inactive client whose mutex is free, and a client that
    completes has received one event at most (`ObjSafe`). What is retained for an ID
    without a client is being cleared (`IDSafe`), and what each phase of the shutdown
    has done stays done (`CloserSafe`). From it follow `NothingSentAfterClose`,
    `CompletesOnce`, `HistoryGoesWithTheClient`, `ShutdownLeavesNothing` and
    `StaleWorkRemovesNobody`. A step is shown to preserve it by what the step leaves
    alone (`Frame`), so that the calls of others need not be looked at again.
  - `LInv` says that every connection is accounted for by a client object that has
    it, which gives `NoConnectionIsLeaked`. `Sharing` says that clients with one
    connection have one ID and only the newest is in use, which gives
    `ReusedStaysOpen`: every step closes the connection of one client, the one that
    `WhoCloses` names, and no newer one shares it.

In all of these but `TurnOrderProofs` a leaf is for Zenon unless it names another
prover (`USE Zenon`): the state is mostly records and functions, with little
arithmetic.

Proved and not part of a run, because the theorem says all that the run would:
`TurnHolderIsAWorker` of `EventQueue`; the types, `MutualExclusion`, the life of the
entry and the reference count of `ClientLock`; `NeverEarly` and `NapsAreShort` of
`RetrySchedule`; the types of `Sessions` and `Streams`.

Only model-checked:

* all liveness properties: fairness and ENABLED are out of the prover's reach;
* `AtLeastOnce`, which does not hold in every scenario: the runs `bus_overtaken` and
  `bus_sync_reordered` show where it fails, and what sets `bus_replay` apart is the
  scenario;
* the bounds of the two queues in `Bus`, `NoSilentDrop` and `QueuedOnce`: they take
  a further invariant, about the tickets and generations of every queued event and
  what each call has still to push. `EventQueueProofs` and `RetryScheduleProofs` prove
  the bounds for each queue by itself;
* `ReceivedIntact`, a fold over the lines of a stream: what a recursive definition
  computes for every input is beyond the prover.

## Not modelled

* The distributed transport. `PublishRemote` is one call after `handle`, and the
  consumer of remote events calls `handle` as any publisher does. What is hard
  about it, echo and order between nodes, is up to the transport, which is not in
  the repository.
* Listeners, observers and errors of `Connection.Close`: they change no state of
  the bus, and panics in them are recovered.
* Queries: reads under one lock.
* Converters, the default event name, the `retry` field of a frame, the response
  headers and the rejection of options: sequential functions on data. An event
  that is refused is refused before `handle` changes anything.
* The context of `Close`, which only ends the wait for the result.
* Retention during a replay that is under way: the cutoff is in `Sessions`, the
  queued copies a replay replaces are in `Bus`, and no module has both. A replay
  drops a queued event past its retention, as `README.md` of the repository says
  of retained events.
* A replay that fails half way returns its error and leaves the client registered.
  `Bus` has the behaviour; no property is stated of it, since what the client asks
  for next is its own choice.
