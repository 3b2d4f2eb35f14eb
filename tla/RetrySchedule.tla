--------------------------- MODULE RetrySchedule ---------------------------
(***************************************************************************)
(* Failed sends over time: the backoff a worker computes, the bounded heap *)
(* of retries (queue.go, retryQueue), the scheduler that sleeps until the  *)
(* next one is due (bus.go, retryLoop), and the worker that keeps a retry  *)
(* when the heap is full (waitForRetry).  The heap is the set of its       *)
(* retries; Less orders it.  Module Bus has the same goroutines without    *)
(* time but with everything else they do.                                  *)
(***************************************************************************)
EXTENDS Integers, FiniteSets

CONSTANTS Workers,
          SendCapacity, Capacity,      \* WithQueueCapacities
          Attempts,                    \* WithSendAttempts
          SchedulerDelay,              \* WithSchedulerDelay
          RetryBase, RetryMax,         \* WithRetryBackoff
          MaxDoublings,                \* of the delay, 63 in the code
          MaxTime,                     \* bound: no retry is due later
          MaxEvents,                   \* bound: published events
          NoRetry

(* What the options accept (options.go). *)
ValidBackoff(initial, maximum) == initial > 0 /\ maximum >= initial
ValidCapacities == SendCapacity \in Nat \ {0} /\ Capacity \in Nat \ {0}
ValidAttempts == Attempts \in Nat \ {0}
ValidDelay == SchedulerDelay \in Nat \ {0}

(* d * 2^k, for as many rounds k as are considered. *)
Doubled(d) ==
  LET times[k \in 0 .. 2 * MaxDoublings] == IF k = 0 THEN d ELSE 2 * times[k - 1] IN times

(* The width of a duration is 64 bits for 63 doublings. *)
DurationLimit == Doubled(1)[MaxDoublings]

Events == 1 .. MaxEvents   \* in the order of publication

Retry == [event : Events, attempts : Nat, due : Nat, order : Nat]

ASSUME ConfigAssumption ==
  /\ ValidCapacities /\ ValidAttempts /\ ValidDelay
  /\ RetryBase \in Nat /\ RetryMax \in Nat /\ ValidBackoff(RetryBase, RetryMax)
ASSUME DurationAssumption ==
  MaxDoublings \in Nat /\ DurationLimit \in Nat /\ RetryMax < DurationLimit
ASSUME BoundAssumption == MaxTime \in Nat /\ MaxEvents \in Nat
ASSUME NoRetryAssumption == NoRetry \notin Retry

VARIABLES clock,
          published,   \* events published so far
          sendQueue,   \* events that wait for a worker
          items, sequence, changed, closed,   \* the retry queue
          stopped,     \* close(b.stop)
          stale,       \* events whose client was replaced or removed
          worker,      \* where each worker is in its loop
          held,        \* the event it has
          alarm,       \* when its timer fires
          scheduler, next, timer, taken

queue == <<items, sequence, changed>>
loop == <<scheduler, next, timer, taken>>
workers == <<worker, held, alarm>>
vars == <<clock, published, sendQueue, queue, closed, stopped, stale, workers, loop>>

Fresh(e) == [event |-> e, attempts |-> 0, due |-> 0, order |-> 0]
None == -1   \* the zero time, and the channel of a timer that is not set

Init ==
  /\ clock = 0
  /\ published = 0
  /\ sendQueue = {}
  /\ items = {} /\ sequence = 0 /\ changed = FALSE
  /\ closed = FALSE /\ stopped = FALSE
  /\ stale = {}
  /\ worker = [w \in Workers |-> "pop"]
  /\ held = [w \in Workers |-> NoRetry]
  /\ alarm = [w \in Workers |-> 0]
  /\ scheduler = "poll" /\ next = None /\ timer = None /\ taken = NoRetry

Least(m, n) == IF m < n THEN m ELSE n
Most(m, n) == IF m > n THEN m ELSE n

-----------------------------------------------------------------------------
(* The backoff.  delay *= 2 wraps around at the width of a duration; the    *)
(* test before it is what keeps it from doing so.                           *)
Wrap(d) == ((d + DurationLimit) % (2 * DurationLimit)) - DurationLimit

DoubleUnchecked(delay, maximum) == Least(Wrap(2 * delay), maximum)
Double(delay, maximum) ==
  IF delay > maximum \div 2 THEN maximum ELSE Wrap(2 * delay)

(* The delay after attempt n.  The break of the loop leaves delay at the    *)
(* maximum, where a further round would leave it too.                       *)
Delays(initial, maximum) ==
  LET delay[k \in 0 .. MaxDoublings] ==
        IF k = 0 THEN initial ELSE Double(delay[k - 1], maximum)
  IN  delay
Backoff(initial, maximum, n) ==
  Least(Delays(initial, maximum)[Least(n - 1, MaxDoublings)], maximum)

(* retryHeap.Less *)
Less(x, y) == IF x.due = y.due THEN x.order < y.order ELSE x.due < y.due
IsFirst(x, heap) == \A y \in heap \ {x} : Less(x, y)

-----------------------------------------------------------------------------
(* deliver pushes a new event when the send queue has space. *)
Publish ==
  /\ published < MaxEvents
  /\ ~closed
  /\ Cardinality(sendQueue) < SendCapacity
  /\ published' = published + 1
  /\ sendQueue' = sendQueue \cup {Fresh(published')}
  /\ UNCHANGED <<clock, queue, closed, stopped, stale, workers, loop>>

Pop(w) ==
  /\ worker[w] = "pop"
  /\ ~closed
  /\ \E x \in sendQueue :
       /\ sendQueue' = sendQueue \ {x}
       /\ held' = [held EXCEPT ![w] = x]
  /\ worker' = [worker EXCEPT ![w] = "attempt"]
  /\ UNCHANGED <<clock, published, queue, closed, stopped, stale, alarm, loop>>

PopClosed(w) ==
  /\ worker[w] = "pop"
  /\ closed
  /\ worker' = [worker EXCEPT ![w] = "done"]
  /\ UNCHANGED <<clock, published, sendQueue, queue, closed, stopped, stale, held, alarm,
                 loop>>

Drop(w) ==
  /\ worker' = [worker EXCEPT ![w] = "pop"]
  /\ held' = [held EXCEPT ![w] = NoRetry]
  /\ UNCHANGED <<clock, published, sendQueue, queue, closed, stopped, stale, alarm, loop>>

(* The attempt is not made, succeeds, or was the last one: no retry. *)
AttemptEnds(w) == worker[w] = "attempt" /\ Drop(w)

(* The attempt fails and another is left: the due time is set from the      *)
(* clock at that moment.                                                    *)
AttemptFails(w) ==
  LET n == held[w].attempts + 1
      due == clock + Backoff(RetryBase, RetryMax, n)
  IN
  /\ worker[w] = "attempt"
  /\ held[w].event \notin stale
  /\ n < Attempts
  /\ due <= MaxTime
  /\ held' = [held EXCEPT ![w] = [event |-> held[w].event, attempts |-> n,
                                  due |-> due, order |-> 0]]
  /\ worker' = [worker EXCEPT ![w] = "schedule"]
  /\ UNCHANGED <<clock, published, sendQueue, queue, closed, stopped, stale, alarm, loop>>

(* The sequence number orders retries with the same due time.  It has no    *)
(* meaning outside the heap.                                                *)
Numbered(x, n) ==
  [event |-> x.event, attempts |-> x.attempts, due |-> x.due, order |-> n]
Out(x) == Numbered(x, 0)

HandsBackNewest(x, heap) == \A y \in heap : y.order <= x.order
HandsBack(x, heap) == IsFirst(x, heap)

OverfullByTwo(heap) == Cardinality(heap) > Capacity + 1
Overfull(heap) == Cardinality(heap) > Capacity

(* schedule: the retry is pushed and the scheduler told; the first one of a *)
(* heap that is now too large goes back to the worker.                      *)
Push(w, told) ==
  LET heap == items \cup {Numbered(held[w], sequence + 1)} IN
  /\ worker[w] = "schedule"
  /\ ~closed
  /\ sequence' = sequence + 1
  /\ changed' = told
  /\ IF Overfull(heap)
     THEN \E x \in heap :
            /\ HandsBack(x, heap)
            /\ items' = heap \ {x}
            /\ held' = [held EXCEPT ![w] = Out(x)]
            /\ worker' = [worker EXCEPT ![w] = "check"]
     ELSE /\ items' = heap
          /\ held' = [held EXCEPT ![w] = NoRetry]
          /\ worker' = [worker EXCEPT ![w] = "pop"]
  /\ UNCHANGED <<clock, published, sendQueue, closed, stopped, stale, alarm, loop>>
ScheduleSilently(w) == Push(w, changed)
Schedule(w) == Push(w, TRUE)

(* schedule reports ErrClosed and the worker returns; the event is lost. *)
ScheduleClosed(w) ==
  /\ worker[w] = "schedule"
  /\ closed
  /\ worker' = [worker EXCEPT ![w] = "done"]
  /\ held' = [held EXCEPT ![w] = NoRetry]
  /\ UNCHANGED <<clock, published, sendQueue, queue, closed, stopped, stale, alarm, loop>>

-----------------------------------------------------------------------------
(* waitForRetry: the loop of checks and naps of a worker that keeps a retry. *)
GiveUp(w) ==
  /\ worker[w] = "check"
  /\ held[w].event \in stale \/ stopped
  /\ Drop(w)

Nap(w) ==
  /\ worker[w] = "check"
  /\ held[w].event \notin stale /\ ~stopped
  /\ held[w].due > clock
  /\ alarm' = [alarm EXCEPT ![w] = clock + Least(held[w].due - clock, SchedulerDelay)]
  /\ worker' = [worker EXCEPT ![w] = "nap"]
  /\ UNCHANGED <<clock, published, sendQueue, queue, closed, stopped, stale, held, loop>>

NapEnds(w) ==
  /\ worker[w] = "nap"
  /\ stopped \/ clock >= alarm[w]
  /\ worker' = [worker EXCEPT ![w] = "check"]
  /\ alarm' = [alarm EXCEPT ![w] = 0]
  /\ UNCHANGED <<clock, published, sendQueue, queue, closed, stopped, stale, held, loop>>

RetryNow(w) ==
  /\ worker[w] = "check"
  /\ held[w].event \notin stale /\ ~stopped
  /\ held[w].due <= clock
  /\ worker' = [worker EXCEPT ![w] = "attempt"]
  /\ UNCHANGED <<clock, published, sendQueue, queue, closed, stopped, stale, held, alarm,
                 loop>>

-----------------------------------------------------------------------------
(* retryLoop.  popDue takes the first retry when it is due, or tells when   *)
(* it will be.                                                              *)
PollDue ==
  /\ scheduler = "poll" /\ ~closed
  /\ \E x \in items :
       /\ IsFirst(x, items)
       /\ x.due <= clock
       /\ items' = items \ {x}
       /\ taken' = Out(x)
  /\ scheduler' = "taken"
  /\ UNCHANGED <<clock, published, sendQueue, sequence, changed, closed, stopped,
                 stale, workers, next, timer>>

PollNext ==
  /\ scheduler = "poll" /\ ~closed
  /\ \/ items = {} /\ next' = None
     \/ \E x \in items : IsFirst(x, items) /\ x.due > clock /\ next' = x.due
  /\ scheduler' = "arm"
  /\ UNCHANGED <<clock, published, sendQueue, queue, closed, stopped, stale,
                 workers, timer, taken>>

(* isCurrentEvent is asked once, before the push, which waits for space: a  *)
(* retry that becomes stale in the meantime is pushed nevertheless.         *)
CheckTaken ==
  /\ scheduler = "taken"
  /\ IF taken.event \in stale
     THEN scheduler' = "poll" /\ taken' = NoRetry
     ELSE scheduler' = "push" /\ UNCHANGED taken
  /\ UNCHANGED <<clock, published, sendQueue, queue, closed, stopped, stale, workers,
                 next, timer>>

PushTaken ==
  /\ scheduler = "push" /\ ~closed
  /\ Cardinality(sendQueue) < SendCapacity
  /\ sendQueue' = sendQueue \cup {taken}
  /\ scheduler' = "poll" /\ taken' = NoRetry
  /\ UNCHANGED <<clock, published, queue, closed, stopped, stale, workers, next,
                 timer>>

(* The timer is set from the clock as it is now, for SchedulerDelay at most. *)
ArmTimer ==
  /\ scheduler = "arm"
  /\ timer' = IF next = None THEN None
              ELSE clock + Least(Most(next - clock, 0), SchedulerDelay)
  /\ next' = None
  /\ scheduler' = "sleep"
  /\ UNCHANGED <<clock, published, sendQueue, queue, closed, stopped, stale,
                 workers, taken>>

WakeUp ==
  /\ scheduler = "sleep"
  /\ \/ changed /\ changed' = FALSE
     \/ timer # None /\ clock >= timer /\ UNCHANGED changed
  /\ scheduler' = "poll" /\ timer' = None
  /\ UNCHANGED <<clock, published, sendQueue, items, sequence, closed, stopped,
                 stale, workers, next, taken>>

SchedulerEndsAwake ==
  /\ scheduler \in {"poll", "push"} /\ closed
  /\ scheduler' = "done" /\ taken' = NoRetry
  /\ UNCHANGED <<clock, published, sendQueue, queue, closed, stopped, stale,
                 workers, next, timer>>
SchedulerEnds ==
  /\ \/ scheduler \in {"poll", "push"} /\ closed
     \/ scheduler = "sleep" /\ stopped
  /\ scheduler' = "done" /\ taken' = NoRetry /\ timer' = None
  /\ UNCHANGED <<clock, published, sendQueue, queue, closed, stopped, stale,
                 workers, next>>

-----------------------------------------------------------------------------
(* Where an event can be that waits to be attempted again. *)
Waiting(e) == \/ \E x \in items : x.event = e
              \/ taken # NoRetry /\ taken.event = e
              \/ \E w \in Workers : worker[w] \in {"schedule", "check", "nap"}
                                       /\ held[w].event = e

(* The client of an event is replaced or removed, and later removePending   *)
(* drops its retries.                                                       *)
Retire(e) ==
  /\ e \notin stale
  /\ Waiting(e)
  /\ stale' = stale \cup {e}
  /\ UNCHANGED <<clock, published, sendQueue, queue, closed, stopped, workers, loop>>

Remove ==
  /\ stale # {}
  /\ sendQueue' = {x \in sendQueue : x.event \notin stale}
  /\ items' = {x \in items : x.event \notin stale}
  /\ changed' = TRUE
  /\ UNCHANGED <<clock, published, sequence, closed, stopped, stale, workers, loop>>

(* Close: both queues, then the stop channel. *)
CloseQueues ==
  /\ ~closed /\ closed' = TRUE
  /\ UNCHANGED <<clock, published, sendQueue, queue, stopped, stale, workers, loop>>

Stop ==
  /\ closed /\ ~stopped /\ stopped' = TRUE
  /\ UNCHANGED <<clock, published, sendQueue, queue, closed, stale, workers, loop>>

Tick ==
  /\ clock < MaxTime
  /\ clock' = clock + 1
  /\ UNCHANGED <<published, sendQueue, queue, closed, stopped, stale, workers, loop>>

(* The end of the modelled time; the goroutines may still take their steps. *)
Horizon == clock = MaxTime /\ UNCHANGED vars

-----------------------------------------------------------------------------
WorkerStep(w) == \/ Pop(w) \/ PopClosed(w) \/ AttemptEnds(w) \/ AttemptFails(w)
                 \/ Schedule(w) \/ ScheduleClosed(w)
                 \/ GiveUp(w) \/ Nap(w) \/ NapEnds(w) \/ RetryNow(w)
SchedulerStep == PollDue \/ PollNext \/ CheckTaken \/ PushTaken \/ ArmTimer \/ WakeUp
                 \/ SchedulerEnds

Next ==
  \/ Publish
  \/ \E e \in Events : Retire(e)
  \/ \E w \in Workers : WorkerStep(w)
  \/ SchedulerStep
  \/ Remove \/ CloseQueues \/ Stop \/ Tick \/ Horizon

Spec == Init /\ [][Next]_vars

(* Time passes, and a goroutine that can take a step takes it.  Nobody has  *)
(* to publish, replace a client or close the bus, but Close is not left     *)
(* half done.                                                               *)
Fairness ==
  /\ WF_vars(Tick) /\ WF_vars(Stop) /\ WF_vars(SchedulerStep)
  /\ \A w \in Workers : WF_vars(WorkerStep(w))

FairSpec == Spec /\ Fairness

-----------------------------------------------------------------------------
(* Every variable has its type, and the retry queue never grows beyond its  *)
(* capacity (queue.go, schedule).                                           *)
TypeOK ==
  /\ clock \in Nat
  /\ published \in 0 .. MaxEvents /\ stale \in SUBSET Events
  /\ sendQueue \in SUBSET Retry
  /\ items \in SUBSET Retry /\ IsFiniteSet(items) /\ Cardinality(items) <= Capacity
  /\ sequence \in Nat /\ changed \in BOOLEAN
  /\ closed \in BOOLEAN /\ stopped \in BOOLEAN
  /\ worker \in [Workers -> {"pop", "attempt", "schedule", "check", "nap", "done"}]
  /\ held \in [Workers -> Retry \cup {NoRetry}]
  /\ \A w \in Workers : worker[w] \in {"pop", "done"} <=> held[w] = NoRetry
  /\ alarm \in [Workers -> Nat]
  /\ scheduler \in {"poll", "taken", "push", "arm", "sleep", "done"}
  /\ next \in Nat \cup {None} /\ timer \in Nat \cup {None}
  /\ taken \in Retry \cup {NoRetry}
  /\ taken # NoRetry <=> scheduler \in {"taken", "push"}

(* retryLoop never oversleeps: while it waits and no change is signalled,   *)
(* its timer fires no later than the first retry is due, or has fired.  A   *)
(* retry scheduled between popDue and the select is not slept over.         *)
NeverOversleeps ==
  (scheduler = "sleep" /\ ~changed) =>
     \A x \in items : timer # None /\ (timer <= x.due \/ timer <= clock)

(* No retry is attempted before its backoff is over, whether it comes from  *)
(* the heap or was handed back to a worker by a full one.                   *)
NeverEarly ==
  /\ \A x \in sendQueue : x.due <= clock
  /\ \A w \in Workers : worker[w] = "attempt" => held[w].due <= clock
  /\ scheduler \in {"taken", "push"} => taken.due <= clock

(* A worker that keeps a retry because the heap was full looks at it again  *)
(* within SchedulerDelay and no later than it is due, so a replaced client  *)
(* or a stopped bus does not keep the worker (waitForRetry).                *)
NapsAreShort ==
  \A w \in Workers : worker[w] = "nap" =>
     alarm[w] <= held[w].due /\ alarm[w] <= clock + SchedulerDelay

(* The retry handed back by a full heap is the first: a worker is never     *)
(* kept from the send queue by a retry that is due later than one that the  *)
(* scheduler got in the same step (schedule).                               *)
HandsBackFirst ==
  \A w \in Workers : (worker[w] = "schedule" /\ worker'[w] = "check") =>
     \A x \in items' : held'[w].due <= x.due
KeepsTheFirst == [][HandsBackFirst]_vars

(* The delay after attempt n is initial * 2^(n-1), but at most the maximum, *)
(* for every backoff that New accepts, in any number of attempts: no        *)
(* duration overflows.  It is a statement about a bus that has just started. *)
BackoffDoublesToMaximum ==
  (clock = 0 /\ published = 0) =>
    \A maximum \in 1 .. DurationLimit - 1, initial \in 1 .. DurationLimit - 1, n \in 1 .. 2 * MaxDoublings :
       ValidBackoff(initial, maximum) =>
          Backoff(initial, maximum, n) = Least(Doubled(initial)[n - 1], maximum)

(* Unless the bus closes, every retry goes back to a worker in the end, or  *)
(* is dropped because its client is gone: the wake-ups of the scheduler are *)
(* not lost, workers and scheduler do not wait for each other when both     *)
(* queues are full, and no worker keeps the retry of a replaced client.     *)
RetriesHappen ==
  \A e \in Events : Waiting(e) ~> (~Waiting(e) \/ closed)

(* Close ends the scheduler and the workers, naps included. *)
CloseEndsWaits ==
  closed ~> (scheduler = "done" /\ \A w \in Workers : worker[w] = "done")
=============================================================================
