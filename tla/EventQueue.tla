----------------------------- MODULE EventQueue -----------------------------
(***************************************************************************)
(* The bounded send queue (queue.go, eventQueue) with the goroutines that  *)
(* use it: producers blocked in push, send workers in pop, the callers of  *)
(* remove, and the shutdown that drains what the workers left.  itemReady  *)
(* and spaceReady are channels with one slot: a signal on a full channel   *)
(* is lost, and a select that receives takes the only token.               *)
(*                                                                         *)
(* A queued event is a record: the client it is for, its ticket in the     *)
(* client's send order (see TurnOrder) and its arrival number, which       *)
(* stands for its place in the slice.  The attempt to send is one state    *)
(* of the worker here; module Bus has its steps.                           *)
(***************************************************************************)
EXTENDS TurnOrder, FiniteSets

CONSTANTS Producers,    \* goroutines that call push
          Cancelable,   \* the producers whose context may be cancelled
          Workers,      \* goroutines that run Bus.worker
          Clients,      \* client generations that events are queued for
          Capacity,     \* WithQueueCapacities
          MaxArrivals,  \* bound: no push starts after this many events
          NoEvent       \* the worker holds no event

Event == [client : Clients, order : Nat, at : Nat]

ASSUME CapacityAssumption == Capacity \in Nat \ {0}
ASSUME CancelableAssumption == Cancelable \subseteq Producers
ASSUME NoEventAssumption == NoEvent \notin Event
ASSUME BoundAssumption == MaxArrivals \in Nat

VARIABLES items,       \* the queued events
          arrivals,    \* events appended so far
          itemReady,   \* a token is in the channel
          spaceReady,
          closed,
          turns,       \* the tickets of every client
          producer,    \* where each producer is in push
          canceled,    \* producers whose context is cancelled
          worker,      \* where each worker is in its loop
          held,        \* the event each worker took from the queue
          flush        \* the drained events shutdown has not handled yet

vars == <<items, arrivals, itemReady, spaceReady, closed, turns, producer,
          canceled, worker, held, flush>>

Init ==
  /\ items = {}
  /\ arrivals = 0
  /\ itemReady = FALSE
  /\ spaceReady = FALSE
  /\ closed = FALSE
  /\ turns = [c \in Clients |-> NewTurns]
  /\ producer = [p \in Producers |-> "idle"]
  /\ canceled = {}
  /\ worker = [w \in Workers |-> "pop"]
  /\ held = [w \in Workers |-> NoEvent]
  /\ flush = {}

HasSpaceInclusive(queue) == Cardinality(queue) <= Capacity
HasSpace(queue) == Cardinality(queue) < Capacity

(* The space token after an append: push passes a notification on while    *)
(* slots are left.  The item token after a take is passed on likewise.      *)
KeepSpaceToken(queue) == spaceReady
PassSpaceOn(queue) == spaceReady \/ HasSpace(queue)
KeepItemToken(queue) == itemReady
PassItemOn(queue) == itemReady \/ queue # {}

(* The event at the head of the queue. *)
IsHead(e, queue) == \A f \in queue : e.at <= f.at

OrdersOf(events, c) == {e.order : e \in {f \in events : f.client = c}}

-----------------------------------------------------------------------------
(* push.  The context is read and the queue is locked in one step: a       *)
(* cancellation between the two is one that comes after the step.          *)

PushStart(p) ==
  /\ producer[p] = "idle"
  /\ arrivals < MaxArrivals
  /\ producer' = [producer EXCEPT ![p] = "try"]
  /\ UNCHANGED <<items, arrivals, itemReady, spaceReady, closed, turns,
                 canceled, worker, held, flush>>

PushAppend(p, c) ==
  LET e == [client |-> c, order |-> turns[c].nextOrder + 1, at |-> arrivals]
  IN
  /\ producer[p] = "try"
  /\ p \notin canceled
  /\ ~closed
  /\ HasSpace(items)
  /\ turns' = [turns EXCEPT ![c] = AssignOrder(@)]
  /\ items' = items \cup {e}
  /\ arrivals' = arrivals + 1
  /\ itemReady' = TRUE
  /\ spaceReady' = PassSpaceOn(items')
  /\ producer' = [producer EXCEPT ![p] = "idle"]
  /\ UNCHANGED <<closed, canceled, worker, held, flush>>

PushBlock(p) ==
  /\ producer[p] = "try"
  /\ p \notin canceled
  /\ ~closed
  /\ ~HasSpace(items)
  /\ producer' = [producer EXCEPT ![p] = "wait"]
  /\ UNCHANGED <<items, arrivals, itemReady, spaceReady, closed, turns,
                 canceled, worker, held, flush>>

(* The select takes the space token and goes back to the top of the loop. *)
PushWake(p) ==
  /\ producer[p] = "wait"
  /\ spaceReady
  /\ spaceReady' = FALSE
  /\ producer' = [producer EXCEPT ![p] = "try"]
  /\ UNCHANGED <<items, arrivals, itemReady, closed, turns, canceled,
                 worker, held, flush>>

(* push returns the context's error or ErrClosed, at the top of the loop or *)
(* from the select.                                                         *)
PushFail(p) ==
  /\ producer[p] \in {"try", "wait"}
  /\ p \in canceled \/ closed
  /\ producer' = [producer EXCEPT ![p] = "idle"]
  /\ canceled' = canceled \ {p}
  /\ UNCHANGED <<items, arrivals, itemReady, spaceReady, closed, turns,
                 worker, held, flush>>

(* The caller of push cancels the context it passed. *)
Cancel(p) ==
  /\ p \in Cancelable \ canceled
  /\ producer[p] \in {"try", "wait"}
  /\ canceled' = canceled \cup {p}
  /\ UNCHANGED <<items, arrivals, itemReady, spaceReady, closed, turns,
                 producer, worker, held, flush>>

-----------------------------------------------------------------------------
(* The send worker: pop, waitForTurn, the attempt, finishTurn. *)

PopSilently(w) ==
  /\ worker[w] = "pop"
  /\ ~closed
  /\ \E e \in items :
       /\ IsHead(e, items)
       /\ items' = items \ {e}
       /\ held' = [held EXCEPT ![w] = e]
  /\ itemReady' = PassItemOn(items')
  /\ worker' = [worker EXCEPT ![w] = "turn"]
  /\ UNCHANGED <<arrivals, spaceReady, closed, turns, producer, canceled, flush>>
PopTake(w) ==
  /\ worker[w] = "pop"
  /\ ~closed
  /\ \E e \in items :
       /\ IsHead(e, items)
       /\ items' = items \ {e}
       /\ held' = [held EXCEPT ![w] = e]
  /\ spaceReady' = TRUE
  /\ itemReady' = PassItemOn(items')
  /\ worker' = [worker EXCEPT ![w] = "turn"]
  /\ UNCHANGED <<arrivals, closed, turns, producer, canceled, flush>>

PopBlock(w) ==
  /\ worker[w] = "pop"
  /\ ~closed
  /\ items = {}
  /\ worker' = [worker EXCEPT ![w] = "wait"]
  /\ UNCHANGED <<items, arrivals, itemReady, spaceReady, closed, turns,
                 producer, canceled, held, flush>>

PopWake(w) ==
  /\ worker[w] = "wait"
  /\ itemReady
  /\ itemReady' = FALSE
  /\ worker' = [worker EXCEPT ![w] = "pop"]
  /\ UNCHANGED <<items, arrivals, spaceReady, closed, turns, producer,
                 canceled, held, flush>>

(* pop reports a closed queue, items or not, and the worker returns. *)
PopClosed(w) ==
  /\ worker[w] \in {"pop", "wait"}
  /\ closed
  /\ worker' = [worker EXCEPT ![w] = "done"]
  /\ UNCHANGED <<items, arrivals, itemReady, spaceReady, closed, turns,
                 producer, canceled, held, flush>>

(* waitForTurn returns.  A ticket whose turn has passed drops the event;    *)
(* TurnsConserved shows that this does not happen.                          *)
SendWithoutTurn(w) ==
  /\ worker[w] = "turn"
  /\ worker' = [worker EXCEPT ![w] = "send"]
  /\ UNCHANGED <<items, arrivals, itemReady, spaceReady, closed, turns,
                 producer, canceled, held, flush>>
WaitForTurn(w) ==
  LET turn == turns[held[w].client].nextTurn
      mine == held[w].order = turn
  IN
  /\ worker[w] = "turn"
  /\ held[w].order <= turn
  /\ worker' = [worker EXCEPT ![w] = IF mine THEN "send" ELSE "pop"]
  /\ held' = [held EXCEPT ![w] = IF mine THEN @ ELSE NoEvent]
  /\ UNCHANGED <<items, arrivals, itemReady, spaceReady, closed, turns,
                 producer, canceled, flush>>

(* The attempt returns and finishTurn passes the turn on. *)
FinishSend(w) ==
  /\ worker[w] = "send"
  /\ turns' = [turns EXCEPT ![held[w].client] = FinishTurn(@, held[w].order)]
  /\ held' = [held EXCEPT ![w] = NoEvent]
  /\ worker' = [worker EXCEPT ![w] = "pop"]
  /\ UNCHANGED <<items, arrivals, itemReady, spaceReady, closed, producer,
                 canceled, flush>>

-----------------------------------------------------------------------------
(* remove drops queued events of one client: all of them, or those that    *)
(* have an ID, and those can be any of them.                               *)
Remove(c, gone) ==
  /\ items' = items \ gone
  /\ turns' = [turns EXCEPT ![c] = CancelTurns(@, OrdersOf(gone, c))]
  /\ spaceReady' = TRUE
  /\ UNCHANGED <<arrivals, itemReady, closed, producer, canceled, worker,
                 held, flush>>

Close ==
  /\ ~closed
  /\ closed' = TRUE
  /\ UNCHANGED <<items, arrivals, itemReady, spaceReady, turns, producer,
                 canceled, worker, held, flush>>

(* Shutdown has waited for the workers and takes the events they left. *)
Drain ==
  /\ closed
  /\ \A w \in Workers : worker[w] = "done"
  /\ items # {}
  /\ flush' = items
  /\ items' = {}
  /\ spaceReady' = TRUE
  /\ UNCHANGED <<arrivals, itemReady, closed, turns, producer, canceled,
                 worker, held>>

(* Shutdown handles the drained events in order: waitForTurn, the last      *)
(* attempt, finishTurn.                                                     *)
FlushHead ==
  \E e \in flush :
     /\ IsHead(e, flush)
     /\ e.order <= turns[e.client].nextTurn
     /\ flush' = flush \ {e}
     /\ turns' = [turns EXCEPT ![e.client] = FinishTurn(@, e.order)]
     /\ UNCHANGED <<items, arrivals, itemReady, spaceReady, closed, producer,
                    canceled, worker, held>>

-----------------------------------------------------------------------------
PushStep(p) == \/ \E c \in Clients : PushAppend(p, c)
               \/ PushBlock(p) \/ PushWake(p) \/ PushFail(p)
WorkerStep(w) == \/ PopTake(w) \/ PopBlock(w) \/ PopWake(w) \/ PopClosed(w)
                 \/ WaitForTurn(w) \/ FinishSend(w)
RemoveSome == \E c \in Clients :
                \E gone \in SUBSET {e \in items : e.client = c} : Remove(c, gone)

Next ==
  \/ \E p \in Producers : PushStart(p) \/ PushStep(p) \/ Cancel(p)
  \/ \E w \in Workers : WorkerStep(w)
  \/ RemoveSome
  \/ Close
  \/ Drain
  \/ FlushHead

Spec == Init /\ [][Next]_vars

(* A goroutine that can take a step is scheduled.  Nobody has to start a    *)
(* push, cancel a context, remove events or close the queue.                *)
Fairness ==
  /\ \A p \in Producers : WF_vars(PushStep(p))
  /\ \A w \in Workers : WF_vars(WorkerStep(w))
  /\ WF_vars(Drain) /\ WF_vars(FlushHead)

FairSpec == Spec /\ Fairness

-----------------------------------------------------------------------------
(* Every variable has its type, and push never grows the queue beyond its   *)
(* capacity (queue.go, push).                                               *)
TypeOK ==
  /\ items \in SUBSET Event
  /\ IsFiniteSet(items) /\ Cardinality(items) <= Capacity
  /\ arrivals \in Nat
  /\ itemReady \in BOOLEAN /\ spaceReady \in BOOLEAN /\ closed \in BOOLEAN
  /\ turns \in [Clients -> Turns]
  /\ producer \in [Producers -> {"idle", "try", "wait"}]
  /\ canceled \in SUBSET Cancelable
  /\ worker \in [Workers -> {"pop", "wait", "turn", "send", "done"}]
  /\ held \in [Workers -> Event \cup {NoEvent}]
  /\ \A w \in Workers : worker[w] \in {"turn", "send"} <=> held[w] # NoEvent
  /\ flush \in SUBSET Event

(* A worker does not sleep in pop on an empty itemReady channel while the   *)
(* open queue holds an event, unless another worker is on its way to take   *)
(* it: one-slot channels lose no wake-up of a consumer.                     *)
NoLostItemWakeup ==
  (items # {} /\ ~closed /\ \E w \in Workers : worker[w] = "wait")
     => (itemReady \/ \E w \in Workers : worker[w] = "pop")

(* The same for push: a producer sleeps on an empty spaceReady channel only *)
(* while the queue is full or another producer, whose context is live, is   *)
(* on its way to use and pass on the free slot.                             *)
NoLostSpaceWakeup ==
  (HasSpace(items) /\ ~closed /\ \E p \in Producers : producer[p] = "wait")
     => (spaceReady \/ \E p \in Producers \ canceled : producer[p] = "try")

Holding == {held[w] : w \in Workers} \ {NoEvent}
InFlight == items \cup Holding \cup flush

(* Tickets are conserved: from the turn on, every ticket handed out is      *)
(* either given up or belongs to exactly the queued, held or drained events *)
(* of the client.  No ticket is lost between push, pop, remove and drain,   *)
(* so no waitForTurn waits for a ticket that nobody will finish, and none   *)
(* returns false.                                                           *)
TurnsConserved ==
  \A c \in Clients :
     LET t == turns[c] IN
     /\ OrdersOf(InFlight, c) \cap t.canceled = {}
     /\ OrdersOf(InFlight, c) \cup t.canceled
          = {n \in 1 .. t.nextOrder : n >= t.nextTurn}

(* A worker that waits for its turn waits for another worker, never for an  *)
(* event that is still queued: the ticket whose turn it is has been popped. *)
TurnHolderIsAWorker ==
  \A w \in Workers :
     (worker[w] = "turn" /\ held[w].order # turns[held[w].client].nextTurn)
       => \E v \in Workers :
             /\ worker[v] \in {"turn", "send"}
             /\ held[v].client = held[w].client
             /\ held[v].order = turns[held[w].client].nextTurn

(* Sends to one client generation that come from the queue are serialized:  *)
(* no two workers are in an attempt for the same client, and the attempt    *)
(* under way is for the oldest event of the client still in the pipeline.   *)
SerializedInQueueOrder ==
  \A w \in Workers :
     worker[w] = "send" =>
       \A e \in InFlight \ {held[w]} :
          e.client = held[w].client => e.at > held[w].at

(* A publisher waits when the send queue is full, not longer: no producer   *)
(* sleeps in push for ever while the queue has space.                       *)
WaitsOnlyWhileFull ==
  \A p \in Producers : []<>~(producer[p] = "wait" /\ HasSpace(items))

(* Every popped event gets its turn. *)
EveryTurnComes ==
  \A w \in Workers : worker[w] = "turn" ~> worker[w] = "send"
=============================================================================
