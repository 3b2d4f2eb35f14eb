------------------------------ MODULE BusState ------------------------------
(***************************************************************************)
(* The state of the event bus (bus.go) and the helpers its steps share.    *)
(* A registration makes a new client object; the objects are numbered in   *)
(* the order of creation and 0 is nil.  A published event is its number.   *)
(* Time is abstract: a scheduled retry may be due at any moment, and the   *)
(* retry queue is the set of its events.  Payloads, listeners and          *)
(* observers are left out.                                                 *)
(*                                                                         *)
(* The lifecycle lock is the mutex per ID of ClientMutex, and push and pop *)
(* block on the queue itself; ClientLock and EventQueue have the code      *)
(* behind both.                                                            *)
(***************************************************************************)
EXTENDS TurnOrder, Sequences, FiniteSets

CONSTANTS ClientIDs, Callers, Workers,
          MaxClients,     \* bound: client objects
          Scenarios,      \* the configurations and applications to consider
          Closer,         \* the goroutine of Close, as the owner of a mutex
          Nobody

(* A scenario has the options given to New, what Connection.Send may return, *)
(* the kinds of calls the application makes, and bounds: goroutines that are *)
(* in a call at a time, client IDs, registrations, published events, and     *)
(* replays to one client object.                                             *)
Scenario ==
  [synchronous : BOOLEAN, replay : BOOLEAN, workers : Nat,
   sendCapacity : Nat \ {0}, retryCapacity : Nat \ {0}, attempts : Nat \ {0},
   outcomes : SUBSET {"ok", "fail", "closed"},
   calls : SUBSET {"register", "complete", "replayFrom", "reuse", "disconnect",
                   "unregister", "replay", "subscribe", "cancel", "close", "noID"},
   callers : Nat, ids : Nat, registrations : Nat, published : Nat, replays : Nat]

ASSUME ScenarioAssumption == Scenarios \subseteq Scenario
ASSUME BoundAssumption ==
  MaxClients \in Nat /\ \A s \in Scenarios : s.registrations <= MaxClients
ASSUME GoroutinesAssumption ==
  /\ Callers \cap (1 .. MaxClients) = {} /\ Workers \cap (Callers \cup 1 .. MaxClients) = {}
  /\ {Closer, Nobody} \cap (Callers \cup Workers \cup 1 .. MaxClients) = {} /\ Closer # Nobody
  /\ Nobody \notin ClientIDs

Client == 1 .. MaxClients
NoClient == 0

VARIABLES options,      \* b.config, with the scenario's application
          clients,      \* b.clients: the registered client of each ID
          client,       \* the client objects
          turns,        \* their send-order tickets
          subs,         \* the IDs subscribed to the event name
          store,        \* the replay store: events retained for each ID
          lifecycle,    \* who has the lifecycle lock of each ID
          sendQueue, retryQueue,
          arrivals,     \* events appended to the send queue so far
          closing,      \* how far Close has come, see Phases below
          caller,       \* goroutines in an API call, and removal goroutines
          worker,       \* the send workers
          scheduler,    \* retryLoop
          closer,       \* the goroutine of Close
          created,      \* client objects made so far
          published,    \* events published so far
          sent          \* what the connection of each client object received

registration == <<clients, subs, store>>
queues == <<sendQueue, retryQueue, arrivals, turns>>
counters == <<created, published>>
vars == <<options, clients, client, turns, subs, store, lifecycle, sendQueue,
          retryQueue, arrivals, closing, caller, worker, scheduler, closer,
          created, published, sent>>

Synchronous == options.synchronous         \* WithSynchronousDelivery
ReplayEnabled == options.replay            \* WithReplay
SendCapacity == options.sendCapacity       \* WithQueueCapacities
RetryCapacity == options.retryCapacity
Attempts == options.attempts               \* WithSendAttempts
Outcomes == options.outcomes
Calls == options.calls
MaxPublished == options.published

(* Phases of Close, in the order of its statements. *)
Open == 0
BusClosed == 1        \* b.closed is set: no registration
SendClosed == 2       \* sendQueue.close()
RetryClosed == 3      \* retryQueue.close()
Stopped == 4          \* close(b.stop)
Flushing == 5         \* after wg.Wait, retryQueue.clear and drain
Retiring == 6         \* the registered clients are retired
ShutdownDone == 7     \* close(b.shutdownDone)

NoEvent == [client |-> NoClient, pub |-> 0, hasID |-> FALSE, generation |-> 0,
            attempts |-> 0, order |-> 0, at |-> 0]

NewClient(i, complete, connection) ==
  [id |-> i, complete |-> complete, connection |-> connection, inactive |-> FALSE,
   connectionClosed |-> FALSE, generation |-> 0, mu |-> Nobody]

(* A goroutine outside any call.  target is the client object it works on,  *)
(* fresh the one it registers, todo the IDs left in handle, and backlog the *)
(* retained events left in a replay.                                        *)
Idle == [pc |-> "idle", op |-> "none", id |-> Nobody, target |-> NoClient,
         fresh |-> NoClient, replay |-> FALSE, cursor |-> 0, event |-> NoEvent,
         todo |-> {}, backlog |-> <<>>]

Init ==
  /\ options \in Scenarios
  /\ clients = [i \in ClientIDs |-> NoClient]
  /\ client = [g \in Client |-> NewClient(Nobody, FALSE, g)]
  /\ turns = [g \in Client |-> NewTurns]
  /\ subs = {}
  /\ store = [i \in ClientIDs |-> <<>>]
  /\ lifecycle = [i \in ClientIDs |-> Nobody]
  /\ sendQueue = {}
  /\ retryQueue = {}
  /\ arrivals = 0
  /\ closing = Open
  /\ caller = [p \in Callers \cup Client |-> Idle]
  /\ \E started \in SUBSET Workers :
       /\ Cardinality(started) = IF Synchronous THEN 0 ELSE options.workers
       /\ worker = [w \in Workers |-> [pc |-> IF w \in started THEN "pop" ELSE "done",
                                       event |-> NoEvent, inTurn |-> FALSE]]
  /\ scheduler = [pc |-> IF Synchronous THEN "done" ELSE "poll", event |-> NoEvent]
  /\ closer = [pc |-> "idle", event |-> NoEvent, flush |-> {}, retire |-> {}]
  /\ created = 0
  /\ published = 0
  /\ sent = [g \in Client |-> <<>>]

-----------------------------------------------------------------------------
(* isCurrentEvent: the event's client is still the registered one, and no   *)
(* replay has superseded an event with an ID.                               *)
IsCurrentEvent(e) ==
  /\ clients[client[e.client].id] = e.client
  /\ e.hasID => e.generation = client[e.client].generation

IsActive(g) == ~client[g].inactive

(* Where an event stands after push. *)
Stamped(e) == [e EXCEPT !.order = turns[e.client].nextOrder + 1, !.at = arrivals]

PushEvent(e) ==
  /\ closing < SendClosed
  /\ Cardinality(sendQueue) < SendCapacity
  /\ turns' = [turns EXCEPT ![e.client] = AssignOrder(@)]
  /\ sendQueue' = sendQueue \cup {Stamped(e)}
  /\ arrivals' = arrivals + 1

IsHead(e, queue) == \A f \in queue : e.at <= f.at

(* send, up to the call of Connection.Send: client.mu is taken, inactive is *)
(* checked under it, and the attempt is counted.                            *)
MuFree(g) == client[g].mu = Nobody
MaySendAnyway(g) == TRUE
MaySend(g) == IsActive(g)
BeginSend(g, owner) == client' = [client EXCEPT ![g].mu = owner]
Attempted(e) == [e EXCEPT !.attempts = @ + 1]

(* What Send may return: a connection that was closed reports it. *)
ConnectionClosed(k) ==
  \E g \in Client : client[g].connection = k /\ client[g].connectionClosed
SendOutcomes(g) ==
  IF ConnectionClosed(client[g].connection) THEN {"closed"} ELSE Outcomes

(* send, from the return of Connection.Send on: a completed or lost         *)
(* connection is closed and its client becomes inactive.                    *)
EndsWhenLost(g, o) == o = "closed"
EndsConnection(g, o) == o = "closed" \/ (o = "ok" /\ client[g].complete)
EndSend(e, o) ==
  LET g == e.client
      ends == EndsConnection(g, o)
  IN
  /\ client' = [client EXCEPT ![g].mu = Nobody,
                              ![g].inactive = @ \/ ends,
                              ![g].connectionClosed = @ \/ ends]
  /\ sent' = [sent EXCEPT ![g] = IF o = "ok" THEN Append(@, e.pub) ELSE @]

(* EventsSince: the retained events after the latest occurrence of cursor,  *)
(* all of them when there is none.  Events are numbered, so each occurs     *)
(* once in a history.                                                       *)
EventsSince(history, cursor) ==
  IF \E n \in DOMAIN history : history[n] = cursor
  THEN SubSeq(history, (CHOOSE n \in DOMAIN history : history[n] = cursor) + 1,
              Len(history))
  ELSE history
=============================================================================
