-------------------------------- MODULE Bus --------------------------------
(***************************************************************************)
(* The event bus: the calls of the application and the background          *)
(* goroutines together, and what they guarantee.                           *)
(***************************************************************************)
EXTENDS BusCalls, BusDelivery

(* The connections a registration may bring: a new one, or, when the        *)
(* application does that, the one the ID is registered with.                *)
Connections(i) ==
  {created + 1} \cup
    (IF "reuse" \in Calls /\ clients[i] # NoClient
     THEN {client[clients[i]].connection} ELSE {})

(* The last event any connection of the ID received: what an EventSource    *)
(* sends as Last-Event-ID.  0 stands for an empty cursor.                   *)
ReceivedBy(i) ==
  UNION {{sent[g][n] : n \in DOMAIN sent[g]} : g \in {h \in Client : client[h].id = i}}
LastReceived(i) ==
  LET gs == {h \in Client : client[h].id = i /\ sent[h] # <<>>} IN
  IF gs = {} THEN 0
  ELSE LET g == CHOOSE h \in gs : \A k \in gs : k <= h IN sent[g][Len(sent[g])]

(* Within the bounds of the scenario the application may start a call, and  *)
(* register an ID.                                                          *)
MayCall == Cardinality({q \in Callers : caller[q].pc # "idle"}) < options.callers
MayRegister(i) ==
  Cardinality({client[g].id : g \in 1 .. created} \cup {i}) <= options.ids

StartCall(p) ==
  /\ MayCall
  /\ \/ \E i \in ClientIDs, complete, replay \in BOOLEAN : \E k \in Connections(i) :
          /\ "register" \in Calls /\ MayRegister(i)
          /\ complete => "complete" \in Calls
          /\ replay <=> "replayFrom" \in Calls
          /\ Register(p, i, complete, replay, LastReceived(i), k)
     \/ \E i \in ClientIDs :
          \/ "disconnect" \in Calls /\ Disconnect(p, i)
          \/ "unregister" \in Calls /\ UnregisterCall(p, i)
          \/ "replay" \in Calls /\ ReplayMissedEvents(p, i, LastReceived(i))
     \/ \E ids \in SUBSET subs \ {{}}, hasID \in BOOLEAN :
          /\ "noID" \in Calls \/ (hasID <=> ReplayEnabled)
          /\ Publish(p, ids, hasID)

ContinueCall(p) ==
  \/ SetInactive(p) \/ CloseConnection(p)
  \/ RemoveFromSend(p) \/ RemoveFromRetry(p) \/ Install(p)
  \/ PushCall(p) \/ (closing >= SendClosed /\ PushFails(p))
  \/ (\E i \in ClientIDs : SkipClient(p, i)) \/ (closing >= Stopped /\ HandleFails(p))
  \/ CallSend(p) \/ (\E o \in Outcomes : CallSent(p, o))
  \/ ReplayLocked(p) \/ ReplayNext(p)

TakeLock(p) == DisconnectLocked(p) \/ ReplayEnter(p) \/ \E i \in ClientIDs : HandleClient(p, i)

WorkerStep(w) ==
  \/ Pop(w) \/ PopClosed(w) \/ WaitForTurn(w) \/ Attempt(w) \/ SendBegin(w)
  \/ (\E o \in Outcomes : SendEnd(w, o)) \/ AfterFailure(w) \/ Exhaust(w) \/ Schedule(w) \/ RetryDue(w)

SchedulerStep == PopDue \/ PushRetry \/ SchedulerReturns

ShutdownStep ==
  \/ closing > Open /\ CloseStep
  \/ Drain \/ FlushNext \/ FlushSend \/ (\E o \in Outcomes : FlushSent(o))
  \/ RetireAll \/ RetireNext \/ RetireClose \/ FinishShutdown

(* The bus is at rest: nobody is in a call and nothing is pending.  It may  *)
(* stay so; in any other state somebody must be able to take a step.        *)
Rest ==
  /\ closing \in {Open, ShutdownDone}
  /\ \A p \in Callers \cup Client : caller[p].pc = "idle"
  /\ \A w \in Workers : worker[w].pc \in {"pop", "done"}
  /\ scheduler.pc \in {"poll", "done"}
  /\ sendQueue = {} /\ retryQueue = {}
  /\ UNCHANGED vars

Next ==
  \/ Rest
  \/ \E p \in Callers : StartCall(p) \/ TakeLock(p) \/ PushFails(p) \/ HandleFails(p)
  \/ \E p \in Callers \cup Client : ContinueCall(p)
  \/ \E g \in Client : Removal(g)
  \/ "subscribe" \in Calls /\ \E i \in ClientIDs : SetSubscribed(subs \cup {i}) \/ SetSubscribed(subs \ {i})
  \/ \E w \in Workers : WorkerStep(w)
  \/ SchedulerStep
  \/ "close" \in Calls /\ CloseStep
  \/ ShutdownStep

Spec == Init /\ [][Next]_vars

(* Goroutines that can take a step are scheduled, the lifecycle lock is     *)
(* granted first come, first served (ClientLock), Connection.Send returns,  *)
(* and a retry comes due.  Nobody has to start a call, to cancel a context  *)
(* or to close the bus.                                                     *)
Fairness ==
  /\ \A p \in Callers \cup Client : WF_vars(ContinueCall(p))
  /\ \A p \in Callers : SF_vars(TakeLock(p))
  /\ \A g \in Client : SF_vars(Removal(g))
  /\ \A w \in Workers : WF_vars(WorkerStep(w))
  /\ WF_vars(SchedulerStep)
  /\ WF_vars(ShutdownStep)

FairSpec == Spec /\ Fairness

-----------------------------------------------------------------------------
Event == [client : 0 .. MaxClients, pub : 0 .. MaxPublished, hasID : BOOLEAN,
          generation : Nat, attempts : 0 .. Attempts, order : Nat, at : Nat]

(* Every variable has its type; in particular the queues keep within their  *)
(* capacities and no event is sent more than Attempts times.                *)
TypeOK ==
  /\ options \in Scenarios
  /\ clients \in [ClientIDs -> 0 .. MaxClients]
  /\ client \in [Client -> [id : ClientIDs \cup {Nobody}, complete : BOOLEAN,
                           connection : Client, inactive : BOOLEAN,
                           connectionClosed : BOOLEAN, generation : Nat,
                           mu : Callers \cup Client \cup Workers \cup {Closer, Nobody}]]
  /\ turns \in [Client -> Turns]
  /\ subs \in SUBSET ClientIDs
  /\ \A i \in ClientIDs : store[i] \in Seq(1 .. MaxPublished)
  /\ lifecycle \in [ClientIDs -> Callers \cup Client \cup {Nobody}]
  /\ sendQueue \in SUBSET Event /\ Cardinality(sendQueue) <= SendCapacity
  /\ retryQueue \in SUBSET Event /\ Cardinality(retryQueue) <= RetryCapacity
  /\ arrivals \in Nat
  /\ closing \in Open .. ShutdownDone
  /\ \A w \in Workers : worker[w].event \in Event
  /\ scheduler.event \in Event /\ closer.event \in Event
  /\ \A p \in Callers \cup Client : caller[p].event \in Event
  /\ created \in 0 .. MaxClients /\ published \in 0 .. MaxPublished
  /\ \A g \in Client : sent[g] \in Seq(1 .. MaxPublished)

(* Connection.Send never runs on a connection that the bus has closed: send *)
(* checks inactive under client.mu, and whoever closes sets inactive first. *)
NoSendAfterClose ==
  \A g \in Client : client[g].connectionClosed => MuFree(g)

(* CompleteAfterMessage: the connection receives at most one event, however *)
(* many workers, publishers and replays send to it.                         *)
CompletesAfterOne ==
  \A g \in Client : client[g].complete => Len(sent[g]) <= 1

(* The events that were queued and that nobody is done with. *)
Held(r, states) == IF r.pc \in states THEN {r.event} ELSE {}
InTurn ==
  sendQueue \cup closer.flush \cup Held(closer, {"send", "sending"})
    \cup UNION {IF worker[w].inTurn THEN {worker[w].event} ELSE {} : w \in Workers}
Queued ==
  InTurn \cup retryQueue \cup Held(scheduler, {"push"})
    \cup UNION {Held(worker[w], {"turn", "attempt", "send", "sending", "failed",
                                 "exhausted", "schedule", "pending"}) : w \in Workers}

(* Retained history belongs to registered clients: unregister clears it,    *)
(* and no publisher that was on its way to the client adds to it after.     *)
HistoryOnlyWhileRegistered ==
  \A i \in ClientIDs :
     (clients[i] = NoClient /\ lifecycle[i] = Nobody) => store[i] = <<>>

(* No connection is leaked: the bus has closed it, or it belongs to a       *)
(* registered client or to one that a call is still dealing with.  Once     *)
(* shutdown is done being registered is no excuse.                          *)
DealtWith(g) ==
  \E p \in Callers \cup Client :
     /\ caller[p].op \in {"register", "disconnect", "unregister"}
     /\ caller[p].pc \notin {"disconnect", "spawned"}
     /\ g \in {caller[p].target, caller[p].fresh}
NoConnectionLeak ==
  \A g \in 1 .. created :
     \/ ConnectionClosed(client[g].connection)
     \/ \E h \in 1 .. created :
          /\ client[h].connection = client[g].connection
          /\ DealtWith(h) \/ (clients[client[h].id] = h /\ closing < ShutdownDone)

(* After shutdown the queues are empty and no registered client is sent to. *)
ShutdownClean ==
  closing = ShutdownDone =>
     /\ sendQueue = {} /\ retryQueue = {}
     /\ \A i \in ClientIDs :
          clients[i] # NoClient => ~IsActive(clients[i]) /\ MuFree(clients[i])

(* An event with an ID has one live copy: replay supersedes the queued ones *)
(* before it queues the retained ones.                                      *)
Copies == {<<"send", e>> : e \in sendQueue} \cup {<<"retry", e>> : e \in retryQueue}
            \cup {<<"scheduler", e>> : e \in Held(scheduler, {"push"})}
            \cup UNION {{<<w, e>> : e \in Held(worker[w], {"turn", "attempt", "send",
                         "sending", "failed", "exhausted", "schedule", "pending"})} : w \in Workers}
QueuedOnce ==
  \A x, y \in Copies :
     LET e == x[2]
         f == y[2]
     IN  (e.hasID /\ e.client = f.client /\ e.pub = f.pub
            /\ IsCurrentEvent(e) /\ IsCurrentEvent(f)) => x = y

(* Delivery across a disconnect is at least once: a retained event has been *)
(* received, or is on its way to the registered client, or a registration   *)
(* that replays from the last event received brings it.                     *)
OnItsWay(i) ==
  {e.pub : e \in {f \in Queued : clients[i] = f.client /\ IsActive(f.client)}}
    \cup {caller[p].event.pub : p \in {q \in Callers : /\ caller[q].pc \in {"push", "send", "sending"}
                                                       /\ caller[q].id = i
                                                       /\ IsActive(caller[q].target)}}
AtLeastOnce ==
  \A i \in ClientIDs :
     (lifecycle[i] = Nobody /\ closing = Open) =>
       LET missed == EventsSince(store[i], LastReceived(i)) IN
       \A n \in DOMAIN store[i] :
          store[i][n] \in ReceivedBy(i) \cup OnItsWay(i) \cup {missed[m] : m \in DOMAIN missed}

-----------------------------------------------------------------------------
(* A registered client leaves the map only because a registration replaces  *)
(* it, because Unregister is called, or because its own attempts were       *)
(* exhausted: stale work cannot remove a replacement.                       *)
OnlyOwnFailureRemoves ==
  [][\A i \in ClientIDs :
       (clients[i] # NoClient /\ clients'[i] # clients[i]) =>
          \/ clients'[i] > clients[i]
          \/ \E p \in Callers : caller[p].pc = "idle" /\ caller'[p].op = "unregister"
          \/ caller[clients[i]].pc = "spawned"]_vars

(* Registering again with the connection in use does not close it: while    *)
(* the bus is open, no client object other than the newest with a           *)
(* connection closes it, unless its Send found it lost (replaceWith,        *)
(* sameConnection).                                                         *)
ReusedConnectionStaysOpen ==
  [][\A g \in Client :
       (/\ closing = Open /\ MuFree(g)
        /\ ~client[g].connectionClosed /\ client'[g].connectionClosed) =>
          \A h \in g + 1 .. created : client[h].connection # client[g].connection]_vars

(* A queued event that was never attempted is dropped only when its client  *)
(* is inactive or it is stale: the queue, the turns and the flush of Close  *)
(* lose nothing.                                                            *)
NoSilentDrop ==
  [][\A e \in Queued :
       (e.attempts = 0 /\ \A f \in Queued' : f.at # e.at)
          => ~(IsCurrentEvent(e) /\ IsActive(e.client))]_vars

(* Every call returns, also while both queues are full, publishers hold     *)
(* lifecycle locks and clients are being removed.                           *)
CallsReturn ==
  \A p \in Callers \cup Client : caller[p].pc # "idle" ~> caller[p].pc = "idle"

(* Close comes to an end. *)
CloseReturns == closing > Open ~> closing = ShutdownDone

(* A client that exhausted its attempts is removed, if not replaced. *)
ExhaustedIsRemoved ==
  \A g \in Client : caller[g].pc = "spawned" ~> \A i \in ClientIDs : clients[i] # g
=============================================================================
