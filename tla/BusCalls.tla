------------------------------ MODULE BusCalls ------------------------------
(***************************************************************************)
(* The calls of the application: Register, Disconnect, Unregister,         *)
(* Subscribe, Unsubscribe, Publish and ReplayMissedEvents (bus.go), and    *)
(* the goroutines that unregister a client whose attempts are exhausted.   *)
(* A call takes the lifecycle lock of its ID and keeps it over its steps;  *)
(* workers, the retry scheduler and Close run in between.  Calls that      *)
(* return without changing anything are not steps.                         *)
(***************************************************************************)
EXTENDS BusState

delivery == <<options, worker, scheduler, closer, closing>>

Enter(p, i, c) ==
  /\ lifecycle[i] = Nobody
  /\ lifecycle' = [lifecycle EXCEPT ![i] = p]
  /\ caller' = [caller EXCEPT ![p] = c]

Goto(p, pc) ==
  /\ caller' = [caller EXCEPT ![p].pc = pc]
  /\ UNCHANGED lifecycle

(* unlock and return. *)
Return(p) ==
  /\ caller' = [caller EXCEPT ![p] = Idle]
  /\ lifecycle' = [lifecycle EXCEPT ![caller[p].id] = Nobody]

GotoOrReturn(p, pc) == IF pc = "idle" THEN Return(p) ELSE Goto(p, pc)

-----------------------------------------------------------------------------
(* RegisterContext: the client object is made; an existing one is replaced  *)
(* first.  A call with ReplayFrom passes a cursor.                          *)
Register(p, i, complete, replay, cursor, connection) ==
  LET g == created + 1 IN
  /\ caller[p].pc = "idle"
  /\ closing = Open
  /\ created < options.registrations
  /\ created' = g
  /\ client' = [client EXCEPT ![g] = NewClient(i, complete, connection)]
  /\ Enter(p, i, [Idle EXCEPT !.pc = IF clients[i] = NoClient THEN "install" ELSE "retire",
                              !.op = "register", !.id = i, !.target = clients[i],
                              !.fresh = g, !.replay = replay, !.cursor = cursor])
  /\ UNCHANGED <<registration, queues, delivery, published, sent>>

(* retire and replaceWith set inactive before they wait for client.mu. *)
SetInactive(p) ==
  /\ caller[p].pc = "retire"
  /\ client' = [client EXCEPT ![caller[p].target].inactive = TRUE]
  /\ Goto(p, "close")
  /\ UNCHANGED <<registration, queues, delivery, counters, sent>>

(* The section under client.mu, and the Close of the connection.  A         *)
(* registration with the same connection does not close it.                 *)
KeepsAlways(c) == c.op = "register"
KeepsNever(c) == FALSE
KeepsConnection(c) ==
  c.op = "register" /\ client[c.fresh].connection = client[c.target].connection

CloseConnection(p) ==
  LET c == caller[p] IN
  /\ c.pc = "close"
  /\ MuFree(c.target)
  /\ client' = [client EXCEPT ![c.target].connectionClosed = @ \/ ~KeepsConnection(c)]
  /\ GotoOrReturn(p, IF c.op = "unregister" THEN "idle" ELSE "removeSend")
  /\ UNCHANGED <<registration, queues, delivery, counters, sent>>

(* removePending, first on the send queue, then on the retry queue.  A      *)
(* replay removes only the events that have an ID.                          *)
AllPending(c, e) == e.client = c.target
PendingMatch(c, e) == e.client = c.target /\ (c.target = c.fresh => e.hasID)
Pending(c, queue) == {e \in queue : PendingMatch(c, e)}

RemoveFromSend(p) ==
  LET c == caller[p]
      gone == Pending(c, sendQueue)
  IN
  /\ c.pc = "removeSend"
  /\ sendQueue' = sendQueue \ gone
  /\ turns' = [turns EXCEPT ![c.target] = CancelTurns(@, {e.order : e \in gone})]
  /\ Goto(p, "removeRetry")
  /\ UNCHANGED <<registration, client, retryQueue, arrivals, delivery, counters, sent>>

AfterRemove(c) ==
  CASE c.op = "disconnect" -> "idle"
    [] c.op = "unregister" -> "retire"
    [] c.op \in {"register", "replay"} /\ c.target = c.fresh -> "backlog"
    [] OTHER               -> "install"

(* With the pending events gone, unregister clears the history of the       *)
(* client, and a replay reads it.                                           *)
HistoryStays(c) == FALSE
ClearsHistory(c) == c.op = "unregister"

RemoveFromRetry(p) ==
  LET c == caller[p] IN
  /\ c.pc = "removeRetry"
  /\ retryQueue' = retryQueue \ Pending(c, retryQueue)
  /\ store' = IF ClearsHistory(c) THEN [store EXCEPT ![c.id] = <<>>] ELSE store
  /\ IF AfterRemove(c) = "backlog"
     THEN /\ caller' = [caller EXCEPT ![p].pc = "backlog",
                                      ![p].backlog = EventsSince(store[c.id], c.cursor)]
          /\ UNCHANGED lifecycle
     ELSE GotoOrReturn(p, AfterRemove(c))
  /\ UNCHANGED <<clients, subs, client, sendQueue, arrivals, turns, delivery, counters, sent>>

(* The subscription is made and the client installed, unless the bus was    *)
(* closed meanwhile: then the new connection is closed.                     *)
ClosedIgnored == FALSE
ClosedMeanwhile == closing >= BusClosed

Install(p) ==
  LET c == caller[p] IN
  /\ c.pc = "install"
  /\ subs' = subs \cup {c.id}
  /\ IF ClosedMeanwhile
     THEN /\ client' = [client EXCEPT ![c.fresh].inactive = TRUE,
                                      ![c.fresh].connectionClosed = TRUE]
          /\ Return(p)
          /\ UNCHANGED clients
     ELSE /\ clients' = [clients EXCEPT ![c.id] = c.fresh]
          /\ GotoOrReturn(p, IF c.replay THEN "replay" ELSE "idle")
          /\ UNCHANGED client
  /\ UNCHANGED <<store, queues, delivery, counters, sent>>

-----------------------------------------------------------------------------
(* Disconnect reads the client without the lock and looks again with it. *)
Disconnect(p, i) ==
  /\ caller[p].pc = "idle"
  /\ clients[i] # NoClient
  /\ caller' = [caller EXCEPT ![p] = [Idle EXCEPT !.pc = "disconnect",
                   !.op = "disconnect", !.id = i, !.target = clients[i]]]
  /\ UNCHANGED <<registration, client, lifecycle, queues, delivery, counters, sent>>

DisconnectLocked(p) ==
  LET c == caller[p] IN
  /\ c.pc = "disconnect"
  /\ lifecycle[c.id] = Nobody
  /\ IF clients[c.id] = c.target
     THEN Enter(p, c.id, [c EXCEPT !.pc = "retire"])
     ELSE Return(p)
  /\ UNCHANGED <<registration, client, queues, delivery, counters, sent>>

(* unregister deletes the client and then its subscriptions.  Publishers    *)
(* look at both, so a moment in which only one is gone changes nothing.     *)
Unregister(p, i) ==
  /\ clients[i] # NoClient
  /\ Enter(p, i, [Idle EXCEPT !.pc = "removeSend", !.op = "unregister", !.id = i,
                              !.target = clients[i]])
  /\ clients' = [clients EXCEPT ![i] = NoClient]
  /\ subs' = subs \ {i}
  /\ UNCHANGED <<store, client, queues, delivery, counters, sent>>

UnregisterCall(p, i) == caller[p].pc = "idle" /\ Unregister(p, i)

(* The goroutine that attempt started for client object g: it unregisters   *)
(* the ID only if g is still registered.                                    *)
RemoveRegistered(g) == Unregister(g, client[g].id)
RemoveActive(g) ==
  IF clients[client[g].id] = g /\ IsActive(g)
  THEN Unregister(g, client[g].id)
  ELSE /\ lifecycle[client[g].id] = Nobody
       /\ Return(g)
       /\ UNCHANGED <<registration, client, queues, delivery, counters, sent>>
RemoveExhausted(g) ==
  IF clients[client[g].id] = g
  THEN Unregister(g, client[g].id)
  ELSE /\ lifecycle[client[g].id] = Nobody
       /\ Return(g)
       /\ UNCHANGED <<registration, client, queues, delivery, counters, sent>>

Removal(g) == caller[g].pc = "spawned" /\ RemoveExhausted(g)

SetSubscribed(ids) ==
  /\ subs' = ids
  /\ subs' # subs
  /\ UNCHANGED <<clients, client, store, lifecycle, queues, delivery, caller, counters, sent>>

-----------------------------------------------------------------------------
(* Publish.  ids are the subscribers the event is meant for. *)
Publish(p, ids, hasID) ==
  /\ caller[p].pc = "idle"
  /\ closing < Stopped
  /\ published < MaxPublished
  /\ published' = published + 1
  /\ caller' = [caller EXCEPT ![p] = [Idle EXCEPT !.pc = "handle", !.op = "publish",
                   !.todo = ids, !.event = [NoEvent EXCEPT !.pub = published + 1, !.hasID = hasID]]]
  /\ UNCHANGED <<registration, client, lifecycle, queues, delivery, created, sent>>

(* handle is done with ID i and turns to the next one, or returns. *)
Handled(c, i) ==
  IF c.todo \subseteq {i} THEN Idle
  ELSE [Idle EXCEPT !.pc = "handle", !.op = "publish", !.todo = c.todo \ {i},
                    !.event = [NoEvent EXCEPT !.pub = c.event.pub, !.hasID = c.event.hasID]]

(* The loop in handle skips an ID that is not subscribed or has no client,  *)
(* before it waits for the lifecycle lock or with the lock.                 *)
SkipClient(p, i) ==
  /\ caller[p].pc = "handle"
  /\ i \in caller[p].todo
  /\ i \notin subs \/ clients[i] = NoClient
  /\ caller' = [caller EXCEPT ![p] = Handled(caller[p], i)]
  /\ UNCHANGED <<registration, client, lifecycle, queues, delivery, counters, sent>>

(* handle returns: the bus has stopped, or the context was cancelled while  *)
(* it waited for the lock.                                                  *)
HandleFails(p) ==
  /\ caller[p].pc = "handle"
  /\ \/ closing >= Stopped /\ \E i \in caller[p].todo : lifecycle[i] = Nobody
     \/ "cancel" \in Calls
  /\ caller' = [caller EXCEPT ![p] = Idle]
  /\ UNCHANGED <<registration, client, lifecycle, queues, delivery, counters, sent>>

(* One round of the loop with the lock: the event is retained, and for an   *)
(* active client the event is made.  An asynchronous bus keeps the lock     *)
(* while it pushes; a synchronous one sends without it.                     *)
HandleClient(p, i) ==
  LET c == caller[p]
      g == clients[i]
      e == [c.event EXCEPT !.client = g, !.generation = client[g].generation]
      retained == [store EXCEPT ![i] = Append(@, c.event.pub)]
  IN
  /\ c.pc = "handle"
  /\ i \in c.todo
  /\ lifecycle[i] = Nobody
  /\ i \in subs /\ g # NoClient
  /\ closing < Stopped
  /\ store' = IF ReplayEnabled /\ c.event.hasID THEN retained ELSE store
  /\ caller' = [caller EXCEPT ![p] =
       IF ~IsActive(g) THEN Handled(c, i)
       ELSE [c EXCEPT !.pc = IF Synchronous THEN "send" ELSE "push",
                      !.id = i, !.target = g, !.event = e]]
  /\ lifecycle' = IF IsActive(g) /\ ~Synchronous
                  THEN [lifecycle EXCEPT ![i] = p] ELSE lifecycle
  /\ UNCHANGED <<clients, subs, client, queues, delivery, counters, sent>>

(* push returned nil: handle unlocks and goes on; a replay goes on. *)
PushCall(p) ==
  LET c == caller[p] IN
  /\ c.pc = "push"
  /\ PushEvent(c.event)
  /\ IF c.op = "publish"
     THEN /\ caller' = [caller EXCEPT ![p] = Handled(c, c.id)]
          /\ lifecycle' = [lifecycle EXCEPT ![c.id] = Nobody]
     ELSE Goto(p, "backlog")
  /\ UNCHANGED <<registration, client, retryQueue, delivery, counters, sent>>

(* push failed, because the queue was closed or the context cancelled, or   *)
(* replayMissedEventsLocked found it cancelled: the call returns the error. *)
PushFailsWhenCanceled(p) ==
  /\ caller[p].pc \in {"push", "replay"} /\ "cancel" \in Calls
  /\ Return(p)
  /\ UNCHANGED <<registration, client, queues, delivery, counters, sent>>
PushFails(p) ==
  /\ \/ caller[p].pc = "push" /\ (closing >= SendClosed \/ "cancel" \in Calls)
     \/ caller[p].pc = "replay" /\ "cancel" \in Calls
  /\ Return(p)
  /\ UNCHANGED <<registration, client, queues, delivery, counters, sent>>

(* send in the calling goroutine.  Publishing goes on with the next ID,     *)
(* and a replay to a client that turned inactive stops at the next event.   *)
CallSend(p) ==
  LET c == caller[p] IN
  /\ c.pc = "send"
  /\ MuFree(c.target)
  /\ IF MaySend(c.target)
     THEN /\ BeginSend(c.target, p)
          /\ caller' = [caller EXCEPT ![p].pc = "sending", ![p].event = Attempted(@)]
     ELSE /\ caller' = [caller EXCEPT ![p] =
               IF c.op = "publish" THEN Handled(c, c.id) ELSE [c EXCEPT !.pc = "backlog"]]
          /\ UNCHANGED client
  /\ UNCHANGED <<registration, lifecycle, queues, delivery, counters, sent>>

CallSent(p, o) ==
  LET c == caller[p] IN
  /\ c.pc = "sending"
  /\ o \in SendOutcomes(c.target)
  /\ EndSend(c.event, o)
  /\ caller' = [caller EXCEPT ![p] =
       IF c.op = "publish" THEN Handled(c, c.id) ELSE [c EXCEPT !.pc = "backlog"]]
  /\ UNCHANGED <<registration, lifecycle, queues, delivery, counters>>

-----------------------------------------------------------------------------
(* ReplayMissedEvents looks at the stop channel, waits for the lock and runs *)
(* replayMissedEventsLocked on the client it finds then.                    *)
ReplayMissedEvents(p, i, cursor) ==
  /\ caller[p].pc = "idle"
  /\ ReplayEnabled
  /\ closing < Stopped
  /\ clients[i] # NoClient
  /\ client[clients[i]].generation < options.replays
  /\ caller' = [caller EXCEPT ![p] = [Idle EXCEPT !.pc = "replayWait",
                   !.op = "replay", !.id = i, !.replay = TRUE, !.cursor = cursor]]
  /\ UNCHANGED <<registration, client, lifecycle, queues, delivery, counters, sent>>

ReplayEnter(p) ==
  LET c == caller[p] IN
  /\ c.pc = "replayWait"
  /\ lifecycle[c.id] = Nobody
  /\ IF clients[c.id] # NoClient
     THEN Enter(p, c.id, [c EXCEPT !.pc = "replay", !.fresh = clients[c.id]])
     ELSE Return(p)
  /\ UNCHANGED <<registration, client, queues, delivery, counters, sent>>

(* replayMissedEventsLocked: a new generation makes the queued copies of    *)
(* retained events stale before they are removed.                           *)
SameGeneration(n) == n
NextGeneration(n) == n + 1

ReplayLocked(p) ==
  LET g == caller[p].fresh IN
  /\ caller[p].pc = "replay"
  /\ IF ReplayEnabled /\ IsActive(g)
     THEN /\ client' = [client EXCEPT ![g].generation = NextGeneration(@)]
          /\ caller' = [caller EXCEPT ![p].pc = "removeSend", ![p].target = g]
          /\ UNCHANGED lifecycle
     ELSE Return(p) /\ UNCHANGED client
  /\ UNCHANGED <<registration, queues, delivery, counters, sent>>

(* The events of the replay carry the new generation. *)
GenerationBefore(g) == client[g].generation - 1
ReplayGeneration(g) == client[g].generation

(* One round of the replay loop: an inactive client ends it, an event the   *)
(* client is not subscribed to is skipped.                                  *)
ReplayNext(p) ==
  LET c == caller[p]
      e == [NoEvent EXCEPT !.client = c.target, !.pub = Head(c.backlog), !.hasID = TRUE,
                           !.generation = ReplayGeneration(c.target)]
  IN
  /\ c.pc = "backlog"
  /\ IF c.backlog = <<>> \/ ~IsActive(c.target)
     THEN Return(p)
     ELSE /\ caller' = [caller EXCEPT ![p] =
               [c EXCEPT !.backlog = Tail(@),
                         !.pc = IF c.id \notin subs THEN "backlog"
                                ELSE IF Synchronous THEN "send" ELSE "push",
                         !.event = IF c.id \notin subs THEN NoEvent ELSE e]]
          /\ UNCHANGED lifecycle
  /\ UNCHANGED <<registration, client, queues, delivery, counters, sent>>
=============================================================================
