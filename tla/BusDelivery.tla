---------------------------- MODULE BusDelivery ----------------------------
(***************************************************************************)
(* The background half of the bus (bus.go): the send workers with attempt  *)
(* and send, the retry scheduler, and the shutdown that Close starts.      *)
(***************************************************************************)
EXTENDS BusState

calls == <<options, clients, subs, store, lifecycle, counters>>
others == <<calls, caller, closing, closer>>

SetWorker(w, r) == worker' = [worker EXCEPT ![w] = r]
AtPop == [pc |-> "pop", event |-> NoEvent, inTurn |-> FALSE]
Returned == [AtPop EXCEPT !.pc = "done"]

Pop(w) ==
  /\ worker[w].pc = "pop"
  /\ closing < SendClosed
  /\ \E e \in sendQueue :
       /\ IsHead(e, sendQueue)
       /\ sendQueue' = sendQueue \ {e}
       /\ SetWorker(w, [pc |-> "turn", event |-> e, inTurn |-> TRUE])
  /\ UNCHANGED <<others, client, turns, retryQueue, arrivals, scheduler, sent>>

PopClosed(w) ==
  /\ worker[w].pc = "pop"
  /\ closing >= SendClosed
  /\ SetWorker(w, Returned)
  /\ UNCHANGED <<others, client, queues, scheduler, sent>>

(* waitForTurn returns; an event whose turn has passed is dropped. *)
WaitForTurn(w) ==
  LET e == worker[w].event
      turn == turns[e.client].nextTurn
  IN
  /\ worker[w].pc = "turn"
  /\ e.order <= turn
  /\ SetWorker(w, IF e.order = turn THEN [worker[w] EXCEPT !.pc = "attempt"] ELSE AtPop)
  /\ UNCHANGED <<others, client, queues, scheduler, sent>>

(* The end of a round of the worker's loop: an event that came from the     *)
(* queue finishes its turn.  With retry the event goes on to be scheduled.  *)
EndRound(w, retry) ==
  LET r == worker[w] IN
  /\ turns' = IF r.inTurn
              THEN [turns EXCEPT ![r.event.client] = FinishTurn(@, r.event.order)]
              ELSE turns
  /\ SetWorker(w, IF retry THEN [r EXCEPT !.pc = "schedule", !.inTurn = FALSE] ELSE AtPop)
  /\ UNCHANGED <<sendQueue, retryQueue, arrivals>>

(* attempt: stale work is dropped without a send. *)
Attempt(w) ==
  LET e == worker[w].event IN
  /\ worker[w].pc = "attempt"
  /\ IF IsCurrentEvent(e) /\ IsActive(e.client)
     THEN /\ SetWorker(w, [worker[w] EXCEPT !.pc =
                              IF e.attempts < Attempts THEN "send" ELSE "exhausted"])
          /\ UNCHANGED queues
     ELSE EndRound(w, FALSE)
  /\ UNCHANGED <<others, client, scheduler, sent>>

(* send takes client.mu and checks inactive again under it. *)
SendBegin(w) ==
  LET e == worker[w].event IN
  /\ worker[w].pc = "send"
  /\ MuFree(e.client)
  /\ IF MaySend(e.client)
     THEN /\ BeginSend(e.client, w)
          /\ SetWorker(w, [worker[w] EXCEPT !.pc = "sending", !.event = Attempted(@)])
          /\ UNCHANGED queues
     ELSE EndRound(w, FALSE) /\ UNCHANGED client
  /\ UNCHANGED <<others, scheduler, sent>>

SendEnd(w, o) ==
  LET e == worker[w].event IN
  /\ worker[w].pc = "sending"
  /\ o \in SendOutcomes(e.client)
  /\ EndSend(e, o)
  /\ IF o = "ok"
     THEN EndRound(w, FALSE)
     ELSE SetWorker(w, [worker[w] EXCEPT !.pc = "failed"]) /\ UNCHANGED queues
  /\ UNCHANGED <<others, scheduler>>

(* The rest of attempt after a failed send: drop stale work, ask for a      *)
(* retry, or go on to give the client up.                                   *)
AfterFailure(w) ==
  LET e == worker[w].event IN
  /\ worker[w].pc = "failed"
  /\ \/ /\ ~(IsCurrentEvent(e) /\ IsActive(e.client))
        /\ EndRound(w, FALSE)
     \/ /\ IsCurrentEvent(e) /\ IsActive(e.client)
        /\ e.attempts < Attempts
        /\ EndRound(w, TRUE)
     \/ /\ IsCurrentEvent(e) /\ IsActive(e.client)
        /\ e.attempts >= Attempts
        /\ SetWorker(w, [worker[w] EXCEPT !.pc = "exhausted"])
        /\ UNCHANGED queues
  /\ UNCHANGED <<others, client, scheduler, sent>>

(* With the attempts exhausted the worker that wins the compare-and-swap    *)
(* on inactive starts the goroutine that removes the client.                *)
Spawn(g) ==
  caller' = [caller EXCEPT ![g] = [Idle EXCEPT !.pc = "spawned", !.op = "unregister",
                                               !.id = client[g].id]]
Exhaust(w) ==
  LET g == worker[w].event.client IN
  /\ worker[w].pc = "exhausted"
  /\ IF IsActive(g)
     THEN client' = [client EXCEPT ![g].inactive = TRUE] /\ Spawn(g)
     ELSE UNCHANGED <<client, caller>>
  /\ EndRound(w, FALSE)
  /\ UNCHANGED <<calls, closing, closer, scheduler, sent>>

(* schedule: a full retry queue hands its earliest event back, and the      *)
(* worker waits for that one.  Any event can be the earliest.               *)
HandsBackLate(queue) == Cardinality(queue) > RetryCapacity + 1
HandsBack(queue) == Cardinality(queue) > RetryCapacity
Schedule(w) ==
  LET all == retryQueue \cup {worker[w].event} IN
  /\ worker[w].pc = "schedule"
  /\ \/ /\ closing >= RetryClosed
        /\ SetWorker(w, Returned)
        /\ UNCHANGED retryQueue
     \/ /\ closing < RetryClosed
        /\ ~HandsBack(all)
        /\ retryQueue' = all
        /\ SetWorker(w, AtPop)
     \/ /\ closing < RetryClosed
        /\ HandsBack(all)
        /\ \E e \in all :
             /\ retryQueue' = all \ {e}
             /\ SetWorker(w, [pc |-> "pending", event |-> e, inTurn |-> FALSE])
  /\ UNCHANGED <<others, client, turns, sendQueue, arrivals, scheduler, sent>>

(* waitForRetry: the retry comes due, or it is dropped because the event is *)
(* stale or the bus stopped.                                                *)
RetryDue(w) ==
  LET e == worker[w].event IN
  /\ worker[w].pc = "pending"
  /\ SetWorker(w, IF IsCurrentEvent(e) /\ IsActive(e.client) /\ closing < Stopped
                  THEN [worker[w] EXCEPT !.pc = "attempt"] ELSE AtPop)
  /\ UNCHANGED <<others, client, queues, scheduler, sent>>

-----------------------------------------------------------------------------
(* retryLoop takes a due event; a stale one is dropped. *)
PopDue ==
  /\ scheduler.pc = "poll"
  /\ closing < RetryClosed
  /\ \E e \in retryQueue :
       /\ retryQueue' = retryQueue \ {e}
       /\ scheduler' = IF IsCurrentEvent(e) THEN [pc |-> "push", event |-> e] ELSE scheduler
  /\ UNCHANGED <<others, client, turns, sendQueue, arrivals, worker, sent>>

PushRetry ==
  /\ scheduler.pc = "push"
  /\ PushEvent(scheduler.event)
  /\ scheduler' = [pc |-> "poll", event |-> NoEvent]
  /\ UNCHANGED <<others, client, retryQueue, worker, sent>>

(* The retry queue is closed, or the push failed because the send queue is. *)
SchedulerReturns ==
  /\ \/ scheduler.pc = "poll" /\ closing >= RetryClosed
     \/ scheduler.pc = "push" /\ closing >= SendClosed
  /\ scheduler' = [pc |-> "done", event |-> NoEvent]
  /\ UNCHANGED <<others, client, queues, worker, sent>>

-----------------------------------------------------------------------------
(* Close: the flag, the two queues and the stop channel, one after another. *)
background == <<calls, caller, worker, scheduler>>

CloseStep ==
  /\ closing < Stopped
  /\ closing' = closing + 1
  /\ UNCHANGED <<background, client, queues, closer, sent>>

(* wg.Wait returned: no worker, scheduler or removal goroutine runs.  The   *)
(* scheduled retries are discarded and the send queue is drained.           *)
Drain ==
  /\ closing = Stopped
  /\ \A w \in Workers : worker[w].pc = "done"
  /\ scheduler.pc = "done"
  /\ \A g \in Client : caller[g].pc = "idle"
  /\ retryQueue' = {}
  /\ sendQueue' = {}
  /\ closer' = [closer EXCEPT !.flush = sendQueue]
  /\ closing' = Flushing
  /\ UNCHANGED <<background, client, turns, arrivals, sent>>

(* The flush takes the next drained event, waits for its turn, and sends it *)
(* if it is current.                                                        *)
FlushNext ==
  /\ closing = Flushing
  /\ closer.pc = "idle"
  /\ \E e \in closer.flush :
       /\ IsHead(e, closer.flush)
       /\ e.order <= turns[e.client].nextTurn
       /\ \/ /\ e.order = turns[e.client].nextTurn
             /\ IsCurrentEvent(e)
             /\ e.attempts < Attempts
             /\ closer' = [closer EXCEPT !.pc = "send", !.event = e, !.flush = @ \ {e}]
             /\ UNCHANGED turns
          \/ /\ ~(e.order = turns[e.client].nextTurn /\ IsCurrentEvent(e)
                    /\ e.attempts < Attempts)
             /\ closer' = [closer EXCEPT !.flush = @ \ {e}]
             /\ turns' = [turns EXCEPT ![e.client] = FinishTurn(@, e.order)]
  /\ UNCHANGED <<background, client, sendQueue, retryQueue, arrivals, closing, sent>>

FlushDone ==
  LET e == closer.event IN
  /\ turns' = [turns EXCEPT ![e.client] = FinishTurn(@, e.order)]
  /\ closer' = [closer EXCEPT !.pc = "idle", !.event = NoEvent]
  /\ UNCHANGED <<sendQueue, retryQueue, arrivals>>

FlushSend ==
  LET e == closer.event IN
  /\ closer.pc = "send"
  /\ MuFree(e.client)
  /\ IF MaySend(e.client)
     THEN /\ BeginSend(e.client, Closer)
          /\ closer' = [closer EXCEPT !.pc = "sending", !.event = Attempted(@)]
          /\ UNCHANGED queues
     ELSE FlushDone /\ UNCHANGED client
  /\ UNCHANGED <<background, closing, sent>>

FlushSent(o) ==
  /\ closer.pc = "sending"
  /\ o \in SendOutcomes(closer.event.client)
  /\ EndSend(closer.event, o)
  /\ FlushDone
  /\ UNCHANGED <<background, closing>>

(* The registered clients are copied and retired one by one. *)
RetireAll ==
  /\ closing = Flushing
  /\ closer.pc = "idle" /\ closer.flush = {}
  /\ closer' = [closer EXCEPT !.retire = {clients[i] : i \in ClientIDs} \ {NoClient}]
  /\ closing' = Retiring
  /\ UNCHANGED <<background, client, queues, sent>>

RetireNext ==
  /\ closing = Retiring
  /\ closer.pc = "idle"
  /\ \E g \in closer.retire :
       /\ client' = [client EXCEPT ![g].inactive = TRUE]
       /\ closer' = [closer EXCEPT !.pc = "close", !.event.client = g, !.retire = @ \ {g}]
  /\ UNCHANGED <<background, queues, closing, sent>>

RetireClose ==
  LET g == closer.event.client IN
  /\ closer.pc = "close"
  /\ MuFree(g)
  /\ client' = [client EXCEPT ![g].connectionClosed = TRUE]
  /\ closer' = [closer EXCEPT !.pc = "idle", !.event = NoEvent]
  /\ UNCHANGED <<background, queues, closing, sent>>

FinishShutdown ==
  /\ closing = Retiring
  /\ closer.pc = "idle" /\ closer.retire = {}
  /\ closing' = ShutdownDone
  /\ UNCHANGED <<background, client, queues, closer, sent>>
=============================================================================
