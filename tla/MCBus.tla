------------------------------- MODULE MCBus -------------------------------
(* Scenarios of Bus for TLC; the .cfg files choose among them.  Callers,    *)
(* workers and client IDs are interchangeable in the runs that check no     *)
(* liveness property.                                                       *)
EXTENDS Bus, TLC

Interchangeable ==
  Permutations(Callers) \cup Permutations(Workers) \cup Permutations(ClientIDs)

(* One worker, small queues, one ID, two callers. *)
Base ==
  [synchronous |-> FALSE, replay |-> FALSE, workers |-> 1,
   sendCapacity |-> 1, retryCapacity |-> 1, attempts |-> 2,
   outcomes |-> {"ok", "fail"}, calls |-> {"register"},
   callers |-> 2, ids |-> 1, registrations |-> 1, published |-> 2, replays |-> 2]

(* Two callers register, disconnect and unregister an ID; the bus closes.   *)
(* Failed sends are retried if there is one event or nobody disconnects.    *)
Lifecycle ==
  [Base EXCEPT !.calls = {"register", "disconnect", "unregister", "close"},
               !.outcomes = {"ok", "fail", "closed"}, !.registrations = 2, !.attempts = 1]
LifecycleOneEvent == [Lifecycle EXCEPT !.attempts = 2, !.published = 1]
LifecycleRetry ==
  [Lifecycle EXCEPT !.attempts = 2, !.outcomes = {"ok", "fail"},
                    !.calls = {"register", "unregister", "close"}]

(* The same without workers and queues. *)
InCaller ==
  [Base EXCEPT !.synchronous = TRUE, !.replay = TRUE, !.attempts = 1,
               !.calls = {"register", "complete", "disconnect", "unregister", "close"},
               !.outcomes = {"ok", "fail", "closed"}, !.registrations = 2]
InCallerReplay ==
  [InCaller EXCEPT !.callers = 1, !.calls = InCaller.calls \cup {"replayFrom"}]

(* Two workers race for a client that may complete after one message. *)
TwoWorkers ==
  [Base EXCEPT !.workers = 2, !.callers = 1, !.published = 3, !.attempts = 1,
               !.sendCapacity = 2,
               !.calls = {"register", "complete", "disconnect", "close"}]

(* The same with fewer events and retries, and a client that stays. *)
TwoWorkersRetry ==
  [TwoWorkers EXCEPT !.published = 2, !.attempts = 2,
                     !.calls = {"register", "complete", "close"}]

(* Two IDs; connections are registered again, subscriptions change. *)
TwoIDs ==
  [Base EXCEPT !.attempts = 1, !.callers = 1, !.ids = 2, !.registrations = 3, !.published = 1,
               !.calls = {"register", "reuse", "subscribe", "cancel", "unregister"}]

(* Clients reconnect and replay; a send succeeds or finds the connection    *)
(* closed.  The two callers replay once, a single caller twice.             *)
Reconnect ==
  [Base EXCEPT !.replay = TRUE, !.sendCapacity = 2, !.outcomes = {"ok", "closed"},
               !.registrations = 2, !.replays = 1,
               !.calls = {"register", "replayFrom", "disconnect", "replay"}]
ReconnectAgain == [Reconnect EXCEPT !.callers = 1, !.replays = 2]

(* The same for one event, whose sends may fail and be retried. *)
ReconnectFailing ==
  [Reconnect EXCEPT !.outcomes = {"ok", "fail", "closed"}, !.published = 1]

(* Replay while events without an ID are queued too and contexts cancelled. *)
Mixed ==
  [Base EXCEPT !.replay = TRUE, !.sendCapacity = 2, !.replays = 1, !.attempts = 1,
               !.calls = {"register", "replay", "noID", "cancel"}]
MixedRetry == [Mixed EXCEPT !.attempts = 2, !.callers = 1]

(* An ID with retained and queued events is unregistered. *)
Forgotten ==
  [Base EXCEPT !.replay = TRUE, !.attempts = 1, !.registrations = 2,
               !.calls = {"register", "replayFrom", "unregister"}]

(* Both queues are full and a client is given up. *)
FullQueues ==
  [Base EXCEPT !.published = 3, !.calls = {"register", "subscribe"}]

(* The bus closes while calls wait. *)
Shutdown == [Base EXCEPT !.calls = {"register", "close", "subscribe"}]
ShutdownUnregister ==
  [Base EXCEPT !.calls = {"register", "unregister", "close"}, !.attempts = 1]

(* A failed event is overtaken by a later one. *)
Overtaken ==
  [Base EXCEPT !.replay = TRUE, !.sendCapacity = 2, !.callers = 1,
               !.calls = {"register", "replayFrom", "disconnect"}]

(* Two publishers send in their own goroutines. *)
Reordered ==
  [Base EXCEPT !.synchronous = TRUE, !.replay = TRUE, !.attempts = 1,
               !.outcomes = {"ok"}, !.calls = {"register", "replayFrom", "disconnect"}]

LifecycleScenarios ==
  {Lifecycle, LifecycleOneEvent, LifecycleRetry, InCaller, InCallerReplay, TwoIDs, TwoWorkers,
   TwoWorkersRetry, Mixed, MixedRetry, Forgotten}
ReconnectScenarios == {Reconnect, ReconnectAgain, ReconnectFailing}
ProgressScenarios == {FullQueues, Shutdown, ShutdownUnregister}
OvertakenScenarios == {Overtaken}
ReorderedScenarios == {Reordered}
=============================================================================
