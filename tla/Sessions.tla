------------------------------ MODULE Sessions ------------------------------
(***************************************************************************)
(* What outlives a connection: the subscriptions (subscription.go), the    *)
(* retained events (replay.go) and the calls that change them (bus.go):    *)
(* Register, Subscribe, SubscribeOnly, Unsubscribe, Unregister, Publish    *)
(* and the replay cleanup.  The registry and the store have locks of their *)
(* own, so one call of theirs is one step; a call of the bus makes several *)
(* and only some of them in the client's lifecycle lock.  Delivery and     *)
(* connections are the business of Bus and Streams.                        *)
(*                                                                         *)
(* A history is the set of its entries, numbered in the order of storing.  *)
(***************************************************************************)
EXTENDS Integers, FiniteSets, Sequences, Functions

CONSTANTS Ids, Names, EventIDs, Callers, Nobody,
          Retention,    \* WithReplayRetention
          Scenarios     \* what the application does, and bounds on it

(* A scenario: the clients there are at first, the calls made, the events   *)
(* published and how many of them, how many other calls, and how far the    *)
(* clock goes.                                                              *)
ASSUME ScenariosAssumption ==
  \A s \in Scenarios : /\ s.members \subseteq Ids
                       /\ s.published \in Nat /\ s.calls \in Nat /\ s.time \in Nat
                       /\ s.kinds \subseteq {"register", "replace", "only", "unregister",
                                             "subscribe", "unsubscribe"}
                       /\ s.events \subseteq [name : Names, id : EventIDs, direct : Seq(Ids),
                                               exclude : SUBSET Ids, pub : {0}]
ASSUME IdsAssumption == IsFiniteSet(Ids)
ASSUME RetentionAssumption == Retention \in Nat \ {0}
ASSUME NobodyAssumption == Nobody \notin Callers

VARIABLES
  scenario,
  clock,
  subs,        \* registry.subs: the subscribers of each name
  registered,  \* the IDs in b.clients
  lifecycle,   \* holder of each ID's lifecycle lock
  store,       \* replayStore.events
  purgeAt,     \* a cleanup tick's cutoff that is yet to be applied, or -1
  pc, who, stamp, job,   \* per caller: its place, its client, a time, and the rest
  published, calls, stored,   \* counters
  log,         \* what store would be without the cleanup
  entitled,    \* who was registered and subscribed all through a Publish
  disturbed    \* the subscriptions of a call's client that others changed meanwhile

control == <<pc, who, stamp, job>>
vars == <<scenario, clock, subs, registered, lifecycle, store, purgeAt, control,
          published, calls, stored, log, entitled, disturbed>>

NoEvent == [name |-> Nobody, id |-> Nobody, direct |-> <<>>, exclude |-> {}, pub |-> 0]
Task(op, keep, names) ==
  [op |-> op, keep |-> keep, names |-> names, event |-> NoEvent, ids |-> <<>>]
Publication(event, ids) ==
  [op |-> "publish", keep |-> {}, names |-> {}, event |-> event, ids |-> ids]
NoTask == Task("none", {}, {})

(* The registry: IsSubscribed, AllEvents, Unsubscribe and UnsubscribeAll. *)
IsSubscribed(i, name) == i \in subs[name]
AllEvents == {name \in Names : subs[name] # {}}
NamesOf(i) == {name \in Names : IsSubscribed(i, name)}
Subscribed(i, name) == [subs EXCEPT ![name] = @ \union {i}]
Unsubscribed(i, name) == [subs EXCEPT ![name] = @ \ {i}]
UnsubscribedAll(i) == [name \in Names |-> subs[name] \ {i}]

(* The replay store: EventsSince, after the latest entry with the cursor's  *)
(* ID or from the start if there is none; and PurgeExpired.                 *)
EventsSince(history, cursor) ==
  {e \in history : \A f \in history : f.id = cursor => f.n < e.n}
KeptInclusive(history, before) == {e \in history : e.at > before}
Kept(history, before) == {e \in history : e.at >= before}

(* replayMissedEventsLocked leaves out what is past the retention time and  *)
(* what the client is not subscribed to.                                    *)
Replayed(i, history, cursor) ==
  {e \in EventsSince(history, cursor) :
     e.at >= clock - Retention /\ IsSubscribed(i, e.name)}

(* uniqueStrings: the first occurrence of each value. *)
UniqueStrings(values) ==
  LET result[n \in 0..Len(values)] ==
        IF n = 0 THEN <<>>
        ELSE IF \E k \in 1..(n - 1) : values[k] = values[n] THEN result[n - 1]
        ELSE Append(result[n - 1], values[n])
  IN  result[Len(values)]

-----------------------------------------------------------------------------
Init ==
  /\ scenario \in Scenarios /\ clock = 0
  /\ registered = scenario.members /\ subs \in [Names -> {{}, registered}]
  /\ lifecycle = [i \in Ids |-> Nobody]
  /\ store = [i \in Ids |-> {}] /\ purgeAt = -1
  /\ pc = [p \in Callers |-> "idle"] /\ who = [p \in Callers |-> Nobody]
  /\ stamp = [p \in Callers |-> 0] /\ job = [p \in Callers |-> NoTask]
  /\ published = 0 /\ calls = 0 /\ stored = 0
  /\ log = store
  /\ entitled = [p \in Callers |-> {}] /\ disturbed = [p \in Callers |-> {}]

Begin(p, place, i, task) ==
  /\ pc' = [pc EXCEPT ![p] = place] /\ who' = [who EXCEPT ![p] = i]
  /\ job' = [job EXCEPT ![p] = task] /\ UNCHANGED stamp
Goto(p, place) == pc' = [pc EXCEPT ![p] = place] /\ UNCHANGED <<who, stamp, job>>
Continue(p, place, names) ==
  Begin(p, place, who[p], Task(job[p].op, job[p].keep, names))
End(p) == Begin(p, "idle", Nobody, NoTask)
Lock(p, i) == lifecycle[i] = Nobody /\ lifecycle' = [lifecycle EXCEPT ![i] = p]
Unlock(i) == lifecycle' = [lifecycle EXCEPT ![i] = Nobody]

(* A call other than Publish starts; the lifecycle lock comes first if it   *)
(* takes it.                                                                *)
MayCall(p, kind) ==
  /\ pc[p] = "idle" /\ kind \in scenario.kinds /\ calls < scenario.calls
  /\ calls' = calls + 1
  /\ UNCHANGED <<scenario, clock, store, purgeAt, published, stored, log>>

Subscribe(p, i, name) ==
  /\ MayCall(p, "subscribe")
  /\ subs' = Subscribed(i, name)
  /\ UNCHANGED <<registered, lifecycle, control>>

Unsubscribe(p, i, name) ==
  /\ MayCall(p, "unsubscribe")
  /\ subs' = Unsubscribed(i, name)
  /\ UNCHANGED <<registered, lifecycle, control>>

(* RegisterContext up to its changes of the subscriptions. *)
Register(p, i, events, replace) ==
  /\ MayCall(p, IF replace THEN "replace" ELSE "register")
  /\ Lock(p, i)
  /\ Begin(p, IF replace THEN "clear" ELSE "add", i,
           Task(IF replace THEN "replace" ELSE "register", events, events))
  /\ UNCHANGED <<subs, registered>>

SubscribeOnly(p, i, name) ==
  /\ MayCall(p, "only")
  /\ Begin(p, "clear", i, Task("only", {name}, {name}))
  /\ UNCHANGED <<subs, registered, lifecycle>>

Quiet == UNCHANGED <<scenario, clock, purgeAt, published, calls>>

(* UnsubscribeFromAll: with nothing to keep it is one call of the registry, *)
(* else one for every name in a snapshot of AllEvents.                      *)
ClearAll(p) ==
  /\ pc[p] = "clear"
  /\ subs' = UnsubscribedAll(who[p]) /\ Continue(p, "add", job[p].keep)
  /\ Quiet /\ UNCHANGED <<registered, lifecycle, store, stored, log>>
Clear(p) ==
  /\ pc[p] = "clear"
  /\ IF job[p].keep = {}
     THEN subs' = UnsubscribedAll(who[p]) /\ Continue(p, "add", {})
     ELSE UNCHANGED subs /\ Continue(p, "remove", AllEvents \ job[p].keep)
  /\ Quiet /\ UNCHANGED <<registered, lifecycle, store, stored, log>>

RemoveNothing(p) ==
  /\ pc[p] = "remove"
  /\ UNCHANGED subs /\ Continue(p, "add", job[p].keep)
  /\ Quiet /\ UNCHANGED <<registered, lifecycle, store, stored, log>>
RemoveNames(p) ==
  /\ pc[p] = "remove"
  /\ \/ job[p].names = {} /\ UNCHANGED subs /\ Continue(p, "add", job[p].keep)
     \/ \E name \in job[p].names :
          subs' = Unsubscribed(who[p], name) /\ Continue(p, "remove", job[p].names \ {name})
  /\ Quiet /\ UNCHANGED <<registered, lifecycle, store, stored, log>>

Add(p) ==
  /\ pc[p] = "add"
  /\ \/ job[p].names = {} /\ UNCHANGED subs /\ Goto(p, "finish")
     \/ \E name \in job[p].names :
          subs' = Subscribed(who[p], name) /\ Continue(p, "add", job[p].names \ {name})
  /\ Quiet /\ UNCHANGED <<registered, lifecycle, store, stored, log>>

(* The rest of RegisterContext: the client is in the table. *)
Finish(p) ==
  /\ pc[p] = "finish"
  /\ IF job[p].op = "only" THEN UNCHANGED <<registered, lifecycle>>
     ELSE registered' = registered \union {who[p]} /\ Unlock(who[p])
  /\ End(p)
  /\ Quiet /\ UNCHANGED <<subs, store, stored, log>>

(* unregister: out of the table, then out of the registry, then the store.  *)
Unregister(p, i) ==
  /\ MayCall(p, "unregister") /\ i \in registered
  /\ Lock(p, i)
  /\ registered' = registered \ {i}
  /\ Begin(p, "forget", i, Task("unregister", {}, {}))
  /\ UNCHANGED subs

Forget(p) ==
  /\ pc[p] = "forget"
  /\ subs' = UnsubscribedAll(who[p]) /\ Goto(p, "clearClient")
  /\ Quiet /\ UNCHANGED <<registered, lifecycle, store, stored, log>>

ClearClient(p) ==
  /\ pc[p] = "clearClient"
  /\ store' = [store EXCEPT ![who[p]] = {}] /\ log' = [log EXCEPT ![who[p]] = {}]
  /\ Unlock(who[p]) /\ End(p)
  /\ Quiet /\ UNCHANGED <<subs, registered, stored>>

-----------------------------------------------------------------------------
(* handle: the IDs the event names, or the subscribers of its name in some  *)
(* order.  Events have IDs here, and none is refused.                       *)
Publish(p, event) ==
  /\ pc[p] = "idle" /\ published < scenario.published
  /\ published' = published + 1
  /\ \E ids \in IF event.direct # <<>> THEN {UniqueStrings(event.direct)}
                 ELSE Bijection(1..Cardinality(subs[event.name]), subs[event.name]) :
       Begin(p, "next", Nobody, Publication([event EXCEPT !.pub = published + 1], ids))
  /\ UNCHANGED <<scenario, clock, subs, registered, lifecycle, store, purgeAt, calls, stored, log>>

(* One round of handle's loop: a look without the lock, and one with it. *)
ExcludedAlways(i, event) == i \in event.exclude
Excluded(i, event) == event.direct = <<>> /\ i \in event.exclude
IsTarget(i, event) == IsSubscribed(i, event.name) /\ i \in registered

NextClient(p) ==
  LET e == job[p].event  i == Head(job[p].ids) IN
  /\ pc[p] = "next"
  /\ IF job[p].ids = <<>> THEN End(p)
     ELSE LET target == ~Excluded(i, e) /\ IsTarget(i, e) IN
          Begin(p, IF target THEN "lock" ELSE "next", IF target THEN i ELSE Nobody,
                Publication(e, Tail(job[p].ids)))
  /\ Quiet /\ UNCHANGED <<subs, registered, lifecycle, store, stored, log>>

(* In the lock: the second look, and the time for the entry. *)
StampUnlocked(p) ==
  /\ pc[p] = "lock"
  /\ pc' = [pc EXCEPT ![p] = "store"] /\ stamp' = [stamp EXCEPT ![p] = clock]
  /\ UNCHANGED <<who, job, lifecycle>>
  /\ Quiet /\ UNCHANGED <<subs, registered, store, stored, log>>
Stamp(p) ==
  /\ pc[p] = "lock" /\ lifecycle[who[p]] = Nobody
  /\ IF IsTarget(who[p], job[p].event)
     THEN /\ Lock(p, who[p])
          /\ pc' = [pc EXCEPT ![p] = "store"] /\ stamp' = [stamp EXCEPT ![p] = clock]
          /\ UNCHANGED <<who, job>>
     ELSE UNCHANGED lifecycle /\ Begin(p, "next", Nobody, job[p])
  /\ Quiet /\ UNCHANGED <<subs, registered, store, stored, log>>

(* Store, and the unlock after the delivery. *)
Entry(p) == [n |-> stored + 1, id |-> job[p].event.id, name |-> job[p].event.name,
             at |-> stamp[p], pub |-> job[p].event.pub]
Store(p) ==
  /\ pc[p] = "store"
  /\ stored' = stored + 1
  /\ store' = [store EXCEPT ![who[p]] = @ \union {Entry(p)}]
  /\ log' = [log EXCEPT ![who[p]] = @ \union {Entry(p)}]
  /\ Unlock(who[p])
  /\ pc' = [pc EXCEPT ![p] = "next"] /\ who' = [who EXCEPT ![p] = Nobody]
  /\ stamp' = [stamp EXCEPT ![p] = 0] /\ UNCHANGED job
  /\ Quiet /\ UNCHANGED <<subs, registered>>

(* replayCleanupLoop: a tick, and PurgeExpired with the tick's time.  A     *)
(* cutoff before the first entry could be stored would remove nothing.      *)
CleanupTick ==
  /\ purgeAt = -1 /\ clock > Retention
  /\ purgeAt' = clock - Retention
  /\ UNCHANGED <<scenario, clock, subs, registered, lifecycle, store, control, published, calls,
                 stored, log>>
PurgeExpired ==
  /\ purgeAt # -1
  /\ store' = [i \in Ids |-> Kept(store[i], purgeAt)]
  /\ purgeAt' = -1
  /\ UNCHANGED <<scenario, clock, subs, registered, lifecycle, control, published, calls, stored, log>>

Advance ==
  /\ clock < scenario.time
  /\ clock' = clock + 1
  /\ UNCHANGED <<scenario, subs, registered, lifecycle, store, purgeAt, control, published, calls,
                 stored, log>>

Running(p) ==
  Clear(p) \/ RemoveNames(p) \/ Add(p) \/ Finish(p) \/ Forget(p) \/ ClearClient(p)
  \/ NextClient(p) \/ Stamp(p) \/ Store(p)

Calling(p) ==
  \/ \E event \in scenario.events : Publish(p, event)
  \/ \E i \in Ids : \/ Unregister(p, i)
                   \/ \E events \in SUBSET Names, replace \in BOOLEAN : Register(p, i, events, replace)
                   \/ \E name \in Names : Subscribe(p, i, name) \/ Unsubscribe(p, i, name)
                                          \/ SubscribeOnly(p, i, name)

(* Observers: what happened to the clients of each call while it ran. *)
Intended(event) ==
  {i \in Ids : IF event.direct = <<>> THEN i \notin event.exclude ELSE i \in Range(event.direct)}

Observe ==
  /\ entitled' = [p \in Callers |->
       LET e == job'[p].event
           before == IF pc[p] = "idle"
                     THEN Intended(e) \intersect registered \intersect subs[e.name]
                     ELSE entitled[p]
       IN  IF job'[p].op # "publish" THEN {}
           ELSE before \intersect registered' \intersect subs'[e.name]]
  /\ disturbed' = [p \in Callers |->
       {name \in Names :
          /\ job'[p].op \notin {"none", "publish"}
          /\ \/ name \in disturbed[p]
             \/ /\ pc'[p] = pc[p] /\ job'[p] = job[p]
                /\ (who[p] \in subs[name]) # (who[p] \in subs'[name])}]

Next ==
  /\ (\E p \in Callers : Calling(p) \/ Running(p)) \/ CleanupTick \/ PurgeExpired \/ Advance
  /\ Observe

Spec == Init /\ [][Next]_vars

-----------------------------------------------------------------------------
(* One type invariant: every variable has the type the code gives it. *)
TypeOK ==
  /\ scenario \in Scenarios /\ clock \in 0..scenario.time
  /\ subs \in [Names -> SUBSET Ids] /\ registered \subseteq Ids
  /\ lifecycle \in [Ids -> Callers \union {Nobody}]
  /\ purgeAt \in -1..clock
  /\ published \in 0..scenario.published /\ calls \in 0..scenario.calls /\ stored \in Nat
  /\ \A i \in Ids : \A e \in log[i] : e.n \in 1..stored /\ e.at \in 0..clock
  /\ pc \in [Callers -> {"idle", "clear", "remove", "add", "finish", "forget", "clearClient",
                         "next", "lock", "store"}]
  /\ who \in [Callers -> Ids \union {Nobody}] /\ stamp \in [Callers -> 0..clock]
  /\ \A p \in Callers : job[p].keep \subseteq Names /\ job[p].names \subseteq Names

(* The cleanup job cannot be noticed: at any time, from any cursor, a       *)
(* replay finds in the purged store exactly what it would find had nothing  *)
(* been purged.  A cursor whose own event was purged must not bring back    *)
(* more than it should, and an event still within the retention time must   *)
(* not be gone (README, "Replay").                                          *)
PurgeInvisible ==
  \A i \in Ids, cursor \in EventIDs \union {Nobody} :
    Replayed(i, store[i], cursor) = Replayed(i, log[i], cursor)

(* A client that is meant, registered and subscribed all through a Publish  *)
(* has the event in its history when Publish returns, and has it once,      *)
(* whatever reconnects and changes of other subscriptions happen meanwhile  *)
(* and however often the event names the client.                            *)
EntitledGetIt ==
  \A p \in Callers :
    job[p].op = "publish" /\ pc[p] = "next" /\ job[p].ids = <<>> =>
      \A i \in entitled[p] :
         Cardinality({e \in log[i] : e.pub = job[p].event.pub}) = 1

(* A call leaves the subscriptions it was asked for, except to the names    *)
(* that others changed for this client meanwhile: RegisterContext all it    *)
(* was given, with ReplaceSubscriptions and in SubscribeOnly no other name  *)
(* either, and Unregister none.  A concurrent change of one name costs the  *)
(* call no other name.                                                      *)
CallsSettle ==
  \A p \in Callers :
    LET left == NamesOf(who[p]) \ disturbed[p]
        asked == job[p].keep \ disturbed[p]
    IN  /\ pc[p] = "finish" => IF job[p].op = "register" THEN asked \subseteq left
                               ELSE left = asked
        /\ pc[p] = "clearClient" => left = {}

(* A step that takes a subscription away is an Unsubscribe, or part of an   *)
(* Unregister or of a replacement that does not name it.                    *)
TakesUnwanted ==
  \A i \in Ids, name \in Names : IsSubscribed(i, name) /\ i \notin subs'[name] =>
    \/ calls' # calls
    \/ \E p \in Callers :
         /\ who[p] = i
         /\ \/ job[p].op = "unregister"
            \/ job[p].op \in {"replace", "only"} /\ name \notin job[p].keep

(* A subscription is never lost, not even for a moment, while it is being   *)
(* kept: UnsubscribeFromAll and ReplaceSubscriptions take away names one by *)
(* one and never one that is to stay.                                       *)
LosesOnlyUnwanted == [][TakesUnwanted]_vars
=============================================================================
