------------------------------ MODULE BusProofs -----------------------------
(***************************************************************************)
(* The safety of the bus, for any number of clients, IDs, callers, workers *)
(* and events.  First the shape of its state: what every goroutine has at  *)
(* each of its places; in particular no event is sent more often than      *)
(* Attempts, and nobody but the registration that made it refers to a      *)
(* client object before it is installed.  Then the connections, the        *)
(* lifecycle locks and the shutdown.                                       *)
(***************************************************************************)
EXTENDS Bus, TLAPS

(* A leaf is for Zenon unless it names another prover. *)
USE Zenon

Actors == Callers \cup Client
Owners == Actors \cup Workers \cup {Closer, Nobody}
Pubs == 1 .. MaxPublished

ClientType ==
  [id : ClientIDs \cup {Nobody}, complete : BOOLEAN, connection : Client, inactive : BOOLEAN,
   connectionClosed : BOOLEAN, generation : Nat, mu : Owners]
IsCaller(c) ==
  c \in [pc : {"idle", "install", "retire", "close", "removeSend", "removeRetry", "replay", "backlog",
               "push", "send", "sending", "disconnect", "spawned", "handle", "replayWait"},
         op : {"none", "register", "disconnect", "unregister", "publish", "replay"},
         id : ClientIDs \cup {Nobody}, target : 0 .. MaxClients, fresh : 0 .. MaxClients,
         replay : BOOLEAN, cursor : {c.cursor}, event : Event, todo : SUBSET ClientIDs, backlog : Seq(Pubs)]
WorkerType ==
  [pc : {"pop", "turn", "attempt", "send", "sending", "failed", "exhausted", "schedule",
         "pending", "done"},
   event : Event, inTurn : BOOLEAN]
CloserType ==
  [pc : {"idle", "send", "sending", "close"}, event : Event, flush : SUBSET Event, retire : SUBSET Client]

(* A registration up to the moment its client is installed; the client      *)
(* objects made so far, and those that were installed.                      *)
PreInstall(c) ==
  /\ c.op = "register"
  /\ c.pc \in {"retire", "close", "install"} \/ (c.pc \in {"removeSend", "removeRetry"} /\ c.target # c.fresh)
Objs == 1 .. created
Fresh == {caller[q].fresh : q \in {p \in Actors : PreInstall(caller[p])}}
Known == Objs \ Fresh

(* An event that was made for a client object. *)
Made(e) == e \in Event /\ e.client \in Known /\ e.pub \in Pubs

(* What a goroutine works on at each of its places. *)
CallerAt(c) ==
  /\ c.pc = "idle" => c.op = "none"
  /\ c.pc = "handle" => c.op = "publish"
  /\ c.pc \notin {"idle", "handle"} => c.id \in ClientIDs
  /\ PreInstall(c) => c.fresh \in Objs
  /\ c.pc = "replay" => c.fresh \in Known
  /\ c.pc \in {"disconnect", "retire", "close", "removeSend", "removeRetry", "backlog", "push", "send",
              "sending"} => c.target \in Known
  /\ c.pc = "install" => c.op = "register"
  /\ c.pc = "replay" => c.op \in {"register", "replay"}
  /\ c.pc = "replayWait" => c.op = "replay"
  /\ c.pc = "disconnect" => c.op = "disconnect"
  /\ c.pc \in {"retire", "close"} => c.op \in {"register", "disconnect", "unregister"}
  /\ c.pc \in {"removeSend", "removeRetry"} =>
       c.op \in {"register", "disconnect", "unregister"} \/ (c.op = "replay" /\ c.target = c.fresh)
  /\ c.pc \in {"backlog", "push", "send", "sending"} => c.op \in {"register", "replay", "publish"}
  /\ c.pc \in {"handle", "push", "send", "sending"} => c.event.pub \in Pubs
  /\ c.pc \in {"handle", "push", "send"} => c.event.attempts = 0
  /\ c.pc \in {"push", "send", "sending"} => c.event.client = c.target
WorkerAt(r) ==
  /\ r.pc \notin {"pop", "done"} => Made(r.event)
  /\ r.pc = "send" => r.event.attempts < Attempts
(* The tickets of a client, as far as push needs them. *)
Numbered(t) ==
  /\ t = [nextOrder |-> t.nextOrder, nextTurn |-> t.nextTurn, canceled |-> t.canceled]
  /\ t.nextOrder \in Nat

Fixed ==
  /\ options \in Scenarios /\ closing \in Open .. ShutdownDone /\ arrivals \in Nat
  /\ created \in 0 .. MaxClients /\ published \in 0 .. MaxPublished
Identified == client \in [Client -> ClientType] /\ \A g \in Objs : client[g].id \in ClientIDs
Locks == lifecycle \in [ClientIDs -> Actors \cup {Nobody}]
Registered ==
  /\ clients \in [ClientIDs -> Known \cup {NoClient}] /\ subs \in SUBSET ClientIDs
  /\ store \in [ClientIDs -> Seq(Pubs)]
Received == sent \in [Client -> Seq(Pubs)]
Calling ==
  /\ caller = [p \in Actors |-> caller[p]]
  /\ \A p \in Actors : IsCaller(caller[p]) /\ CallerAt(caller[p])
  /\ \A g \in Client : caller[g].pc = "spawned" => g \in Known
  /\ \A p, q \in Actors : (PreInstall(caller[p]) /\ PreInstall(caller[q])
                            /\ caller[p].fresh = caller[q].fresh) => p = q
Working == worker \in [Workers -> WorkerType] /\ \A w \in Workers : WorkerAt(worker[w])
Scheduling ==
  /\ scheduler \in [pc : {"poll", "push", "done"}, event : Event]
  /\ scheduler.pc = "push" => Made(scheduler.event)
Closing ==
  /\ closer \in CloserType
  /\ closer.retire \subseteq Known
  /\ closer.pc = "close" => closer.event.client \in Known
  /\ \A e \in closer.flush : Made(e)
  /\ closer.pc \in {"send", "sending"} => Made(closer.event)
  /\ closer.pc = "send" => closer.event.attempts < Attempts
Queueing ==
  /\ \A e \in sendQueue \cup retryQueue : Made(e)
  /\ turns = [g \in Client |-> turns[g]] /\ \A g \in Client : Numbered(turns[g])

TInv == /\ Fixed /\ Identified /\ Locks /\ Registered /\ Received /\ Calling
        /\ Working /\ Scheduling /\ Closing /\ Queueing

-----------------------------------------------------------------------------
LEMMA Options ==
  ASSUME Fixed
  PROVE  /\ MaxClients \in Nat /\ options.registrations \in Nat /\ options.registrations <= MaxClients
         /\ SendCapacity \in Nat \ {0} /\ RetryCapacity \in Nat \ {0} /\ Attempts \in Nat \ {0}
         /\ MaxPublished \in Nat /\ options.replays \in Nat
  BY ScenarioAssumption, BoundAssumption
     DEF Fixed, Scenario, SendCapacity, RetryCapacity, Attempts, MaxPublished

LEMMA Nothing ==
  ASSUME Fixed
  PROVE  NoEvent \in Event /\ IsCaller(Idle) /\ CallerAt(Idle) /\ Idle.pc = "idle" /\ Idle.op = "none"
<1>1. NoEvent \in Event BY Options, SMT DEF NoEvent, NoClient, Event
<1>2. IsCaller(Idle) BY <1>1, Options, SMT DEF Idle, IsCaller, NoClient
<1>3. CallerAt(Idle) /\ Idle.pc = "idle" /\ Idle.op = "none" BY DEF Idle, CallerAt, PreInstall
<1> QED BY <1>1, <1>2, <1>3

LEMMA AnObject == ASSUME Fixed, NEW g \in Known PROVE g \in Client /\ g \in Objs /\ g # NoClient
  BY BoundAssumption, SMT DEF Fixed, Known, Objs, Client, NoClient

LEMMA TypeInit == Init => TInv
<1> SUFFICES ASSUME Init PROVE TInv OBVIOUS
<1>1. Fixed
  BY BoundAssumption, ScenarioAssumption, SMT DEF Init, Fixed, Scenario, Open, ShutdownDone, MaxPublished
<1>2. Identified
  <2>1. ASSUME NEW g \in Client PROVE NewClient(Nobody, FALSE, g) \in ClientType
    BY DEF NewClient, ClientType, Owners
  <2>2. client \in [Client -> ClientType] BY <2>1 DEF Init
  <2>3. Objs = {} BY SMT DEF Init, Objs
  <2> QED BY <2>2, <2>3 DEF Identified
<1>3. Registered /\ Received
  <2>1. <<>> \in Seq(Pubs) BY SMT
  <2>2. store \in [ClientIDs -> Seq(Pubs)] /\ sent \in [Client -> Seq(Pubs)] BY <2>1 DEF Init
  <2> QED BY <2>2 DEF Init, Registered, Received
<1>4. Locks BY DEF Init, Locks
<1>5. Calling
  <2>1. Idle.pc # "spawned" /\ ~PreInstall(Idle) BY DEF Idle, PreInstall
  <2> QED BY <1>1, <2>1, Nothing DEF Init, Calling, Actors
<1>6. Working
  <2>1. \A w \in Workers : worker[w] \in WorkerType /\ worker[w].pc \in {"pop", "done"}
    BY <1>1, Nothing, SMT DEF Init, WorkerType
  <2>2. worker = [w \in Workers |-> worker[w]] BY DEF Init
  <2> QED BY <2>1, <2>2 DEF Working, WorkerAt
<1>7. Scheduling /\ Closing BY <1>1, Nothing DEF Init, Scheduling, Closing, CloserType
<1>8. Queueing BY DEF Init, Queueing, NewTurns, Numbered
<1> QED BY <1>1, <1>2, <1>3, <1>4, <1>5, <1>6, <1>7, <1>8 DEF TInv

-----------------------------------------------------------------------------
(* Once an object is known it stays so, and with it what refers to it. *)
Stable == Known \subseteq Known' /\ UNCHANGED options

(* A goroutine takes a step to a place where it has what it needs there. *)
Fit(c) == IsCaller(c) /\ CallerAt(c) /\ c.pc # "spawned"
-----------------------------------------------------------------------------
LEMMA ClientOf ==
  ASSUME TInv, NEW i \in ClientIDs, clients[i] # NoClient
  PROVE  clients[i] \in Known /\ clients[i] \in 0 .. MaxClients /\ clients[i] \in Client
         /\ client[clients[i]] \in ClientType
  BY AnObject, BoundAssumption, SMT DEF TInv, Fixed, Registered, Known, Objs, NoClient, Identified

-----------------------------------------------------------------------------
LEMMA TypeStep == TInv /\ [Next]_vars => TInv'
<1> SUFFICES ASSUME TInv PROVE [Next]_vars => TInv' OBVIOUS
<1>Keeps.
  ASSUME Stable
  PROVE  /\ Event' = Event /\ Pubs' = Pubs /\ Attempts' = Attempts /\ WorkerType' = WorkerType
         /\ CloserType' = CloserType /\ \A e : Made(e) => Made(e)'
         /\ \A d : IsCaller(d)' = IsCaller(d)
  <2> USE <1>Keeps
  <2>1. Event' = Event /\ Pubs' = Pubs /\ Attempts' = Attempts BY DEF Stable, Event, Pubs, MaxPublished, Attempts
  <2>2. WorkerType' = WorkerType /\ CloserType' = CloserType BY <2>1 DEF WorkerType, CloserType
  <2>3. \A e : Made(e) => Made(e)' BY <2>1 DEF Made, Stable
  <2>4. \A d : IsCaller(d)' = IsCaller(d) BY <2>1 DEF IsCaller
  <2> QED BY <2>1, <2>2, <2>3, <2>4
(* What a step leaves alone keeps its shape. *)
<1>Stays.
  ASSUME Stable
  PROVE  /\ UNCHANGED <<closing, arrivals, created, published>> => Fixed'
         /\ UNCHANGED worker => Working'
         /\ UNCHANGED scheduler => Scheduling'
         /\ UNCHANGED closer => Closing'
         /\ UNCHANGED <<sendQueue, retryQueue, turns>> => Queueing'
         /\ UNCHANGED <<client, created>> => Identified'
         /\ UNCHANGED lifecycle => Locks'
         /\ UNCHANGED <<clients, subs, store>> => Registered'
         /\ UNCHANGED sent => Received'
  <2> USE <1>Stays
  <2>1. UNCHANGED <<closing, arrivals, created, published>> => Fixed' BY DEF TInv, Fixed, Stable, MaxPublished
  <2>2. UNCHANGED worker => Working' BY <1>Keeps DEF TInv, Working, WorkerAt
  <2>3. UNCHANGED scheduler => Scheduling' BY <1>Keeps DEF TInv, Scheduling
  <2>4. UNCHANGED closer => Closing' BY <1>Keeps, SMT DEF TInv, Closing, Stable
  <2>5. UNCHANGED <<sendQueue, retryQueue, turns>> => Queueing' BY <1>Keeps DEF TInv, Queueing, Numbered
  <2>6. UNCHANGED <<client, created>> => Identified' BY DEF TInv, Identified, Objs
  <2>7. UNCHANGED lifecycle => Locks' BY DEF TInv, Locks
  <2>8. UNCHANGED <<clients, subs, store>> => Registered' BY <1>Keeps DEF TInv, Registered, Stable
  <2>9. UNCHANGED sent => Received' BY <1>Keeps DEF TInv, Received
  <2> QED BY <2>1, <2>2, <2>3, <2>4, <2>5, <2>6, <2>7, <2>8, <2>9
<1>CallerAtStays. ASSUME Stable, UNCHANGED created, NEW d, CallerAt(d) PROVE CallerAt(d)'
  BY <1>CallerAtStays, <1>Keeps DEF CallerAt, Stable, Objs
<1>CallerThen.
  ASSUME NEW q \in Actors, NEW d, d = caller'[q], IsCaller(d)', CallerAt(d)'
  PROVE  IsCaller(caller[q])' /\ CallerAt(caller[q])'
  <2> USE <1>CallerThen
  <2>1. IsCaller(caller[q])' BY ZenonT(40) DEF IsCaller
  <2>2. CallerAt(caller[q])' BY DEF CallerAt, PreInstall
  <2> QED BY <2>1, <2>2
<1>CallerSteps.
  ASSUME Calling, NEW p \in Actors, NEW c, IsCaller(c), Stable => CallerAt(c)', c.pc = "spawned" => p \in Known,
         PreInstall(c) => PreInstall(caller[p]) /\ c.fresh = caller[p].fresh,
         caller' = [caller EXCEPT ![p] = c], UNCHANGED <<options, created>>
  PROVE  Calling' /\ Stable
  <2> USE <1>CallerSteps
  <2>1. caller'[p] = c /\ \A q \in Actors : q # p => caller'[q] = caller[q] BY DEF Calling
  <2>2. Stable
    <3>1. Fresh' \subseteq Fresh BY <2>1 DEF Fresh
    <3> QED BY <3>1 DEF Stable, Known, Objs
  <2>3. /\ \A d : IsCaller(d)' = IsCaller(d)
        /\ \A d : CallerAt(d) => CallerAt(d)'
    BY <2>2, <1>CallerAtStays, <1>Keeps
  <2>4. ASSUME NEW q \in Actors PROVE IsCaller(caller[q])' /\ CallerAt(caller[q])'
    <3> PICK d : d = caller'[q] OBVIOUS
    <3>1. IsCaller(d) /\ (d = c \/ CallerAt(d)) BY <2>1 DEF Calling
    <3>2. IsCaller(d)' /\ CallerAt(d)' BY <2>2, <2>3, <3>1
    <3> QED BY <3>2, <1>CallerThen
  <2>5. \A q, r \in Actors : (PreInstall(caller'[q]) /\ PreInstall(caller'[r])
                               /\ caller'[q].fresh = caller'[r].fresh) => q = r
    BY <2>1 DEF Calling
  <2>6. caller' = [q \in Actors |-> caller'[q]] BY DEF Calling
  <2>7. \A g \in Client : caller'[g].pc = "spawned" => g \in Known'
    BY <2>1, <2>2 DEF Calling, Stable, Actors
  <2> QED BY <2>2, <2>4, <2>5, <2>6, <2>7 DEF Calling, PreInstall
<1>CallerMoves.
  ASSUME Calling, NEW p \in Actors, NEW c, Fit(c),
         PreInstall(c) => PreInstall(caller[p]) /\ c.fresh = caller[p].fresh,
         caller' = [caller EXCEPT ![p] = c], UNCHANGED <<options, created>>
  PROVE  Calling' /\ Stable
  <2> USE <1>CallerMoves
  <2>1. IsCaller(c) /\ CallerAt(c) /\ c.pc # "spawned" BY DEF Fit
  <2> QED BY <2>1, <1>CallerSteps, <1>CallerAtStays
(* The call p moves on, keeping or releasing the lock of its ID. *)
<1>Returns.
  ASSUME NEW p \in Actors, Return(p), UNCHANGED <<options, created>>
  PROVE  Calling' /\ Locks' /\ Stable
  <2> USE <1>Returns
  <2>1. Fit(Idle) /\ ~PreInstall(Idle) BY Nothing DEF TInv, Fit, PreInstall
  <2>2. Locks' BY DEF Return, TInv, Locks
  <2> QED BY <2>1, <2>2, <1>CallerMoves DEF Return, TInv
<1>Enters.
  ASSUME NEW p \in Actors, UNCHANGED <<options, created>>, NEW i, NEW c, Fit(c),
         PreInstall(c) => PreInstall(caller[p]) /\ c.fresh = caller[p].fresh, Enter(p, i, c)
  PROVE  Calling' /\ Locks' /\ Stable
  <2> USE <1>Enters
  <2>1. Locks' BY DEF Enter, TInv, Locks
  <2> QED BY <2>1, <1>CallerMoves DEF Enter, TInv
<1>Goes.
  ASSUME NEW p \in Actors, UNCHANGED <<options, created>>, NEW place, Goto(p, place),
         \/ caller[p].pc = "retire" /\ place = "close"
         \/ caller[p].pc = "close" /\ place = "removeSend"
         \/ caller[p].pc = "removeSend" /\ place = "removeRetry"
         \/ caller[p].pc = "removeRetry" /\ caller[p].op = "unregister" /\ place = "retire"
         \/ caller[p].pc = "removeRetry" /\ PreInstall(caller[p]) /\ place = "install"
         \/ caller[p].pc = "push" /\ place = "backlog"
  PROVE  Calling' /\ Locks' /\ Stable
  <2> USE <1>Goes
  <2> DEFINE c == caller[p]
             d == [c EXCEPT !.pc = place]
  <2>1. IsCaller(c) /\ CallerAt(c) BY DEF TInv, Calling
  <2>2. /\ IsCaller(d) /\ d.pc = place /\ d.op = c.op /\ d.id = c.id /\ d.target = c.target /\ d.fresh = c.fresh
        /\ d.event = c.event
    BY <2>1 DEF IsCaller
  <2>3. caller' = [caller EXCEPT ![p] = d] BY DEF Goto
  <2> HIDE DEF d
  <2>4. Fit(d) /\ (PreInstall(d) => PreInstall(c)) BY <2>1, <2>2 DEF Fit, CallerAt, PreInstall
  <2>5. Locks' BY DEF Goto, TInv, Locks
  <2> QED BY <2>2, <2>3, <2>4, <2>5, <1>CallerMoves DEF TInv
(* A step of a call that does not touch the background. *)
<1>CallStep.
  ASSUME Stable, Calling', Locks', Identified', Registered', Received',
         UNCHANGED <<queues, delivery, counters>>
  PROVE  TInv'
  BY <1>CallStep, <1>Stays DEF TInv, delivery, queues, counters
(* The fields of a client object that change; its ID does not. *)
<1>ObjectChanges.
  ASSUME NEW r \in ClientType, NEW a \in BOOLEAN
  PROVE  /\ [r EXCEPT !.inactive = a] \in ClientType
         /\ [r EXCEPT !.connectionClosed = a] \in ClientType
         /\ [r EXCEPT !.inactive = TRUE, !.connectionClosed = TRUE] \in ClientType
         /\ \A m \in Owners : [r EXCEPT !.mu = m] \in ClientType
         /\ \A b \in BOOLEAN : [r EXCEPT !.mu = Nobody, !.inactive = a, !.connectionClosed = b] \in ClientType
         /\ \A n \in Nat : [r EXCEPT !.generation = n] \in ClientType
  BY <1>ObjectChanges DEF ClientType, Owners
<1>Changed.
  ASSUME NEW g \in Client, NEW r \in ClientType, r.id = client[g].id,
         client' = [client EXCEPT ![g] = r], UNCHANGED created
  PROVE  Identified'
  BY <1>Changed, SMT DEF TInv, Objs, Identified
(* The calls of the application. *)
<1>EventsSinceType.
  ASSUME NEW h \in Seq(Pubs), NEW x PROVE EventsSince(h, x) \in Seq(Pubs)
  <2> USE <1>EventsSinceType
  <2>1. CASE ~\E n \in DOMAIN h : h[n] = x BY <2>1 DEF EventsSince
  <2>2. CASE \E n \in DOMAIN h : h[n] = x
    <3> DEFINE k == CHOOSE n \in DOMAIN h : h[n] = x
    <3>1. k \in DOMAIN h BY <2>2
    <3>2. k + 1 \in 1 .. Len(h) + 1 /\ Len(h) \in Nat BY <3>1, SMT
    <3> HIDE DEF k
    <3>3. SubSeq(h, k + 1, Len(h)) \in Seq(Pubs) BY <3>2, SMT
    <3>4. EventsSince(h, x) = SubSeq(h, k + 1, Len(h)) BY <2>2 DEF EventsSince, k
    <3> QED BY <3>3, <3>4
  <2> QED BY <2>1, <2>2
<1>TicketsNumbered.
  ASSUME Queueing, NEW g \in Client, NEW t, Numbered(t), turns' = [turns EXCEPT ![g] = t]
  PROVE  turns' = [h \in Client |-> turns'[h]] /\ \A h \in Client : Numbered(turns'[h])
  <2> USE <1>TicketsNumbered
  <2>1. turns' = [h \in Client |-> IF h = g THEN t ELSE turns[h]] BY DEF Queueing
  <2> QED BY <2>1 DEF Queueing
<1>RetiringTyped.
  ASSUME NEW p \in Actors,
         SetInactive(p) \/ CloseConnection(p) \/ RemoveFromSend(p) \/ RemoveFromRetry(p)
  PROVE  TInv'
  <2> USE <1>RetiringTyped
  <2> DEFINE c == caller[p]
             g == c.target
  <2> USE DEF delivery, counters
  <2>1. IsCaller(c) /\ CallerAt(c) /\ UNCHANGED <<options, created>>
    BY DEF TInv, Calling, SetInactive, CloseConnection, RemoveFromSend, RemoveFromRetry
  <2>2. g \in Client /\ client[g] \in ClientType
    BY <2>1, AnObject DEF CallerAt, SetInactive, CloseConnection, RemoveFromSend, RemoveFromRetry, TInv, Identified
  <2>3. CASE SetInactive(p)
    <3> DEFINE r == [client[g] EXCEPT !.inactive = TRUE]
    <3>1. r \in ClientType BY <2>2, <1>ObjectChanges
    <3>2. Identified' BY <2>1, <2>2, <2>3, <3>1, <1>Changed DEF SetInactive, ClientType
    <3>3. Calling' /\ Locks' /\ Stable BY <2>1, <2>3, <1>Goes DEF SetInactive
    <3> QED BY <2>3, <3>2, <3>3, <1>Stays, <1>CallStep DEF SetInactive, registration
  <2>4. CASE CloseConnection(p)
    <3> DEFINE a == client[g].connectionClosed \/ ~KeepsConnection(c)
               r == [client[g] EXCEPT !.connectionClosed = a]
    <3>1. r \in ClientType BY <2>2, <1>ObjectChanges
    <3>2. Identified' BY <2>1, <2>2, <2>4, <3>1, <1>Changed DEF CloseConnection, ClientType
    <3>3. Calling' /\ Locks' /\ Stable BY <2>1, <2>4, <1>Goes, <1>Returns DEF CloseConnection, GotoOrReturn
    <3> QED BY <2>4, <3>2, <3>3, <1>Stays, <1>CallStep DEF CloseConnection, registration
  <2>5. CASE RemoveFromSend(p)
    <3> DEFINE t == CancelTurns(turns[g], {e.order : e \in Pending(c, sendQueue)})
    <3>1. Calling' /\ Locks' /\ Stable BY <2>1, <2>5, <1>Goes DEF RemoveFromSend
    <3>2. Numbered(t)
      <4>1. Numbered(turns[g]) BY <2>2 DEF TInv, Queueing
      <4> QED BY <4>1 DEF Numbered, CancelTurns, AdvanceCanceled
    <3>3. turns' = [turns EXCEPT ![g] = t] BY <2>5 DEF RemoveFromSend
    <3> HIDE DEF t
    <3>4. turns' = [h \in Client |-> turns'[h]] /\ \A h \in Client : Numbered(turns'[h])
      BY <2>2, <3>2, <3>3, <1>TicketsNumbered DEF TInv
    <3>5. Queueing' BY <2>5, <3>1, <3>4, <1>Keeps DEF TInv, Queueing, Numbered, RemoveFromSend
    <3> QED BY <2>5, <3>1, <3>5, <1>Stays DEF TInv, RemoveFromSend, registration
  <2>6. CASE RemoveFromRetry(p)
    <3>1. c.pc = "removeRetry" /\ c.id \in ClientIDs BY <2>1, <2>6 DEF RemoveFromRetry, CallerAt
    <3>2. Calling' /\ Locks' /\ Stable
      <4>1. CASE AfterRemove(c) = "backlog"
        <5> DEFINE h == EventsSince(store[c.id], c.cursor)
                   d == [c EXCEPT !.pc = "backlog", !.backlog = h]
        <5>1. h \in Seq(Pubs) BY <3>1, <1>EventsSinceType DEF TInv, Registered
        <5>2. IsCaller(d) /\ d.pc = "backlog" /\ d.op = c.op /\ d.id = c.id /\ d.target = c.target /\ d.fresh = c.fresh
          BY <2>1, <5>1 DEF IsCaller
        <5>3. caller' = [caller EXCEPT ![p] = d] /\ UNCHANGED lifecycle BY <2>6, <4>1 DEF RemoveFromRetry
        <5> HIDE DEF d
        <5>4. d.op \in {"register", "replay"}
          <6>1. c.op \notin {"disconnect", "unregister"} BY <4>1 DEF AfterRemove
          <6> QED BY <2>1, <3>1, <5>2, <6>1 DEF CallerAt
        <5>5. Fit(d) /\ ~PreInstall(d) BY <2>1, <3>1, <5>2, <5>4 DEF Fit, CallerAt, PreInstall
        <5> QED BY <2>1, <5>3, <5>5, <1>CallerMoves DEF TInv, Locks
      <4>2. CASE AfterRemove(c) = "idle" BY <2>1, <2>6, <4>2, <1>Returns DEF RemoveFromRetry, GotoOrReturn
      <4>3. CASE AfterRemove(c) = "retire"
        <5>1. c.op = "unregister" BY <4>3 DEF AfterRemove
        <5> QED BY <2>1, <2>6, <3>1, <4>3, <5>1, <1>Goes DEF RemoveFromRetry, GotoOrReturn
      <4>4. CASE AfterRemove(c) = "install"
        <5>1. PreInstall(c) BY <2>1, <3>1, <4>4 DEF AfterRemove, CallerAt, PreInstall
        <5> QED BY <2>1, <2>6, <3>1, <4>4, <5>1, <1>Goes DEF RemoveFromRetry, GotoOrReturn
      <4> QED BY <4>1, <4>2, <4>3, <4>4 DEF AfterRemove
    <3>3. Registered'
      <4>1. <<>> \in Seq(Pubs) BY SMT
      <4>2. store' \in [ClientIDs -> Seq(Pubs)] BY <2>6, <4>1 DEF RemoveFromRetry, TInv, Registered
      <4> QED BY <2>6, <3>2, <4>2, <1>Keeps DEF RemoveFromRetry, TInv, Registered, Stable
    <3>4. Queueing' BY <2>6, <3>2, <1>Keeps DEF TInv, Queueing, Numbered, RemoveFromRetry
    <3> QED BY <2>6, <3>2, <3>3, <3>4, <1>Stays DEF TInv, RemoveFromRetry
  <2> QED BY <2>3, <2>4, <2>5, <2>6
<1>InstallTyped. ASSUME NEW p \in Actors, Install(p) PROVE TInv'
  <2> USE <1>InstallTyped
  <2> DEFINE c == caller[p]
             r == [client[c.fresh] EXCEPT !.inactive = TRUE, !.connectionClosed = TRUE]
  <2> USE DEF delivery, counters
  <2>1. /\ IsCaller(c) /\ CallerAt(c) /\ c.pc = "install" /\ PreInstall(c) /\ c.fresh \in Objs /\ c.id \in ClientIDs
        /\ UNCHANGED <<options, created>>
    BY DEF TInv, Calling, CallerAt, Install, PreInstall
  <2>2. c.fresh \in Client /\ client[c.fresh] \in ClientType
    BY <2>1, BoundAssumption, SMT DEF TInv, Fixed, Objs, Identified, Client
  <2>3. subs' \in SUBSET ClientIDs BY <2>1 DEF Install, TInv, Registered
  <2>4. CASE ClosedMeanwhile
    <3>1. r \in ClientType /\ r.id = client[c.fresh].id BY <2>2, <1>ObjectChanges, ZenonT(60) DEF ClientType
    <3>2. client' = [client EXCEPT ![c.fresh] = r] BY <2>4 DEF Install
    <3> HIDE DEF r
    <3>3. Identified' BY <2>1, <2>2, <3>1, <3>2, <1>Changed
    <3>4. Calling' /\ Locks' /\ Stable BY <2>1, <2>4, <1>Returns DEF Install
    <3>5. Registered' BY <2>3, <2>4, <3>4, <1>Keeps DEF Install, TInv, Registered, Stable
    <3> QED BY <3>3, <3>4, <3>5, <1>Stays, <1>CallStep DEF Install
  <2>5. CASE ~ClosedMeanwhile
    <3>1. Calling' /\ Locks' /\ Stable /\ ~PreInstall(caller'[p]) /\ \A q \in Actors : q # p => caller'[q] = caller[q]
      <4>1. CASE ~c.replay
        <5>1. Return(p) BY <2>5, <4>1 DEF Install, GotoOrReturn
        <5>2. ~PreInstall(caller'[p]) /\ \A q \in Actors : q # p => caller'[q] = caller[q]
          BY <5>1 DEF Return, Idle, PreInstall, TInv, Calling
        <5> QED BY <2>1, <5>1, <5>2, <1>Returns
      <4>2. CASE c.replay
        <5> DEFINE d == [c EXCEPT !.pc = "replay"]
        <5>1. caller' = [caller EXCEPT ![p] = d] /\ UNCHANGED lifecycle
          BY <2>5, <4>2 DEF Install, GotoOrReturn, Goto
        <5>2. /\ IsCaller(d) /\ d.pc = "replay" /\ d.op = "register" /\ d.id = c.id /\ d.fresh = c.fresh
          BY <2>1 DEF IsCaller, PreInstall
        <5> HIDE DEF d
        <5>3. caller'[p] = d /\ \A q \in Actors : q # p => caller'[q] = caller[q] BY <5>1 DEF TInv, Calling
        <5>4. ~PreInstall(d) BY <5>2 DEF PreInstall
        <5>5. c.fresh \in Known'
          <6>1. c.fresh \notin Fresh' BY <2>1, <5>3, <5>4 DEF TInv, Calling, Fresh
          <6> QED BY <2>1, <6>1 DEF Known, Objs
        <5> PICK x : x = d OBVIOUS
        <5>6. CallerAt(x)' BY <2>1, <5>2, <5>4, <5>5 DEF CallerAt, PreInstall
        <5>7. Calling' /\ Stable BY <2>1, <5>1, <5>2, <5>4, <5>6, <1>CallerSteps DEF TInv
        <5> QED BY <5>1, <5>3, <5>4, <5>7 DEF TInv, Locks
      <4> QED BY <4>1, <4>2
    <3>2. c.fresh \in Known'
      <4>1. c.fresh \notin Fresh' BY <2>1, <3>1, ZenonT(60) DEF TInv, Calling, Fresh
      <4> QED BY <2>1, <4>1 DEF Known, Objs
    <3>3. clients' = [clients EXCEPT ![c.id] = c.fresh] /\ UNCHANGED <<client, store, sent>> BY <2>5 DEF Install
    <3>4. Registered' BY <2>1, <2>3, <3>1, <3>2, <3>3, <1>Keeps DEF TInv, Registered, Stable
    <3> QED BY <2>1, <3>1, <3>3, <3>4, <1>Stays, <1>CallStep DEF Install
  <2> QED BY <2>4, <2>5
<1>RegisterTyped.
  ASSUME NEW p \in Actors, NEW i \in ClientIDs, NEW complete \in BOOLEAN, NEW replay \in BOOLEAN,
         NEW cursor, NEW k \in Connections(i), Register(p, i, complete, replay, cursor, k)
  PROVE  TInv'
  <2> USE <1>RegisterTyped
  <2> DEFINE g == created + 1
             c == [Idle EXCEPT !.pc = IF clients[i] = NoClient THEN "install" ELSE "retire",
                               !.op = "register", !.id = i, !.target = clients[i],
                               !.fresh = g, !.replay = replay, !.cursor = cursor]
             new == NewClient(i, complete, k)
  <2> USE DEF delivery
  <2>1. /\ created \in Nat /\ g \in Client /\ created' = g /\ created' \in 0 .. MaxClients /\ g \in 0 .. MaxClients
    <3>1. created \in Nat /\ created < options.registrations /\ created' = g
      BY BoundAssumption, SMT DEF Register, TInv, Fixed
    <3>2. options.registrations \in Nat /\ options.registrations <= MaxClients /\ MaxClients \in Nat
      BY Options DEF TInv
    <3> QED BY <3>1, <3>2, SMT DEF Client
  <2>2. clients[i] \in 0 .. MaxClients /\ (clients[i] # NoClient => clients[i] \in Known)
    BY BoundAssumption, SMT DEF TInv, Fixed, Registered, Known, Objs, NoClient
  <2>3. k \in Client
    <3>1. clients[i] # NoClient => client[clients[i]].connection \in Client
      BY <2>2, AnObject DEF TInv, Identified, ClientType
    <3> QED BY <2>1, <3>1 DEF Connections
  <2>4. UNCHANGED <<options, published, closing, arrivals, clients, subs, store, sent, sendQueue, retryQueue,
                    turns, worker, scheduler, closer>>
    BY DEF Register, queues, registration
  <2>5. /\ IsCaller(c) /\ c.op = "register" /\ c.id = i /\ c.pc \in {"install", "retire"} /\ c.fresh = g
        /\ c.target = clients[i] /\ (c.pc = "retire" => clients[i] # NoClient)
    <3>1. IsCaller(Idle) BY Nothing DEF TInv
    <3> QED BY <2>1, <2>2, <3>1, ZenonT(40) DEF IsCaller
  <2>6. caller' = [caller EXCEPT ![p] = c] /\ lifecycle' = [lifecycle EXCEPT ![i] = p] BY DEF Register, Enter
  <2> HIDE DEF c
  <2>7. /\ caller'[p] = c /\ PreInstall(c) /\ ~PreInstall(caller[p])
        /\ \A q \in Actors : q # p => caller'[q] = caller[q]
    BY <2>5, <2>6 DEF TInv, Calling, Register, PreInstall
  <2>8. Objs' = Objs \cup {g} /\ g \notin Objs BY <2>1, SMT DEF Objs
  <2>9. Known \subseteq Known'
    <3>1. Fresh' = Fresh \cup {g} BY <2>5, <2>7, SMT DEF Fresh
    <3> QED BY <2>8, <3>1 DEF Known
  <2>10. Stable BY <2>4, <2>9 DEF Stable
  <2>11. Calling'
    <3>1. \A d : IsCaller(d)' = IsCaller(d) BY <2>10, <1>Keeps
    <3>2. \A d : CallerAt(d) => CallerAt(d)' BY <2>8, <2>9, <2>10, <1>Keeps, SMT DEF CallerAt
    <3> PICK x : x = c OBVIOUS
    <3>3. CallerAt(x)' BY <2>2, <2>5, <2>8, <2>9 DEF CallerAt, PreInstall
    <3>4. ASSUME NEW q \in Actors PROVE IsCaller(caller[q])' /\ CallerAt(caller[q])'
      <4> PICK d : d = caller'[q] OBVIOUS
      <4>1. IsCaller(d) /\ (d = x \/ CallerAt(d)) BY <2>5, <2>7 DEF TInv, Calling
      <4>2. IsCaller(d)' /\ CallerAt(d)' BY <3>1, <3>2, <3>3, <4>1
      <4> QED BY <4>2, <1>CallerThen
    <3>5. \A q \in Actors : PreInstall(caller[q]) => caller[q].fresh # g BY <2>8 DEF TInv, Calling, CallerAt
    <3>6. \A q, r \in Actors : (PreInstall(caller'[q]) /\ PreInstall(caller'[r])
                                 /\ caller'[q].fresh = caller'[r].fresh) => q = r
      BY <2>5, <2>7, <3>5, SMT DEF TInv, Calling
    <3>7. caller' = [q \in Actors |-> caller'[q]] BY <2>6 DEF TInv, Calling
    <3>8. \A h \in Client : caller'[h].pc = "spawned" => h \in Known'
      BY <2>5, <2>7, <2>9 DEF TInv, Calling, Actors
    <3> QED BY <3>4, <3>6, <3>7, <3>8 DEF Calling, PreInstall
  <2>12. Locks' BY <2>6 DEF TInv, Locks
  <2>13. Identified'
    <3>1. new \in ClientType /\ new.id = i BY <2>3 DEF NewClient, ClientType, Owners
    <3>2. client' = [client EXCEPT ![g] = new] BY DEF Register
    <3> HIDE DEF new
    <3>3. client' \in [Client -> ClientType] BY <3>1, <3>2 DEF TInv, Identified
    <3>4. ASSUME NEW h \in Objs' PROVE client'[h].id \in ClientIDs
      <4>1. h \in Client BY <2>1, BoundAssumption, SMT DEF Objs, Client
      <4> QED BY <2>8, <3>1, <3>2, <4>1 DEF TInv, Identified
    <3> QED BY <3>3, <3>4 DEF Identified
  <2>14. Fixed' BY <2>1, <2>4 DEF TInv, Fixed, MaxPublished
  <2> QED BY <2>4, <2>10, <2>11, <2>12, <2>13, <2>14, <1>Stays DEF TInv
(* Steps that only move the call on. *)
<1>CallMovesOn.
  ASSUME UNCHANGED <<registration, client, queues, delivery, counters, sent>>, NEW p \in Actors,
         \/ Return(p)
         \/ \E c : /\ Fit(c) /\ ~PreInstall(c) /\ caller' = [caller EXCEPT ![p] = c]
                   /\ UNCHANGED lifecycle \/ \E i : lifecycle' = [lifecycle EXCEPT ![i] = p]
  PROVE  TInv'
  <2> USE <1>CallMovesOn
  <2> USE DEF delivery, counters
  <2>1. CASE Return(p) BY <2>1, <1>Returns, <1>Stays, <1>CallStep DEF registration
  <2>2. ASSUME NEW c, Fit(c), ~PreInstall(c), caller' = [caller EXCEPT ![p] = c],
               UNCHANGED lifecycle \/ \E i : lifecycle' = [lifecycle EXCEPT ![i] = p]
        PROVE  TInv'
    <3>1. Calling' /\ Stable BY <2>2, <1>CallerMoves DEF TInv
    <3>2. Locks' BY <2>2 DEF TInv, Locks
    <3> QED BY <3>1, <3>2, <1>Stays, <1>CallStep DEF registration
  <2> QED BY <2>1, <2>2
<1>UnregisterTyped. ASSUME NEW p \in Actors, NEW i \in ClientIDs, Unregister(p, i) PROVE TInv'
  <2> USE <1>UnregisterTyped
  <2> DEFINE c == [Idle EXCEPT !.pc = "removeSend", !.op = "unregister", !.id = i, !.target = clients[i]]
  <2> USE DEF delivery, counters
  <2>1. clients[i] \in Known /\ clients[i] \in 0 .. MaxClients BY ClientOf DEF Unregister
  <2>2. IsCaller(Idle) BY Nothing DEF TInv
  <2>3. IsCaller(c) /\ c.pc = "removeSend" /\ c.op = "unregister" /\ c.id = i /\ c.target = clients[i]
    BY <2>1, <2>2 DEF IsCaller
  <2>4. Enter(p, i, c) /\ UNCHANGED <<options, created>> BY DEF Unregister
  <2> HIDE DEF c
  <2>5. Fit(c) /\ ~PreInstall(c) BY <2>1, <2>3 DEF Fit, CallerAt, PreInstall
  <2>6. Calling' /\ Locks' /\ Stable BY <2>4, <2>5, <1>Enters
  <2>7. Registered' BY <2>6, <1>Keeps DEF Unregister, TInv, Registered, Stable
  <2> QED BY <2>6, <2>7, <1>Stays, <1>CallStep DEF Unregister
<1>RemovalTyped. ASSUME NEW g \in Client, Removal(g) PROVE TInv'
  <2> USE <1>RemovalTyped
  <2>1. g \in Actors /\ client[g].id \in ClientIDs
    BY AnObject DEF Actors, Removal, TInv, Calling, Identified
  <2> QED BY <2>1, <1>UnregisterTyped, <1>CallMovesOn DEF Removal, RemoveExhausted
<1>SubscribeTyped. ASSUME NEW ids \in SUBSET ClientIDs, SetSubscribed(ids) PROVE TInv'
  <2> USE <1>SubscribeTyped
  <2> USE DEF delivery, counters
  <2>1. Stable BY DEF SetSubscribed, Stable, Known, Objs, Fresh, PreInstall
  <2>2. Calling'
    <3>1. \A d : (IsCaller(d) => IsCaller(d)') /\ (CallerAt(d) => CallerAt(d)')
      BY <2>1, <1>Keeps, <1>CallerAtStays DEF SetSubscribed
    <3>2. ASSUME NEW q \in Actors PROVE IsCaller(caller[q])' /\ CallerAt(caller[q])'
      <4> PICK d : d = caller'[q] OBVIOUS
      <4>1. IsCaller(d)' /\ CallerAt(d)' BY <3>1 DEF TInv, Calling, SetSubscribed
      <4> QED BY <4>1, <1>CallerThen
    <3> QED BY <2>1, <3>2 DEF SetSubscribed, TInv, Calling, PreInstall, Stable
  <2>3. Registered' BY <2>1, <1>Keeps DEF SetSubscribed, TInv, Registered, Stable
  <2> QED BY <2>1, <2>2, <2>3, <1>Stays, <1>CallStep DEF SetSubscribed
<1>DisconnectTyped. ASSUME NEW p \in Actors, NEW i \in ClientIDs, Disconnect(p, i) PROVE TInv'
  <2> USE <1>DisconnectTyped
  <2> DEFINE c == [Idle EXCEPT !.pc = "disconnect", !.op = "disconnect", !.id = i, !.target = clients[i]]
  <2>1. clients[i] \in Known /\ clients[i] \in 0 .. MaxClients BY ClientOf DEF Disconnect
  <2>2. IsCaller(Idle) BY Nothing DEF TInv
  <2>3. IsCaller(c) /\ c.pc = "disconnect" /\ c.op = "disconnect" /\ c.id = i /\ c.target = clients[i]
    BY <2>1, <2>2 DEF IsCaller
  <2>4. caller' = [caller EXCEPT ![p] = c] BY DEF Disconnect
  <2> HIDE DEF c
  <2>5. Fit(c) /\ ~PreInstall(c) BY <2>1, <2>3 DEF Fit, CallerAt, PreInstall
  <2> QED BY <2>4, <2>5, <1>CallMovesOn DEF Disconnect
<1>ReplayMissedEventsTyped.
  ASSUME NEW p \in Actors, NEW i \in ClientIDs, NEW cursor, ReplayMissedEvents(p, i, cursor)
  PROVE  TInv'
  <2> USE <1>ReplayMissedEventsTyped
  <2> DEFINE c == [Idle EXCEPT !.pc = "replayWait", !.op = "replay", !.id = i, !.replay = TRUE, !.cursor = cursor]
  <2>1. IsCaller(Idle) BY Nothing DEF TInv
  <2>2. IsCaller(c) /\ c.pc = "replayWait" /\ c.op = "replay" /\ c.id = i BY <2>1 DEF IsCaller
  <2>3. caller' = [caller EXCEPT ![p] = c] BY DEF ReplayMissedEvents
  <2> HIDE DEF c
  <2>4. Fit(c) /\ ~PreInstall(c) BY <2>2 DEF Fit, CallerAt, PreInstall
  <2> QED BY <2>3, <2>4, <1>CallMovesOn DEF ReplayMissedEvents
(* Publishing. *)
<1>HandledTyped.
  ASSUME NEW c, IsCaller(c), c.event.pub \in Pubs, NEW i
  PROVE  /\ Fit(Handled(c, i)) /\ ~PreInstall(Handled(c, i))
         /\ Handled(c, i).pc \in {"idle", "handle"} /\ Handled(c, i).op \in {"none", "publish"}
  <2> USE <1>HandledTyped
  <2> DEFINE e == [NoEvent EXCEPT !.pub = c.event.pub, !.hasID = c.event.hasID]
             d == [Idle EXCEPT !.pc = "handle", !.op = "publish", !.todo = c.todo \ {i}, !.event = e]
  <2>1. IsCaller(Idle) /\ Fit(Idle) /\ ~PreInstall(Idle) /\ NoEvent \in Event /\ Idle.pc = "idle" /\ Idle.op = "none"
    BY Nothing DEF TInv, Fit, PreInstall
  <2>2. c.event \in Event /\ c.todo \in SUBSET ClientIDs BY DEF IsCaller
  <2>3. e \in Event BY <2>1, <2>2 DEF Event, Pubs
  <2>4. e.pub \in Pubs /\ e.attempts = 0 BY DEF NoEvent
  <2> HIDE DEF e
  <2>5. IsCaller(d) /\ d.pc = "handle" /\ d.op = "publish" /\ d.event = e BY <2>1, <2>2, <2>3 DEF IsCaller
  <2>6. Handled(c, i) = Idle \/ Handled(c, i) = d BY DEF Handled, e
  <2> HIDE DEF d
  <2>7. Fit(d) /\ ~PreInstall(d) BY <2>4, <2>5 DEF Fit, CallerAt, PreInstall
  <2> QED BY <2>1, <2>5, <2>6, <2>7
<1>PublishTyped.
  ASSUME NEW p \in Actors, NEW ids \in SUBSET ClientIDs, NEW hasID \in BOOLEAN, Publish(p, ids, hasID)
  PROVE  TInv'
  <2> USE <1>PublishTyped
  <2> DEFINE e == [NoEvent EXCEPT !.pub = published + 1, !.hasID = hasID]
             c == [Idle EXCEPT !.pc = "handle", !.op = "publish", !.todo = ids, !.event = e]
  <2> USE DEF delivery
  <2>1. IsCaller(Idle) /\ NoEvent \in Event BY Nothing DEF TInv
  <2>2. published' \in 0 .. MaxPublished /\ published + 1 \in Pubs /\ published + 1 \in 0 .. MaxPublished
    BY Options, SMT DEF TInv, Fixed, Publish, Pubs
  <2>3. e \in Event
    <3>1. \A n \in 0 .. MaxPublished : [NoEvent EXCEPT !.pub = n, !.hasID = hasID] \in Event BY <2>1 DEF Event
    <3> QED BY <2>2, <3>1
  <2>4. e.pub \in Pubs /\ e.attempts = 0 BY <2>2 DEF NoEvent
  <2>5. caller' = [caller EXCEPT ![p] = c] BY DEF Publish
  <2> HIDE DEF e
  <2>6. IsCaller(c) /\ c.pc = "handle" /\ c.op = "publish" /\ c.event = e BY <2>1, <2>3 DEF IsCaller
  <2> HIDE DEF c
  <2>7. Fit(c) /\ ~PreInstall(c) BY <2>4, <2>6 DEF Fit, CallerAt, PreInstall
  <2>8. Calling' /\ Stable BY <2>5, <2>7, <1>CallerMoves DEF TInv, Publish
  <2>9. Fixed' BY <2>2 DEF TInv, Fixed, MaxPublished, Publish, queues
  <2> QED BY <2>8, <2>9, <1>Stays DEF TInv, Publish, registration, queues
<1>HandleClientTyped. ASSUME NEW p \in Actors, NEW i \in ClientIDs, HandleClient(p, i) PROVE TInv'
  <2> USE <1>HandleClientTyped
  <2> DEFINE c == caller[p]
             g == clients[i]
             e == [c.event EXCEPT !.client = g, !.generation = client[g].generation]
             d == [c EXCEPT !.pc = IF Synchronous THEN "send" ELSE "push", !.id = i, !.target = g, !.event = e]
  <2> USE DEF delivery, counters
  <2>1. /\ IsCaller(c) /\ c.pc = "handle" /\ c.op = "publish" /\ c.event \in Event
        /\ c.event.pub \in Pubs /\ c.event.attempts = 0 /\ UNCHANGED <<options, created>>
    BY DEF HandleClient, TInv, Calling, CallerAt, IsCaller
  <2>2. g \in Known /\ g \in 0 .. MaxClients /\ client[g].generation \in Nat
    BY ClientOf DEF HandleClient, ClientType
  <2>3. e \in Event BY <2>1, <2>2 DEF Event
  <2>4. e.pub = c.event.pub /\ e.attempts = c.event.attempts /\ e.client = g BY <2>1 DEF Event
  <2>5. caller' = [caller EXCEPT ![p] = IF ~IsActive(g) THEN Handled(c, i) ELSE d] BY DEF HandleClient
  <2> HIDE DEF e
  <2>6. /\ IsCaller(d) /\ d.pc \in {"send", "push"} /\ d.op = c.op /\ d.id = i /\ d.target = g /\ d.event = e
    BY <2>1, <2>2, <2>3, ZenonT(40) DEF IsCaller
  <2> HIDE DEF d
  <2>7. Fit(d) /\ ~PreInstall(d) BY <2>1, <2>2, <2>4, <2>6 DEF Fit, CallerAt, PreInstall
  <2>8. Fit(Handled(c, i)) /\ ~PreInstall(Handled(c, i)) BY <2>1, <1>HandledTyped
  <2>9. Calling' /\ Stable BY <2>1, <2>5, <2>7, <2>8, <1>CallerMoves DEF TInv
  <2>10. Locks' BY DEF HandleClient, TInv, Locks
  <2>11. Registered'
    <3>1. store[i] \in Seq(Pubs) BY DEF TInv, Registered
    <3>2. Append(store[i], c.event.pub) \in Seq(Pubs) BY <2>1, <3>1, SMT
    <3>3. store' \in [ClientIDs -> Seq(Pubs)] BY <3>2 DEF HandleClient, TInv, Registered
    <3> QED BY <2>9, <3>3, <1>Keeps DEF HandleClient, TInv, Registered, Stable
  <2> QED BY <2>9, <2>10, <2>11, <1>Stays, <1>CallStep DEF HandleClient
<1>HandleTyped.
  ASSUME NEW p \in Actors, HandleFails(p) \/ PushFails(p) \/ \E i \in ClientIDs : SkipClient(p, i)
  PROVE  TInv'
  <2> USE <1>HandleTyped
  <2>1. CASE HandleFails(p)
    <3>1. Fit(Idle) /\ ~PreInstall(Idle) BY Nothing DEF TInv, Fit, PreInstall
    <3> QED BY <2>1, <3>1, <1>CallMovesOn DEF HandleFails
  <2>2. CASE PushFails(p) BY <2>2, <1>CallMovesOn DEF PushFails
  <2>3. ASSUME NEW i, SkipClient(p, i) PROVE TInv'
    <3>1. IsCaller(caller[p]) /\ caller[p].event.pub \in Pubs BY <2>3 DEF SkipClient, TInv, Calling, CallerAt
    <3>2. Fit(Handled(caller[p], i)) /\ ~PreInstall(Handled(caller[p], i)) BY <3>1, <1>HandledTyped
    <3> QED BY <2>3, <3>2, <1>CallMovesOn DEF SkipClient
  <2> QED BY <2>1, <2>2, <2>3
(* push hands out a ticket and appends the event. *)
<1>Pushed.
  ASSUME NEW e, Made(e), PushEvent(e), Stable, UNCHANGED retryQueue
  PROVE  Queueing' /\ arrivals' \in Nat
  <2> USE <1>Pushed
  <2> DEFINE g == e.client
             t == AssignOrder(turns[g])
  <2>1. g \in Client /\ e \in Event BY AnObject DEF TInv, Made
  <2>2. Numbered(turns[g]) /\ turns[g].nextOrder \in Nat /\ arrivals \in Nat
    BY <2>1 DEF TInv, Queueing, Numbered, Fixed
  <2>3. Numbered(t) BY <2>2, SMT DEF Numbered, AssignOrder
  <2>4. turns' = [turns EXCEPT ![g] = t] BY DEF PushEvent
  <2> HIDE DEF t
  <2>5. turns' = [h \in Client |-> turns'[h]] /\ \A h \in Client : Numbered(turns'[h])
    BY <2>1, <2>3, <2>4, <1>TicketsNumbered DEF TInv
  <2>6. Stamped(e) \in Event /\ Stamped(e).client = g /\ Stamped(e).pub = e.pub
    <3>1. \A n, m \in Nat : LET s == [e EXCEPT !.order = n, !.at = m] IN
             s \in Event /\ s.client = g /\ s.pub = e.pub
      BY <2>1 DEF Event
    <3>2. turns[g].nextOrder + 1 \in Nat BY <2>2, SMT
    <3> QED BY <2>2, <3>1, <3>2 DEF Stamped
  <2>7. Made(Stamped(e)) BY <2>6 DEF Made
  <2>8. sendQueue' = sendQueue \cup {Stamped(e)} BY DEF PushEvent
  <2>9. \A f \in sendQueue' \cup retryQueue' : Made(f)' BY <2>7, <2>8, <1>Keeps DEF TInv, Queueing
  <2> QED BY <2>2, <2>5, <2>9, SMT DEF Queueing, Numbered, PushEvent
<1>PushCallTyped. ASSUME NEW p \in Actors, PushCall(p) PROVE TInv'
  <2> USE <1>PushCallTyped
  <2> DEFINE c == caller[p]
  <2> USE DEF delivery, counters
  <2>1. /\ IsCaller(c) /\ c.pc = "push" /\ Made(c.event) /\ c.event.pub \in Pubs
        /\ UNCHANGED <<options, created, retryQueue>>
    BY DEF PushCall, TInv, Calling, CallerAt, IsCaller, Made
  <2>2. Calling' /\ Locks' /\ Stable
    <3>1. CASE c.op = "publish"
      <4>1. Fit(Handled(c, c.id)) /\ ~PreInstall(Handled(c, c.id)) BY <2>1, <1>HandledTyped
      <4>2. caller' = [caller EXCEPT ![p] = Handled(c, c.id)] /\ lifecycle' = [lifecycle EXCEPT ![c.id] = Nobody]
        BY <3>1 DEF PushCall
      <4> QED BY <2>1, <4>1, <4>2, <1>CallerMoves DEF TInv, Locks
    <3>2. CASE c.op # "publish" BY <2>1, <3>2, <1>Goes DEF PushCall
    <3> QED BY <3>1, <3>2
  <2>3. Queueing' /\ arrivals' \in Nat BY <2>1, <2>2, <1>Pushed DEF PushCall
  <2>4. Fixed' BY <2>3 DEF TInv, Fixed, PushCall, MaxPublished
  <2> QED BY <2>2, <2>3, <2>4, <1>Stays DEF PushCall, TInv, registration
(* An attempt is counted. *)
<1>Counted.
  ASSUME NEW e \in Event, e.attempts < Attempts
  PROVE  Attempted(e) \in Event /\ Attempted(e).client = e.client /\ Attempted(e).pub = e.pub
  <2> USE <1>Counted
  <2>1. e.attempts \in 0 .. Attempts /\ Attempts \in Nat BY Options DEF TInv, Event
  <2>2. e.attempts + 1 \in 0 .. Attempts BY <2>1, SMT
  <2>3. \A n \in 0 .. Attempts : LET s == [e EXCEPT !.attempts = n] IN
           s \in Event /\ s.client = e.client /\ s.pub = e.pub
    BY DEF Event
  <2> QED BY <2>2, <2>3 DEF Attempted
<1>Begun.
  ASSUME NEW g \in Known, NEW o \in Owners, BeginSend(g, o), UNCHANGED created
  PROVE  Identified'
  <2> USE <1>Begun
  <2>1. g \in Client /\ client[g] \in ClientType BY AnObject DEF TInv, Identified
  <2>2. [client[g] EXCEPT !.mu = o] \in ClientType BY <2>1, <1>ObjectChanges
  <2>3. [client[g] EXCEPT !.mu = o].id = client[g].id BY <2>1 DEF ClientType
  <2> QED BY <2>1, <2>2, <2>3, <1>Changed DEF BeginSend
<1>Ended.
  ASSUME NEW e, Made(e), NEW o, EndSend(e, o), UNCHANGED <<created, options>>
  PROVE  Identified' /\ Received'
  <2> USE <1>Ended
  <2> DEFINE g == e.client
             a == client[g].inactive \/ EndsConnection(g, o)
             b == client[g].connectionClosed \/ EndsConnection(g, o)
             r == [client[g] EXCEPT !.mu = Nobody, !.inactive = a, !.connectionClosed = b]
  <2>1. g \in Client /\ client[g] \in ClientType BY AnObject DEF TInv, Identified, Made
  <2>2. r \in ClientType
    <3>1. a \in BOOLEAN /\ b \in BOOLEAN OBVIOUS
    <3> HIDE DEF a, b
    <3> QED BY <2>1, <3>1, <1>ObjectChanges
  <2>3. r.id = client[g].id BY <2>1 DEF ClientType
  <2>4. client' = [client EXCEPT ![g] = r] BY DEF EndSend
  <2> HIDE DEF r
  <2>5. Identified' BY <2>1, <2>2, <2>3, <2>4, <1>Changed
  <2>6. sent[g] \in Seq(Pubs) /\ e.pub \in Pubs BY <2>1 DEF TInv, Received, Made
  <2>7. Append(sent[g], e.pub) \in Seq(Pubs) BY <2>6, SMT
  <2>8. sent' = [sent EXCEPT ![g] = IF o = "ok" THEN Append(sent[g], e.pub) ELSE sent[g]] BY DEF EndSend
  <2>9. Received' BY <2>6, <2>7, <2>8 DEF TInv, Received, Pubs, MaxPublished
  <2> QED BY <2>5, <2>9
(* Sending in the calling goroutine. *)
<1>CallSendTyped.
  ASSUME NEW p \in Actors, CallSend(p) \/ \E o : CallSent(p, o)
  PROVE  TInv'
  <2> USE <1>CallSendTyped
  <2> DEFINE c == caller[p]
             d == IF c.op = "publish" THEN Handled(c, c.id) ELSE [c EXCEPT !.pc = "backlog"]
             f == [c EXCEPT !.pc = "sending", !.event = Attempted(c.event)]
  <2> USE DEF delivery, counters
  <2>1. /\ IsCaller(c) /\ c.pc \in {"send", "sending"} /\ CallerAt(c) /\ c.event \in Event /\ c.target \in Known
        /\ Made(c.event) /\ c.event.pub \in Pubs /\ UNCHANGED <<options, created>>
    BY DEF CallSend, CallSent, TInv, Calling, CallerAt, IsCaller, Made
  <2>2. Fit(d) /\ ~PreInstall(d)
    <3>1. Fit(Handled(c, c.id)) /\ ~PreInstall(Handled(c, c.id)) BY <2>1, <1>HandledTyped
    <3> DEFINE b == [c EXCEPT !.pc = "backlog"]
    <3>2. IsCaller(b) /\ b.pc = "backlog" /\ b.op = c.op /\ b.id = c.id /\ b.target = c.target
      BY <2>1 DEF IsCaller
    <3> HIDE DEF b
    <3>3. Fit(b) /\ ~PreInstall(b) BY <2>1, <3>2 DEF Fit, CallerAt, PreInstall
    <3> QED BY <3>1, <3>3 DEF b
  <2> HIDE DEF d
  <2>3. CASE CallSend(p) /\ MaySend(c.target)
    <3>1. /\ Attempted(c.event) \in Event /\ Attempted(c.event).client = c.event.client
          /\ Attempted(c.event).pub = c.event.pub
      <4>1. c.event.attempts = 0 BY <2>1, <2>3 DEF CallerAt, CallSend
      <4>2. 0 < Attempts BY Options, SMT DEF TInv
      <4>3. c.event.attempts < Attempts BY <4>1, <4>2
      <4> QED BY <2>1, <4>3, <1>Counted
    <3>2. /\ IsCaller(f) /\ f.pc = "sending" /\ f.event = Attempted(c.event) /\ f.op = c.op /\ f.id = c.id
          /\ f.target = c.target
      BY <2>1, <3>1 DEF IsCaller
    <3>3. caller' = [caller EXCEPT ![p] = f] /\ BeginSend(c.target, p) BY <2>3 DEF CallSend
    <3> HIDE DEF f
    <3>4. Fit(f) /\ ~PreInstall(f) BY <2>1, <3>1, <3>2 DEF Fit, CallerAt, PreInstall
    <3>5. Calling' /\ Stable BY <2>1, <3>3, <3>4, <1>CallerMoves DEF TInv
    <3>6. Identified' BY <2>1, <3>3, <1>Begun DEF Owners
    <3> QED BY <2>3, <3>5, <3>6, <1>Stays, <1>CallStep DEF CallSend, registration
  <2>4. CASE CallSend(p) /\ ~MaySend(c.target)
    <3>1. caller' = [caller EXCEPT ![p] = d] /\ UNCHANGED client BY <2>4 DEF CallSend, d
    <3> QED BY <2>2, <2>4, <3>1, <1>CallMovesOn DEF CallSend
  <2>5. ASSUME NEW o, CallSent(p, o) PROVE TInv'
    <3>1. Identified' /\ Received' BY <2>1, <2>5, <1>Ended DEF CallSent
    <3>2. caller' = [caller EXCEPT ![p] = d] BY <2>5 DEF CallSent, d
    <3>3. Calling' /\ Stable BY <2>1, <2>2, <3>2, <1>CallerMoves DEF TInv
    <3> QED BY <2>5, <3>1, <3>3, <1>Stays, <1>CallStep DEF CallSent, registration
  <2> QED BY <2>3, <2>4, <2>5
<1>EntersTyped.
  ASSUME NEW p \in Actors, DisconnectLocked(p) \/ ReplayEnter(p) PROVE TInv'
  <2> USE <1>EntersTyped
  <2> DEFINE c == caller[p]
  <2>1. IsCaller(c) /\ CallerAt(c) BY DEF TInv, Calling
  <2>2. CASE Return(p) BY <2>2, <1>CallMovesOn DEF DisconnectLocked, ReplayEnter
  <2>3. CASE DisconnectLocked(p) /\ Enter(p, c.id, [c EXCEPT !.pc = "retire"])
    <3> DEFINE d == [c EXCEPT !.pc = "retire"]
    <3>1. c.pc = "disconnect" /\ c.op = "disconnect" BY <2>1, <2>3 DEF DisconnectLocked, CallerAt
    <3>2. IsCaller(d) /\ d.pc = "retire" /\ d.op = c.op /\ d.id = c.id /\ d.target = c.target /\ d.fresh = c.fresh
      BY <2>1 DEF IsCaller
    <3>3. caller' = [caller EXCEPT ![p] = d] /\ lifecycle' = [lifecycle EXCEPT ![c.id] = p] BY <2>3 DEF Enter
    <3> HIDE DEF d
    <3>4. Fit(d) /\ ~PreInstall(d) BY <2>1, <3>1, <3>2 DEF Fit, CallerAt, PreInstall
    <3> QED BY <2>3, <3>3, <3>4, <1>CallMovesOn DEF DisconnectLocked
  <2>4. CASE ReplayEnter(p) /\ clients[c.id] # NoClient
    <3> DEFINE d == [c EXCEPT !.pc = "replay", !.fresh = clients[c.id]]
    <3>1. c.pc = "replayWait" /\ c.op = "replay" /\ c.id \in ClientIDs BY <2>1, <2>4 DEF ReplayEnter, CallerAt
    <3>2. clients[c.id] \in Known /\ clients[c.id] \in 0 .. MaxClients BY <2>4, <3>1, ClientOf
    <3>3. IsCaller(d) /\ d.pc = "replay" /\ d.op = c.op /\ d.id = c.id /\ d.fresh = clients[c.id]
      BY <2>1, <3>2 DEF IsCaller
    <3>4. caller' = [caller EXCEPT ![p] = d] /\ lifecycle' = [lifecycle EXCEPT ![c.id] = p]
      BY <2>4 DEF Enter, ReplayEnter
    <3> HIDE DEF d
    <3>5. Fit(d) /\ ~PreInstall(d) BY <3>1, <3>2, <3>3 DEF Fit, CallerAt, PreInstall
    <3> QED BY <2>4, <3>4, <3>5, <1>CallMovesOn DEF ReplayEnter
  <2> QED BY <2>2, <2>3, <2>4 DEF DisconnectLocked, ReplayEnter
<1>ReplayLockedTyped. ASSUME NEW p \in Actors, ReplayLocked(p) PROVE TInv'
  <2> USE <1>ReplayLockedTyped
  <2> DEFINE c == caller[p]
             g == c.fresh
             d == [c EXCEPT !.pc = "removeSend", !.target = g]
             r == [client[g] EXCEPT !.generation = NextGeneration(client[g].generation)]
  <2> USE DEF delivery, counters
  <2>1. IsCaller(c) /\ c.pc = "replay" /\ CallerAt(c) /\ g \in Known /\ UNCHANGED <<options, created>>
    BY DEF ReplayLocked, TInv, Calling, CallerAt
  <2>2. CASE ReplayEnabled /\ IsActive(g)
    <3>1. client[g] \in ClientType /\ g \in Client BY <2>1, AnObject DEF TInv, Identified
    <3>2. NextGeneration(client[g].generation) \in Nat BY <3>1, SMT DEF ClientType, NextGeneration
    <3>3. r \in ClientType /\ r.id = client[g].id
      <4>1. \A n \in Nat : [client[g] EXCEPT !.generation = n].id = client[g].id BY <3>1 DEF ClientType
      <4> QED BY <3>1, <3>2, <4>1, <1>ObjectChanges
    <3>4. client' = [client EXCEPT ![g] = r] BY <2>2 DEF ReplayLocked
    <3> HIDE DEF r
    <3>5. Identified' BY <2>1, <3>1, <3>3, <3>4, <1>Changed
    <3>6. IsCaller(d) /\ d.pc = "removeSend" /\ d.target = g /\ d.fresh = g /\ d.op = c.op /\ d.id = c.id
      BY <2>1 DEF IsCaller
    <3>7. caller' = [caller EXCEPT ![p] = d] /\ UNCHANGED lifecycle BY <2>2 DEF ReplayLocked
    <3> HIDE DEF d
    <3>8. Fit(d) /\ ~PreInstall(d) BY <2>1, <3>6 DEF Fit, CallerAt, PreInstall
    <3>9. Calling' /\ Stable BY <2>1, <3>7, <3>8, <1>CallerMoves DEF TInv
    <3> QED BY <3>5, <3>7, <3>9, <1>Stays, <1>CallStep DEF ReplayLocked, registration
  <2>3. CASE ~(ReplayEnabled /\ IsActive(g)) BY <2>3, <1>CallMovesOn DEF ReplayLocked
  <2> QED BY <2>2, <2>3
<1>ReplayNextTyped. ASSUME NEW p \in Actors, ReplayNext(p) PROVE TInv'
  <2> USE <1>ReplayNextTyped
  <2> DEFINE c == caller[p]
             e == [NoEvent EXCEPT !.client = c.target, !.pub = Head(c.backlog), !.hasID = TRUE,
                                  !.generation = ReplayGeneration(c.target)]
             place == IF c.id \notin subs THEN "backlog" ELSE IF Synchronous THEN "send" ELSE "push"
             f == IF c.id \notin subs THEN NoEvent ELSE e
             d == [c EXCEPT !.backlog = Tail(c.backlog), !.pc = place, !.event = f]
  <2>1. IsCaller(c) /\ c.pc = "backlog" /\ CallerAt(c) /\ c.target \in Known
    BY DEF ReplayNext, TInv, Calling, CallerAt
  <2>2. CASE c.backlog = <<>> \/ ~IsActive(c.target) BY <2>2, <1>CallMovesOn DEF ReplayNext
  <2>3. CASE ~(c.backlog = <<>> \/ ~IsActive(c.target))
    <3>1. c.backlog \in Seq(Pubs) BY <2>1 DEF IsCaller
    <3>2. Head(c.backlog) \in Pubs /\ Tail(c.backlog) \in Seq(Pubs) BY <2>3, <3>1, SMT
    <3>3. ReplayGeneration(c.target) \in Nat
      BY <2>1, AnObject DEF TInv, Identified, ClientType, ReplayGeneration
    <3>4. /\ NoEvent \in Event /\ c.target \in 0 .. MaxClients /\ NoEvent.attempts = 0
          /\ \A n \in Pubs : n \in 0 .. MaxPublished
      BY <2>1, Nothing, SMT DEF TInv, IsCaller, NoEvent, Pubs
    <3>5. e \in Event /\ e.client = c.target /\ e.pub \in Pubs /\ e.attempts = 0
      <4>1. \A n \in Pubs, m \in Nat :
               LET s == [NoEvent EXCEPT !.client = c.target, !.pub = n, !.hasID = TRUE, !.generation = m] IN
               s \in Event /\ s.client = c.target /\ s.pub \in Pubs /\ s.attempts = 0
        BY <3>4 DEF Event
      <4> QED BY <3>2, <3>3, <4>1
    <3>6. caller' = [caller EXCEPT ![p] = d] /\ UNCHANGED lifecycle BY <2>3 DEF ReplayNext
    <3> HIDE DEF e
    <3>7. f \in Event /\ place \in {"backlog", "push", "send"} /\ (place \in {"push", "send"} => f = e)
      BY <3>4, <3>5
    <3> HIDE DEF f, place
    <3>8. IsCaller(d) /\ d.pc = place /\ d.op = c.op /\ d.target = c.target /\ d.id = c.id /\ d.event = f
      BY <2>1, <3>2, <3>7 DEF IsCaller
    <3> HIDE DEF d
    <3>9. Fit(d) /\ ~PreInstall(d) BY <2>1, <3>5, <3>7, <3>8 DEF Fit, CallerAt, PreInstall
    <3> QED BY <3>6, <3>9, <1>CallMovesOn DEF ReplayNext
  <2> QED BY <2>2, <2>3
<1>StartCallTyped. ASSUME NEW p \in Actors, StartCall(p) PROVE TInv'
  <2> USE <1>StartCallTyped
  <2>1. ASSUME NEW i \in ClientIDs, NEW complete \in BOOLEAN, NEW replay \in BOOLEAN,
               NEW k \in Connections(i), Register(p, i, complete, replay, LastReceived(i), k)
        PROVE  TInv'
    BY <2>1, <1>RegisterTyped
  <2>2. ASSUME NEW i \in ClientIDs,
               Disconnect(p, i) \/ UnregisterCall(p, i) \/ ReplayMissedEvents(p, i, LastReceived(i))
        PROVE  TInv'
    BY <2>2, <1>DisconnectTyped, <1>UnregisterTyped, <1>ReplayMissedEventsTyped DEF UnregisterCall
  <2>3. ASSUME NEW ids \in SUBSET subs, NEW hasID \in BOOLEAN, Publish(p, ids, hasID) PROVE TInv'
    <3>1. ids \in SUBSET ClientIDs BY DEF TInv, Registered
    <3> QED BY <2>3, <3>1, <1>PublishTyped
  <2> QED BY <2>1, <2>2, <2>3 DEF StartCall
<1>ContinueCallTyped.
  ASSUME NEW p \in Actors, ContinueCall(p) \/ TakeLock(p) \/ PushFails(p) \/ HandleFails(p)
  PROVE  TInv'
  <2> USE <1>ContinueCallTyped
  <2>1. CASE SetInactive(p) \/ CloseConnection(p) \/ RemoveFromSend(p) \/ RemoveFromRetry(p) \/ Install(p)
    BY <2>1, <1>RetiringTyped, <1>InstallTyped
  <2>2. CASE PushCall(p) \/ PushFails(p) \/ HandleFails(p) \/ \E i \in ClientIDs : SkipClient(p, i)
    BY <2>2, <1>PushCallTyped, <1>HandleTyped
  <2>3. CASE CallSend(p) \/ (\E o \in Outcomes : CallSent(p, o)) \/ ReplayLocked(p) \/ ReplayNext(p)
    BY <2>3, <1>CallSendTyped, <1>ReplayLockedTyped, <1>ReplayNextTyped
  <2>4. CASE TakeLock(p) BY <2>4, <1>EntersTyped, <1>HandleClientTyped DEF TakeLock
  <2> QED BY <2>1, <2>2, <2>3, <2>4 DEF ContinueCall
(* The background goroutines: they leave the calls alone, except that an    *)
(* exhausted client gets its removal goroutine.                             *)
<1>CallsKeep.
  ASSUME UNCHANGED <<options, created, caller>>
  PROVE  Stable /\ Calling'
  <2> USE <1>CallsKeep
  <2>1. Stable BY DEF Stable, Known, Objs, Fresh, PreInstall
  <2>2. \A d : (IsCaller(d) => IsCaller(d)') /\ (CallerAt(d) => CallerAt(d)') BY <2>1, <1>Keeps, <1>CallerAtStays
  <2>3. ASSUME NEW q \in Actors PROVE IsCaller(caller[q])' /\ CallerAt(caller[q])'
    <3> PICK d : d = caller'[q] OBVIOUS
    <3>1. IsCaller(d)' /\ CallerAt(d)' BY <2>2 DEF TInv, Calling
    <3> QED BY <3>1, <1>CallerThen
  <2> QED BY <2>1, <2>3 DEF TInv, Calling, Stable, PreInstall
<1>WorkerMoves.
  ASSUME Stable, NEW w \in Workers, NEW r \in WorkerType, WorkerAt(r), SetWorker(w, r)
  PROVE  Working'
  <2> USE <1>WorkerMoves
  <2>1. worker' \in [Workers -> WorkerType'] BY <1>Keeps DEF SetWorker, TInv, Working
  <2>2. \A d : WorkerAt(d) => WorkerAt(d)' BY <1>Keeps DEF WorkerAt
  <2>3. ASSUME NEW v \in Workers PROVE WorkerAt(worker[v])'
    <3> PICK d : d = worker'[v] OBVIOUS
    <3>1. WorkerAt(d) BY DEF SetWorker, TInv, Working
    <3>2. WorkerAt(d)' BY <2>2, <3>1
    <3> QED BY <3>2 DEF WorkerAt, Made
  <2> QED BY <2>1, <2>3 DEF Working
<1>Idlers.
  ASSUME Fixed PROVE AtPop \in WorkerType /\ WorkerAt(AtPop) /\ Returned \in WorkerType /\ WorkerAt(Returned)
  <2> USE <1>Idlers
  <2>1. NoEvent \in Event BY Nothing
  <2> QED BY <2>1 DEF AtPop, Returned, WorkerType, WorkerAt
(* A worker goes on with the event it has. *)
<1>WorkerGoesOn.
  ASSUME Stable, NEW w \in Workers, NEW place \in {"attempt", "send", "failed", "exhausted"},
         worker[w].pc \notin {"pop", "done"}, place = "send" => worker[w].event.attempts < Attempts,
         SetWorker(w, [worker[w] EXCEPT !.pc = place])
  PROVE  Working'
  <2> USE <1>WorkerGoesOn
  <2> DEFINE r == [worker[w] EXCEPT !.pc = place]
  <2>1. worker[w] \in WorkerType /\ WorkerAt(worker[w]) BY DEF TInv, Working
  <2>2. r \in WorkerType /\ WorkerAt(r) BY <2>1 DEF WorkerType, WorkerAt
  <2>3. SetWorker(w, r) OBVIOUS
  <2> HIDE DEF r
  <2> QED BY <2>2, <2>3, <1>WorkerMoves
<1>TicketDone. ASSUME NEW t, Numbered(t), NEW n PROVE Numbered(FinishTurn(t, n))
  BY <1>TicketDone DEF FinishTurn, AdvanceCanceled, Numbered
<1>TurnEnds.
  ASSUME Stable, NEW e, Made(e), turns' = [turns EXCEPT ![e.client] = FinishTurn(@, e.order)],
         UNCHANGED <<sendQueue, retryQueue>>
  PROVE  Queueing'
  <2> USE <1>TurnEnds
  <2> DEFINE t == FinishTurn(turns[e.client], e.order)
  <2>1. e.client \in Client BY AnObject DEF TInv, Made
  <2>2. Numbered(t) BY <2>1, <1>TicketDone DEF TInv, Queueing
  <2>3. turns' = [turns EXCEPT ![e.client] = t] OBVIOUS
  <2> HIDE DEF t
  <2>4. turns' = [h \in Client |-> turns'[h]] /\ \A h \in Client : Numbered(turns'[h])
    BY <2>1, <2>2, <2>3, <1>TicketsNumbered DEF TInv
  <2>5. \A f \in sendQueue' \cup retryQueue' : Made(f)' BY <1>Keeps DEF TInv, Queueing
  <2> QED BY <2>4, <2>5 DEF Queueing, Numbered
<1>RoundEnds.
  ASSUME Stable, NEW w \in Workers, NEW retry \in BOOLEAN, EndRound(w, retry),
         worker[w].pc \notin {"pop", "done"}
  PROVE  Working' /\ Queueing' /\ UNCHANGED arrivals
  <2> USE <1>RoundEnds
  <2> DEFINE r == worker[w]
             s == IF retry THEN [r EXCEPT !.pc = "schedule", !.inTurn = FALSE] ELSE AtPop
  <2>1. r \in WorkerType /\ WorkerAt(r) /\ Made(r.event) BY DEF TInv, Working, WorkerAt
  <2>2. s \in WorkerType /\ WorkerAt(s)
    <3>1. CASE retry BY <2>1, <3>1 DEF WorkerType, WorkerAt
    <3>2. CASE ~retry BY <3>2, <1>Idlers DEF TInv
    <3> QED BY <3>1, <3>2
  <2>3. SetWorker(w, s) BY DEF EndRound
  <2> HIDE DEF s
  <2>4. Working' BY <2>2, <2>3, <1>WorkerMoves
  <2>5. CASE r.inTurn BY <2>1, <2>4, <2>5, <1>TurnEnds DEF EndRound
  <2>6. CASE ~r.inTurn BY <2>4, <2>6, <1>Stays DEF EndRound
  <2> QED BY <2>5, <2>6
<1>WorkerStays.
  ASSUME UNCHANGED <<others, scheduler>>, Working', Queueing', UNCHANGED arrivals, Identified', Received'
  PROVE  TInv'
  <2> USE <1>WorkerStays
  <2>1. Stable /\ Calling' BY <1>CallsKeep DEF others, calls, counters
  <2> QED BY <2>1, <1>Stays DEF TInv, others, calls, counters
<1>WorkerTakes.
  ASSUME NEW w \in Workers, Pop(w) \/ PopClosed(w) \/ WaitForTurn(w) \/ RetryDue(w) \/ Schedule(w)
  PROVE  TInv'
  <2> USE <1>WorkerTakes
  <2> USE DEF others, calls, counters, queues
  <2>1. Stable /\ Identified' /\ Received' /\ UNCHANGED <<others, scheduler, arrivals>>
    <3>1. UNCHANGED <<others, client, sent, scheduler, arrivals>>
      BY DEF Pop, PopClosed, WaitForTurn, RetryDue, Schedule
    <3>2. Stable BY <3>1, <1>CallsKeep
    <3> QED BY <3>1, <3>2, <1>Stays
  <2>2. /\ SetWorker(w, AtPop) \/ SetWorker(w, Returned) => Working'
        /\ UNCHANGED <<sendQueue, retryQueue, turns>> => Queueing'
    BY <2>1, <1>Idlers, <1>WorkerMoves, <1>Stays DEF TInv
  <2>3. ASSUME NEW e, Made(e), NEW place \in {"turn", "pending"}, NEW b \in BOOLEAN,
               SetWorker(w, [pc |-> place, event |-> e, inTurn |-> b])
        PROVE  Working'
    <3> DEFINE r == [pc |-> place, event |-> e, inTurn |-> b]
    <3>1. r \in WorkerType /\ WorkerAt(r) BY <2>3 DEF WorkerType, WorkerAt, Made
    <3> QED BY <2>1, <2>3, <3>1, <1>WorkerMoves
  <2>4. CASE Pop(w)
    <3>1. PICK e \in sendQueue :
            sendQueue' = sendQueue \ {e} /\ SetWorker(w, [pc |-> "turn", event |-> e, inTurn |-> TRUE])
      BY <2>4 DEF Pop
    <3>2. Made(e) BY DEF TInv, Queueing
    <3>3. Working' BY <2>3, <3>1, <3>2
    <3>4. Queueing' BY <2>1, <2>4, <3>1, <1>Keeps DEF Pop, TInv, Queueing, Numbered
    <3> QED BY <2>1, <3>3, <3>4, <1>WorkerStays
  <2>5. CASE PopClosed(w) BY <2>1, <2>2, <2>5, <1>WorkerStays DEF PopClosed
  <2>6. CASE WaitForTurn(w) \/ RetryDue(w)
    <3>1. CASE SetWorker(w, AtPop) BY <2>1, <2>2, <2>6, <3>1, <1>WorkerStays DEF WaitForTurn, RetryDue
    <3>2. CASE SetWorker(w, [worker[w] EXCEPT !.pc = "attempt"])
      <4>1. Working' BY <2>1, <2>6, <3>2, <1>WorkerGoesOn DEF WaitForTurn, RetryDue
      <4> QED BY <2>1, <2>2, <2>6, <4>1, <1>WorkerStays DEF WaitForTurn, RetryDue
    <3> QED BY <2>6, <3>1, <3>2 DEF WaitForTurn, RetryDue
  <2>7. CASE Schedule(w)
    <3> DEFINE all == retryQueue \cup {worker[w].event}
    <3>1. \A f \in all : Made(f) BY <2>7 DEF Schedule, TInv, Queueing, Working, WorkerAt
    <3>2. retryQueue' \subseteq all /\ Working'
      <4>1. ASSUME NEW f \in all, retryQueue' = all \ {f},
                   SetWorker(w, [pc |-> "pending", event |-> f, inTurn |-> FALSE])
            PROVE  retryQueue' \subseteq all /\ Working'
        BY <2>3, <3>1, <4>1
      <4> QED BY <2>2, <2>7, <4>1 DEF Schedule
    <3>3. Queueing' BY <2>1, <2>7, <3>1, <3>2, <1>Keeps DEF Schedule, TInv, Queueing, Numbered
    <3> QED BY <2>1, <3>2, <3>3, <1>WorkerStays
  <2> QED BY <2>4, <2>5, <2>6, <2>7
<1>WorkerSends.
  ASSUME NEW w \in Workers,
         Attempt(w) \/ AfterFailure(w) \/ SendBegin(w) \/ \E o : SendEnd(w, o)
  PROVE  TInv'
  <2> USE <1>WorkerSends
  <2> DEFINE e == worker[w].event
             r == [worker[w] EXCEPT !.pc = "sending", !.event = Attempted(e)]
  <2> USE DEF others, calls, counters
  <2>1. /\ worker[w] \in WorkerType /\ WorkerAt(worker[w]) /\ Made(e)
        /\ UNCHANGED <<options, created, caller, others, scheduler>>
    BY DEF Attempt, AfterFailure, SendBegin, SendEnd, TInv, Working, WorkerAt
  <2>2. Stable BY <2>1, <1>CallsKeep
  <2>3. UNCHANGED queues => Queueing' /\ UNCHANGED arrivals BY <2>2, <1>Stays DEF queues
  <2>4. UNCHANGED client => Identified' BY <2>1, <2>2, <1>Stays
  <2>5. UNCHANGED sent => Received' BY <2>2, <1>Stays
  <2>6. CASE Attempt(w)
    <3>1. CASE EndRound(w, FALSE)
      BY <2>1, <2>2, <2>4, <2>5, <2>6, <3>1, <1>RoundEnds, <1>WorkerStays DEF Attempt
    <3>2. CASE /\ SetWorker(w, [worker[w] EXCEPT !.pc = IF e.attempts < Attempts THEN "send" ELSE "exhausted"])
               /\ UNCHANGED queues
      <4>1. Working' BY <2>2, <2>6, <3>2, <1>WorkerGoesOn DEF Attempt
      <4> QED BY <2>1, <2>3, <2>4, <2>5, <2>6, <3>2, <4>1, <1>WorkerStays DEF Attempt
    <3> QED BY <2>6, <3>1, <3>2 DEF Attempt
  <2>7. CASE AfterFailure(w)
    <3>1. CASE EndRound(w, FALSE) \/ EndRound(w, TRUE)
      BY <2>1, <2>2, <2>4, <2>5, <2>7, <3>1, <1>RoundEnds, <1>WorkerStays DEF AfterFailure
    <3>2. CASE SetWorker(w, [worker[w] EXCEPT !.pc = "exhausted"]) /\ UNCHANGED queues
      <4>1. Working' BY <2>2, <2>7, <3>2, <1>WorkerGoesOn DEF AfterFailure
      <4> QED BY <2>1, <2>3, <2>4, <2>5, <2>7, <3>2, <4>1, <1>WorkerStays DEF AfterFailure
    <3> QED BY <2>7, <3>1, <3>2 DEF AfterFailure
  <2>8. CASE SendBegin(w) /\ ~MaySend(e.client)
    BY <2>1, <2>2, <2>4, <2>5, <2>8, <1>RoundEnds, <1>WorkerStays DEF SendBegin
  <2>9. CASE SendBegin(w) /\ MaySend(e.client)
    <3>1. /\ Attempted(e) \in Event /\ Attempted(e).client = e.client /\ Attempted(e).pub = e.pub
      BY <2>1, <2>9, <1>Counted DEF SendBegin, WorkerAt, Made
    <3>2. Made(Attempted(e)) BY <2>1, <3>1 DEF Made
    <3>3. r \in WorkerType /\ r.pc = "sending" /\ r.event = Attempted(e) BY <2>1, <3>1 DEF WorkerType
    <3>4. SetWorker(w, r) /\ BeginSend(e.client, w) /\ UNCHANGED queues BY <2>9 DEF SendBegin
    <3> HIDE DEF r
    <3>5. WorkerAt(r) BY <3>2, <3>3 DEF WorkerAt
    <3>6. Working' BY <2>2, <3>3, <3>4, <3>5, <1>WorkerMoves
    <3>7. Identified' BY <2>1, <3>4, <1>Begun DEF Made, Owners
    <3> QED BY <2>1, <2>3, <2>5, <2>9, <3>4, <3>6, <3>7, <1>WorkerStays DEF SendBegin
  <2>10. ASSUME NEW o, SendEnd(w, o) PROVE TInv'
    <3>1. Identified' /\ Received' BY <2>1, <2>10, <1>Ended DEF SendEnd
    <3>2. Working' /\ Queueing' /\ UNCHANGED arrivals
      <4>1. CASE o = "ok" BY <2>2, <2>10, <4>1, <1>RoundEnds DEF SendEnd
      <4>2. CASE o # "ok" BY <2>2, <2>3, <2>10, <4>2, <1>WorkerGoesOn DEF SendEnd
      <4> QED BY <4>1, <4>2
    <3> QED BY <2>1, <3>1, <3>2, <1>WorkerStays
  <2> QED BY <2>6, <2>7, <2>8, <2>9, <2>10
<1>ExhaustTyped. ASSUME NEW w \in Workers, Exhaust(w) PROVE TInv'
  <2> USE <1>ExhaustTyped
  <2> DEFINE g == worker[w].event.client
             c == [Idle EXCEPT !.pc = "spawned", !.op = "unregister", !.id = client[g].id]
             r == [client[g] EXCEPT !.inactive = TRUE]
  <2> USE DEF calls, counters
  <2>1. worker[w].pc = "exhausted" /\ g \in Known /\ UNCHANGED <<options, created>>
    BY DEF Exhaust, TInv, Working, WorkerAt, Made
  <2>2. g \in Client /\ g \in Actors /\ client[g] \in ClientType /\ client[g].id \in ClientIDs
    BY <2>1, AnObject DEF TInv, Identified, Actors
  <2>3. Stable /\ Calling' /\ Identified'
    <3>1. CASE ~IsActive(g)
      <4>1. UNCHANGED <<caller, client>> BY <3>1 DEF Exhaust
      <4> QED BY <2>1, <4>1, <1>CallsKeep, <1>Stays
    <3>2. CASE IsActive(g)
      <4>1. IsCaller(Idle) BY Nothing DEF TInv
      <4>2. IsCaller(c) /\ c.pc = "spawned" /\ c.op = "unregister" /\ c.id = client[g].id
        BY <2>2, <4>1 DEF IsCaller
      <4>3. caller' = [caller EXCEPT ![g] = c] /\ client' = [client EXCEPT ![g] = r]
        BY <3>2 DEF Exhaust, Spawn
      <4>4. r \in ClientType /\ r.id = client[g].id BY <2>2, <1>ObjectChanges DEF ClientType
      <4> HIDE DEF c, r
      <4>5. CallerAt(c) /\ ~PreInstall(c) BY <2>2, <4>2 DEF CallerAt, PreInstall
      <4>6. Calling' /\ Stable BY <2>1, <2>2, <4>2, <4>3, <4>5, <1>CallerSteps, <1>CallerAtStays DEF TInv
      <4> QED BY <2>1, <2>2, <4>3, <4>4, <4>6, <1>Changed
    <3> QED BY <3>1, <3>2
  <2>4. Working' /\ Queueing' /\ UNCHANGED arrivals BY <2>1, <2>3, <1>RoundEnds DEF Exhaust
  <2> QED BY <2>3, <2>4, <1>Stays DEF Exhaust, TInv
<1>SchedulerTyped. ASSUME SchedulerStep PROVE TInv'
  <2> USE <1>SchedulerTyped
  <2> USE DEF others, calls, counters, queues
  <2>1. UNCHANGED <<others, client, sent, worker>> BY DEF SchedulerStep, PopDue, PushRetry, SchedulerReturns
  <2>2. Stable /\ Calling' BY <2>1, <1>CallsKeep
  <2>3. SUFFICES Scheduling' /\ Queueing' /\ arrivals' \in Nat
    <3>1. arrivals' \in Nat => Fixed' BY <2>1 DEF TInv, Fixed, MaxPublished
    <3> QED BY <2>1, <2>2, <3>1, <1>Stays DEF TInv
  <2>4. NoEvent \in Event /\ arrivals \in Nat BY Nothing DEF TInv, Fixed
  <2>5. CASE PopDue
    <3>1. PICK e \in retryQueue : /\ retryQueue' = retryQueue \ {e}
                                  /\ scheduler' = IF IsCurrentEvent(e) THEN [pc |-> "push", event |-> e] ELSE scheduler
      BY <2>5 DEF PopDue
    <3>2. Made(e) /\ Made(e)' BY <2>2, <1>Keeps DEF TInv, Queueing
    <3>3. Scheduling'
      <4>1. CASE scheduler' = scheduler BY <2>2, <4>1, <1>Stays
      <4>2. CASE scheduler' = [pc |-> "push", event |-> e]
        BY <2>2, <3>2, <4>2, <1>Keeps DEF Scheduling, Made
      <4> QED BY <3>1, <4>1, <4>2
    <3>4. Queueing' BY <2>2, <2>5, <3>1, <1>Keeps DEF PopDue, TInv, Queueing, Numbered
    <3> QED BY <2>4, <2>5, <3>3, <3>4 DEF PopDue
  <2>6. CASE PushRetry
    <3>1. Made(scheduler.event) BY <2>6 DEF PushRetry, TInv, Scheduling
    <3>2. Queueing' /\ arrivals' \in Nat BY <2>2, <2>6, <3>1, <1>Pushed DEF PushRetry
    <3>3. Scheduling' BY <2>2, <2>4, <2>6, <1>Keeps DEF PushRetry, Scheduling
    <3> QED BY <3>2, <3>3
  <2>7. CASE SchedulerReturns
    <3>1. Scheduling' BY <2>2, <2>4, <2>7, <1>Keeps DEF SchedulerReturns, Scheduling
    <3> QED BY <2>2, <2>4, <2>7, <3>1, <1>Stays DEF SchedulerReturns
  <2> QED BY <2>5, <2>6, <2>7 DEF SchedulerStep
(* The shutdown. *)
<1>ShutdownStays.
  ASSUME UNCHANGED <<background, arrivals>>, closing' \in Open .. ShutdownDone,
         Closing', Queueing', Identified', Received'
  PROVE  TInv'
  <2> USE <1>ShutdownStays
  <2> USE DEF background, calls, counters
  <2>1. Stable /\ Calling' BY <1>CallsKeep
  <2>2. Fixed' BY DEF TInv, Fixed, MaxPublished
  <2> QED BY <2>1, <2>2, <1>Stays DEF TInv
<1>Phases.
  ASSUME Fixed
  PROVE  /\ closing < Stopped => closing + 1 \in Open .. ShutdownDone
         /\ {closing, Flushing, Retiring, ShutdownDone} \subseteq Open .. ShutdownDone
  BY <1>Phases, SMT DEF Fixed, Open, ShutdownDone, Stopped, Flushing, Retiring
(* The shutdown goes on to c. *)
<1>CloserMoves.
  ASSUME Stable, NEW c \in CloserType, c.retire \subseteq Known, c.pc = "close" => c.event.client \in Known,
         \A e \in c.flush : Made(e), c.pc \in {"send", "sending"} => Made(c.event),
         c.pc = "send" => c.event.attempts < Attempts, closer' = c
  PROVE  Closing'
  BY <1>CloserMoves, <1>Keeps DEF Closing, Stable
<1>FlushEnds.
  ASSUME Stable, FlushDone, closer.pc \in {"send", "sending"}
  PROVE  Closing' /\ Queueing' /\ UNCHANGED arrivals
  <2> USE <1>FlushEnds
  <2>1. NoEvent \in Event BY Nothing DEF TInv
  <2> DEFINE c == [closer EXCEPT !.pc = "idle", !.event = NoEvent]
  <2>2. c \in CloserType /\ c.pc = "idle" /\ c.flush = closer.flush /\ c.retire = closer.retire
    BY <2>1 DEF TInv, Closing, CloserType
  <2>3. closer' = c BY DEF FlushDone
  <2> HIDE DEF c
  <2>4. Closing' BY <2>2, <2>3, <1>CloserMoves DEF TInv, Closing
  <2>5. Made(closer.event) BY DEF TInv, Closing
  <2>6. Queueing' BY <2>5, <1>TurnEnds DEF FlushDone
  <2> QED BY <2>4, <2>6 DEF FlushDone
<1>FlushTyped. ASSUME FlushNext \/ FlushSend \/ \E o : FlushSent(o) PROVE TInv'
  <2> USE <1>FlushTyped
  <2> DEFINE e == closer.event
  <2> USE DEF background, calls, counters
  <2>1. UNCHANGED <<background, closing>> BY DEF FlushNext, FlushSend, FlushSent
  <2>2. Stable BY <2>1, <1>CallsKeep
  <2>3. closing' \in Open .. ShutdownDone BY <2>1 DEF TInv, Fixed
  <2>4. UNCHANGED client => Identified' BY <2>1, <2>2, <1>Stays
  <2>5. UNCHANGED sent => Received' BY <2>2, <1>Stays
  <2>6. closer \in CloserType /\ closer.retire \subseteq Known /\ \A f \in closer.flush : Made(f) BY DEF TInv, Closing
  <2>7. CASE FlushNext
    <3>1. PICK f \in closer.flush :
           \/ /\ f.attempts < Attempts
              /\ closer' = [closer EXCEPT !.pc = "send", !.event = f, !.flush = @ \ {f}]
              /\ UNCHANGED turns
           \/ /\ closer' = [closer EXCEPT !.flush = @ \ {f}]
              /\ turns' = [turns EXCEPT ![f.client] = FinishTurn(@, f.order)]
      BY <2>7 DEF FlushNext
    <3>2. Made(f) /\ f \in Event BY <2>6 DEF Made
    <3>3. CASE f.attempts < Attempts /\ closer' = [closer EXCEPT !.pc = "send", !.event = f, !.flush = @ \ {f}]
               /\ UNCHANGED turns
      <4> DEFINE c == [closer EXCEPT !.pc = "send", !.event = f, !.flush = @ \ {f}]
      <4>1. c \in CloserType /\ c.pc = "send" /\ c.event = f /\ c.flush \subseteq closer.flush
            /\ c.retire = closer.retire
        BY <2>6, <3>2 DEF CloserType
      <4>2. closer' = c BY <3>3
      <4> HIDE DEF c
      <4>3. Closing' BY <2>2, <2>6, <3>2, <3>3, <4>1, <4>2, <1>CloserMoves
      <4> QED BY <2>1, <2>2, <2>3, <2>4, <2>5, <2>7, <3>3, <4>3, <1>Stays, <1>ShutdownStays DEF FlushNext
    <3>4. CASE closer' = [closer EXCEPT !.flush = @ \ {f}]
               /\ turns' = [turns EXCEPT ![f.client] = FinishTurn(@, f.order)]
      <4> DEFINE c == [closer EXCEPT !.flush = @ \ {f}]
      <4>1. c \in CloserType /\ c.pc = "idle" /\ c.flush \subseteq closer.flush /\ c.retire = closer.retire
        BY <2>6, <2>7 DEF CloserType, FlushNext
      <4>2. closer' = c BY <3>4
      <4> HIDE DEF c
      <4>3. Closing' BY <2>2, <2>6, <4>1, <4>2, <1>CloserMoves
      <4>4. Queueing' BY <2>2, <2>7, <3>2, <3>4, <1>TurnEnds DEF FlushNext
      <4> QED BY <2>1, <2>3, <2>4, <2>5, <2>7, <4>3, <4>4, <1>ShutdownStays DEF FlushNext
    <3> QED BY <3>1, <3>3, <3>4
  <2>8. CASE FlushSend /\ ~MaySend(e.client)
    BY <2>1, <2>2, <2>3, <2>4, <2>5, <2>8, <1>FlushEnds, <1>ShutdownStays DEF FlushSend
  <2>9. CASE FlushSend /\ MaySend(e.client)
    <3> DEFINE c == [closer EXCEPT !.pc = "sending", !.event = Attempted(e)]
    <3>1. Made(e) /\ e.attempts < Attempts /\ e \in Event BY <2>9 DEF FlushSend, TInv, Closing, Made
    <3>2. Attempted(e) \in Event /\ Attempted(e).client = e.client /\ Attempted(e).pub = e.pub
      BY <3>1, <1>Counted
    <3>3. Made(Attempted(e)) BY <3>1, <3>2 DEF Made
    <3>4. c \in CloserType /\ c.pc = "sending" /\ c.event = Attempted(e) /\ c.flush = closer.flush
          /\ c.retire = closer.retire
      BY <2>6, <3>2 DEF CloserType
    <3>5. closer' = c /\ BeginSend(e.client, Closer) /\ UNCHANGED queues BY <2>9 DEF FlushSend
    <3> HIDE DEF c
    <3>6. Closing' BY <2>2, <2>6, <3>3, <3>4, <3>5, <1>CloserMoves
    <3>7. Identified' BY <2>1, <3>1, <3>5, <1>Begun DEF Made, Owners
    <3> QED BY <2>1, <2>2, <2>3, <2>5, <2>9, <3>5, <3>6, <3>7, <1>Stays, <1>ShutdownStays DEF FlushSend, queues
  <2>10. ASSUME NEW o, FlushSent(o) PROVE TInv'
    <3>1. Made(e) BY <2>10 DEF FlushSent, TInv, Closing
    <3>2. Identified' /\ Received' BY <2>1, <2>10, <3>1, <1>Ended DEF FlushSent
    <3>3. Closing' /\ Queueing' /\ UNCHANGED arrivals BY <2>2, <2>10, <1>FlushEnds DEF FlushSent
    <3> QED BY <2>1, <2>3, <3>2, <3>3, <1>ShutdownStays
  <2> QED BY <2>7, <2>8, <2>9, <2>10
<1>ShutdownTyped.
  ASSUME CloseStep \/ Drain \/ RetireAll \/ RetireNext \/ RetireClose \/ FinishShutdown
  PROVE  TInv'
  <2> USE <1>ShutdownTyped
  <2> USE DEF background, calls, counters, queues
  <2>1. UNCHANGED <<background, sent, turns, arrivals>>
    BY DEF CloseStep, Drain, RetireAll, RetireNext, RetireClose, FinishShutdown
  <2>2. Stable BY <2>1, <1>CallsKeep
  <2>3. closing' \in Open .. ShutdownDone
    BY <1>Phases DEF TInv, CloseStep, Drain, RetireAll, RetireNext, RetireClose, FinishShutdown
  <2>4. Queueing'
    <3>1. sendQueue' \subseteq sendQueue /\ retryQueue' \subseteq retryQueue
      BY DEF CloseStep, Drain, RetireAll, RetireNext, RetireClose, FinishShutdown
    <3> QED BY <2>1, <2>2, <3>1, <1>Keeps DEF TInv, Queueing, Numbered
  <2>5. Received' BY <2>1, <2>2, <1>Stays
  <2>6. UNCHANGED client => Identified' BY <2>1, <2>2, <1>Stays
  <2>7. ASSUME NEW g \in Known, NEW r, client' = [client EXCEPT ![g] = r],
               r = [client[g] EXCEPT !.inactive = TRUE] \/ r = [client[g] EXCEPT !.connectionClosed = TRUE]
        PROVE  Identified'
    <3>1. g \in Client /\ client[g] \in ClientType BY AnObject DEF TInv, Identified
    <3>2. /\ [client[g] EXCEPT !.inactive = TRUE] \in ClientType
          /\ [client[g] EXCEPT !.connectionClosed = TRUE] \in ClientType
      BY <3>1, <1>ObjectChanges
    <3>3. r \in ClientType /\ r.id = client[g].id BY <2>7, <3>1, <3>2 DEF ClientType
    <3> QED BY <2>1, <2>7, <3>1, <3>3, <1>Changed
  <2>8. closer \in CloserType /\ closer.retire \subseteq Known /\ (\A f \in closer.flush : Made(f)) /\ NoEvent \in Event
    BY Nothing DEF TInv, Closing
  <2>9. CASE CloseStep \/ FinishShutdown
    <3>1. UNCHANGED <<closer, client>> BY <2>9 DEF CloseStep, FinishShutdown
    <3> QED BY <2>1, <2>2, <2>3, <2>4, <2>5, <2>6, <3>1, <1>Stays, <1>ShutdownStays
  <2>10. CASE Drain
    <3> DEFINE c == [closer EXCEPT !.flush = sendQueue]
    <3>1. \A f \in sendQueue : Made(f) /\ f \in Event BY DEF TInv, Queueing, Made
    <3>2. /\ c \in CloserType /\ c.pc = closer.pc /\ c.event = closer.event /\ c.flush = sendQueue
          /\ c.retire = closer.retire
      BY <2>8, <3>1 DEF CloserType
    <3>3. closer' = c BY <2>10 DEF Drain
    <3> HIDE DEF c
    <3>4. Closing' BY <2>2, <3>1, <3>2, <3>3, <1>CloserMoves DEF TInv, Closing
    <3> QED BY <2>1, <2>3, <2>4, <2>5, <2>6, <2>10, <3>4, <1>ShutdownStays DEF Drain
  <2>11. CASE RetireAll
    <3> DEFINE c == [closer EXCEPT !.retire = {clients[i] : i \in ClientIDs} \ {NoClient}]
    <3>1. {clients[i] : i \in ClientIDs} \ {NoClient} \subseteq Known BY ClientOf
    <3>2. /\ c \in CloserType /\ c.pc = "idle" /\ c.flush = closer.flush
          /\ c.retire = {clients[i] : i \in ClientIDs} \ {NoClient}
      BY <2>8, <2>11, <3>1, AnObject DEF CloserType, RetireAll, TInv
    <3>3. closer' = c BY <2>11 DEF RetireAll
    <3> HIDE DEF c
    <3>4. Closing' BY <2>2, <2>8, <3>1, <3>2, <3>3, <1>CloserMoves
    <3> QED BY <2>1, <2>3, <2>4, <2>5, <2>6, <2>11, <3>4, <1>ShutdownStays DEF RetireAll
  <2>12. CASE RetireNext
    <3>1. PICK g \in closer.retire :
            /\ client' = [client EXCEPT ![g].inactive = TRUE]
            /\ closer' = [closer EXCEPT !.pc = "close", !.event.client = g, !.retire = @ \ {g}]
      BY <2>12 DEF RetireNext
    <3> DEFINE f == [closer.event EXCEPT !.client = g]
               c == [closer EXCEPT !.pc = "close", !.event = f, !.retire = closer.retire \ {g}]
    <3>2. g \in Known /\ g \in 0 .. MaxClients BY <2>8, AnObject, SMT DEF TInv, Client
    <3>3. f \in Event /\ f.client = g BY <2>8, <3>2 DEF Event, CloserType
    <3>4. closer' = c BY <3>1
    <3> HIDE DEF f
    <3>5. /\ c \in CloserType /\ c.pc = "close" /\ c.event = f /\ c.flush = closer.flush
          /\ c.retire \subseteq closer.retire
      BY <2>8, <3>3 DEF CloserType
    <3> HIDE DEF c
    <3>6. Closing' BY <2>2, <2>8, <3>2, <3>3, <3>4, <3>5, <1>CloserMoves
    <3>7. Identified' BY <2>7, <3>1, <3>2
    <3> QED BY <2>1, <2>3, <2>4, <2>5, <2>12, <3>6, <3>7, <1>ShutdownStays
  <2>13. CASE RetireClose
    <3> DEFINE c == [closer EXCEPT !.pc = "idle", !.event = NoEvent]
    <3>1. c \in CloserType /\ c.pc = "idle" /\ c.flush = closer.flush /\ c.retire = closer.retire
      BY <2>8 DEF CloserType
    <3>2. closer' = c BY <2>13 DEF RetireClose
    <3> HIDE DEF c
    <3>3. Closing' BY <2>2, <2>8, <3>1, <3>2, <1>CloserMoves
    <3>4. closer.event.client \in Known BY <2>13 DEF RetireClose, TInv, Closing
    <3>5. Identified' BY <2>7, <2>13, <3>4 DEF RetireClose
    <3> QED BY <2>1, <2>3, <2>4, <2>5, <3>3, <3>5, <1>ShutdownStays
  <2> QED BY <2>9, <2>10, <2>11, <2>12, <2>13
<1> SUFFICES ASSUME [Next]_vars PROVE TInv' OBVIOUS
<1>1. CASE UNCHANGED vars
  <2> USE DEF vars, counters
  <2>1. Stable /\ Calling' BY <1>1, <1>CallsKeep
  <2> QED BY <1>1, <2>1, <1>Stays DEF TInv
<1>2. ASSUME NEW p \in Callers, StartCall(p) \/ TakeLock(p) \/ PushFails(p) \/ HandleFails(p) PROVE TInv'
  BY <1>2, <1>StartCallTyped, <1>ContinueCallTyped DEF Actors
<1>3. ASSUME NEW p \in Actors, ContinueCall(p) PROVE TInv' BY <1>3, <1>ContinueCallTyped
<1>4. ASSUME NEW g \in Client, Removal(g) PROVE TInv' BY <1>4, <1>RemovalTyped
<1>5. ASSUME NEW i \in ClientIDs, SetSubscribed(subs \cup {i}) \/ SetSubscribed(subs \ {i}) PROVE TInv'
  BY <1>5, <1>SubscribeTyped DEF TInv, Registered
<1>6. ASSUME NEW w \in Workers, WorkerStep(w) PROVE TInv'
  BY <1>6, <1>WorkerTakes, <1>WorkerSends, <1>ExhaustTyped DEF WorkerStep
<1>7. CASE ShutdownStep \/ CloseStep BY <1>7, <1>FlushTyped, <1>ShutdownTyped DEF ShutdownStep
<1> QED BY <1>1, <1>2, <1>3, <1>4, <1>5, <1>6, <1>7, <1>SchedulerTyped DEF Next, Rest, Actors

LEMMA Shaped == Spec => []TInv
  BY TypeInit, TypeStep, PTL DEF Spec

-----------------------------------------------------------------------------
(* The places where a call has the lifecycle lock of its ID; a registration *)
(* after its client is installed; a removal that has yet to clear the       *)
(* history.                                                                 *)
Holding(c) ==
  \/ c.pc \in {"retire", "close", "removeSend", "removeRetry", "install", "replay", "backlog", "push"}
  \/ c.pc \in {"send", "sending"} /\ c.op # "publish"
PastInstall(c) == c.op = "register" /\ c.pc # "spawned" /\ ~PreInstall(c)
Removing(c, i) == c.id = i /\ c.op = "unregister" /\ c.pc \in {"removeSend", "removeRetry"}

(* What a goroutine p relies on at place c of a call. *)
SafeAt(p, c) ==
  /\ Holding(c) => lifecycle[c.id] = p
  /\ PreInstall(c) => /\ client[c.fresh].id = c.id /\ MuFree(c.fresh)
                      /\ c.target = clients[c.id] /\ c.target < c.fresh
  /\ PastInstall(c) => Holding(c) /\ clients[c.id] = c.fresh /\ (c.pc # "replay" => c.target = c.fresh)
  /\ c.pc = "close" => client[c.target].inactive
  /\ c.pc = "sending" => client[c.target].mu = p
  /\ (c.op = "register" /\ c.pc \in {"removeSend", "removeRetry", "install", "replay"} /\ c.target # NoClient) =>
        /\ c.target \in Objs
        /\ client[c.target].connectionClosed \/ client[c.target].connection = client[c.fresh].connection
  /\ (c.op = "disconnect" /\ c.pc \in {"removeSend", "removeRetry"}) => client[c.target].connectionClosed
  /\ c.op \in {"disconnect", "unregister"} =>
        c.fresh = NoClient /\ (Holding(c) => client[c.target].id = c.id)
  /\ c.pc = "spawned" => p \in Objs /\ c.op = "unregister" /\ c.id = client[p].id
  /\ (p \in Client /\ c.pc # "idle") => p \in Objs /\ client[p].inactive

(* A closed connection belongs to a client that is inactive and that nobody *)
(* sends to; a completed one has received its event.                        *)
ObjSafe(g) ==
  /\ client[g].connectionClosed => client[g].inactive /\ MuFree(g)
  /\ (client[g].complete /\ sent[g] # <<>>) => client[g].connectionClosed /\ Len(sent[g]) = 1
  /\ g \notin Objs => ~client[g].connectionClosed /\ sent[g] = <<>>

IDSafe(i) ==
  /\ clients[i] # NoClient => client[clients[i]].id = i
  /\ (clients[i] = NoClient /\ store[i] # <<>>) =>
        lifecycle[i] \in Actors /\ Removing(caller[lifecycle[i]], i)

(* What the shutdown has left to do. *)
CloserSafe ==
  /\ closer.pc = "sending" => client[closer.event.client].mu = Closer
  /\ closer.pc = "close" => client[closer.event.client].inactive
  /\ closer.pc \in {"send", "sending"} => closing = Flushing
  /\ closer.pc = "close" => closing = Retiring
  /\ closing >= Flushing => sendQueue = {} /\ retryQueue = {}
  /\ closing >= Retiring =>
       \A i \in ClientIDs : clients[i] # NoClient =>
          \/ clients[i] \in closer.retire
          \/ closer.pc = "close" /\ closer.event.client = clients[i]
          \/ client[clients[i]].connectionClosed
  /\ closing = ShutdownDone => closer.retire = {} /\ closer.pc = "idle"

Sending == \A w \in Workers : worker[w].pc = "sending" => client[worker[w].event.client].mu = w

SInv ==
  /\ \A p \in Actors : SafeAt(p, caller[p])
  /\ \A g \in Client : ObjSafe(g)
  /\ \A i \in ClientIDs : IDSafe(i)
  /\ Sending /\ CloserSafe

-----------------------------------------------------------------------------
(* What a step of goroutine m leaves alone: it does not undo what was done  *)
(* to a client object, take a mutex from its owner, or touch the calls of   *)
(* others, the locks they have and what these locks protect.                *)
ObjectKept(g, m) ==
  /\ client'[g].id = client[g].id /\ client'[g].connection = client[g].connection
  /\ client'[g].complete = client[g].complete
  /\ client[g].inactive => client'[g].inactive
  /\ client[g].connectionClosed => client'[g].connectionClosed
  /\ client[g].mu \notin {Nobody, m} => client'[g].mu = client[g].mu
OtherKept(q) ==
  /\ caller'[q] = caller[q]
  /\ PreInstall(caller[q]) => client'[caller[q].fresh].mu = client[caller[q].fresh].mu
  /\ \A i \in ClientIDs : lifecycle[i] = q => lifecycle'[i] = q /\ clients'[i] = clients[i]
Frame(m) ==
  /\ Objs \subseteq Objs'
  /\ \A g \in Objs : ObjectKept(g, m)
  /\ \A q \in Actors : q # m => OtherKept(q)

(* A publisher or a replay goes on with the client it has. *)
Onward(p, x) ==
  /\ caller[p].pc \in {"backlog", "push", "send", "sending"}
  /\ x.op = caller[p].op /\ x.id = caller[p].id /\ x.target = caller[p].target /\ x.fresh = caller[p].fresh
  /\ x.pc \in {"backlog", "push", "send"} \/ (x.pc = "sending" /\ client'[x.target].mu = p)
  /\ Holding(x) => Holding(caller[p])
  /\ UNCHANGED <<clients, lifecycle, created>>
  /\ \A h \in Objs : ObjectKept(h, p)

LEMMA Goroutines ==
  /\ Nobody \notin Actors /\ Closer \notin Actors /\ Nobody \notin Workers /\ Closer \notin Workers
  /\ Closer # Nobody /\ \A w \in Workers : w \notin Actors
  BY GoroutinesAssumption DEF Actors, Client

(* The client objects a goroutine refers to exist. *)
LEMMA Referred ==
  ASSUME TInv, NEW q \in Actors
  PROVE  LET c == caller[q] IN
         /\ PreInstall(c) => c.fresh \in Objs /\ c.fresh \in Client
         /\ c.pc \in {"disconnect", "retire", "close", "removeSend", "removeRetry", "backlog", "push", "send",
                      "sending"} => c.target \in Objs /\ c.target \in Client /\ c.target \in Known
         /\ c.pc = "replay" => c.fresh \in Objs /\ c.fresh \in Client /\ c.fresh \in Known
         /\ c.pc \notin {"idle", "handle"} => c.id \in ClientIDs
<1>1. CallerAt(caller[q]) BY DEF TInv, Calling
<1>2. \A g \in Objs : g \in Client BY BoundAssumption, SMT DEF TInv, Fixed, Objs, Client
<1>3. Known \subseteq Objs BY DEF Known
<1> QED BY <1>1, <1>2, <1>3 DEF CallerAt
LEMMA RegisteredObjs ==
  ASSUME TInv, NEW i \in ClientIDs, clients[i] # NoClient
  PROVE  clients[i] \in Objs /\ clients[i] \in Client /\ clients[i] \in Known
  BY ClientOf DEF Known

-----------------------------------------------------------------------------
LEMMA Mine ==
  ASSUME TInv, NEW p \in Actors, NEW d, caller' = [caller EXCEPT ![p] = d]
  PROVE  caller'[p] = d /\ \A q \in Actors : q # p => caller'[q] = caller[q]
  BY DEF TInv, Calling

(* What a call that takes its client out of the table relies on. *)
LEMMA SafeAway ==
  ASSUME NEW p, NEW c, SafeAt(p, c), c.op \in {"disconnect", "unregister"}
  PROVE  c.fresh = NoClient /\ (Holding(c) => client[c.target].id = c.id)
  BY ZenonT(60) DEF SafeAt
LEMMA NoObject == NoClient \notin Objs BY SMT DEF NoClient, Objs

LEMMA IdleSafe == \A p : SafeAt(p, Idle) /\ SafeAt(p, Idle)'
  BY DEF Idle, SafeAt, PreInstall, PastInstall, Holding

-----------------------------------------------------------------------------
(* Retiring the client of a call. *)
LEMMA ObjectChanged ==
  ASSUME TInv, NEW g \in Client, NEW r, client' = [client EXCEPT ![g] = r]
  PROVE  client'[g] = r /\ \A h \in Client : h # g => client'[h] = client[h]
  BY DEF TInv, Identified

LEMMA ObjsClients == ASSUME TInv, NEW g \in Objs PROVE g \in Client
  BY BoundAssumption, SMT DEF TInv, Fixed, Objs, Client

(* The step changes one client object besides. *)
ObjectGrows(g, r, m) ==
  /\ r.id = client[g].id /\ r.connection = client[g].connection /\ r.complete = client[g].complete
  /\ client[g].inactive => r.inactive
  /\ client[g].connectionClosed => r.connectionClosed
  /\ client[g].mu \notin {Nobody, m} => r.mu = client[g].mu
LEMMA HandledLight ==
  ASSUME NEW c, NEW i
  PROVE  /\ Handled(c, i).pc \in {"idle", "handle"} /\ Handled(c, i).op \in {"none", "publish"}
         /\ ~Holding(Handled(c, i))
<1>1. Handled(c, i).pc \in {"idle", "handle"} /\ Handled(c, i).op \in {"none", "publish"}
  BY DEF Handled, Idle
<1> QED BY <1>1 DEF Holding

-----------------------------------------------------------------------------
LEMMA Stages ==
  ASSUME TInv
  PROVE  /\ closing < Stopped \/ closing = Stopped => ~(closing >= Flushing) /\ closing # Flushing /\ closing # Retiring
         /\ closing < Stopped => /\ ~(closing + 1 >= Flushing) /\ ~(closing + 1 >= Retiring)
                                 /\ closing + 1 # ShutdownDone
         /\ ~(Flushing >= Retiring) /\ Flushing >= Flushing /\ Retiring >= Flushing /\ Retiring >= Retiring
         /\ ShutdownDone >= Flushing /\ ShutdownDone >= Retiring
         /\ Flushing # ShutdownDone /\ Flushing # Retiring /\ Retiring # ShutdownDone
  BY SMT DEF TInv, Fixed, Open, Stopped, Flushing, Retiring, ShutdownDone

-----------------------------------------------------------------------------
LEMMA SafeInit == Init => SInv
<1> SUFFICES ASSUME Init PROVE SInv OBVIOUS
<1>1. ASSUME NEW p \in Actors PROVE SafeAt(p, caller[p])
  <2>1. caller[p] = Idle BY DEF Init, Actors
  <2>2. Idle.pc = "idle" /\ Idle.op = "none" BY DEF Idle
  <2> QED BY <2>1, <2>2 DEF SafeAt, PreInstall, PastInstall, Holding
<1>2. ASSUME NEW g \in Client PROVE ObjSafe(g)
  <2>1. client[g] = NewClient(Nobody, FALSE, g) /\ sent[g] = <<>> BY <1>2 DEF Init
  <2>2. ~NewClient(Nobody, FALSE, g).connectionClosed BY DEF NewClient
  <2> QED BY <2>1, <2>2 DEF ObjSafe
<1>3. \A i \in ClientIDs : IDSafe(i) BY DEF Init, IDSafe
<1>4. Sending
  <2>1. \A w \in Workers : worker[w].pc \in {"pop", "done"} BY SMT DEF Init
  <2> QED BY <2>1 DEF Sending
<1>5. CloserSafe
  <2>1. closer.pc = "idle" /\ closing = Open BY DEF Init
  <2>2. ~(Open >= Flushing) /\ ~(Open >= Retiring) /\ Open # ShutdownDone
    BY SMT DEF Open, Flushing, Retiring, ShutdownDone
  <2> QED BY <2>1, <2>2 DEF CloserSafe
<1> QED BY <1>1, <1>2, <1>3, <1>4, <1>5 DEF SInv

LEMMA SafeStep == TInv /\ SInv /\ [Next]_vars => SInv'
<1> SUFFICES ASSUME TInv, SInv PROVE [Next]_vars => SInv' OBVIOUS
<1>SafeThen.
  ASSUME NEW q \in Actors, NEW d, d = caller'[q], SafeAt(q, d)'
  PROVE  SafeAt(q, caller[q])'
  BY <1>SafeThen, ZenonT(60) DEF SafeAt, PreInstall, PastInstall, Holding
(* So what the others rely on stays. *)
<1>OthersSafe.
  ASSUME NEW m, Frame(m), NEW q \in Actors, q # m
  PROVE  SafeAt(q, caller[q])'
  <2> USE <1>OthersSafe
  <2> DEFINE c == caller[q]
  <2>1. SafeAt(q, c) /\ OtherKept(q) BY DEF SInv, Frame
  <2>2. caller'[q] = c BY <2>1 DEF OtherKept
  <2>3. /\ PreInstall(c) => c.fresh \in Objs
        /\ c.pc \in {"disconnect", "retire", "close", "removeSend", "removeRetry", "backlog", "push", "send",
                        "sending"} => c.target \in Objs
        /\ c.pc = "replay" => c.fresh \in Objs
        /\ c.pc \notin {"idle", "handle"} => c.id \in ClientIDs
    BY Referred
  <2>4. \A g \in Objs : ObjectKept(g, m) BY DEF Frame
  <2>5. q # Nobody BY Goroutines
  <2>6. CallerAt(c) BY DEF TInv, Calling
  <2>7. Holding(c) => lifecycle'[c.id] = q /\ clients'[c.id] = clients[c.id]
    BY <2>1, <2>3 DEF SafeAt, OtherKept, Holding
  <2>8. PreInstall(c) => Holding(c) BY DEF PreInstall, Holding
  <2>9. /\ PreInstall(c) => /\ client'[c.fresh].id = c.id /\ client'[c.fresh].mu = Nobody
                            /\ c.target = clients'[c.id] /\ c.target < c.fresh
        /\ PastInstall(c) => Holding(c) /\ clients'[c.id] = c.fresh /\ (c.pc # "replay" => c.target = c.fresh)
    BY <2>1, <2>3, <2>4, <2>7, <2>8 DEF SafeAt, OtherKept, ObjectKept, MuFree
  <2>10. /\ c.pc = "close" => client'[c.target].inactive
         /\ c.pc = "sending" => client'[c.target].mu = q
         /\ (c.op = "disconnect" /\ c.pc \in {"removeSend", "removeRetry"}) => client'[c.target].connectionClosed
    BY <2>1, <2>3, <2>4, <2>5 DEF SafeAt, ObjectKept
  <2>11. ASSUME c.op = "register", c.pc \in {"removeSend", "removeRetry", "install", "replay"}, c.target # NoClient
         PROVE  /\ c.target \in Objs'
                /\ client'[c.target].connectionClosed \/ client'[c.target].connection = client'[c.fresh].connection
    <3>1. c.target \in Objs BY <2>1, <2>11 DEF SafeAt
    <3>2. c.fresh \in Objs
      <4>1. CASE PreInstall(c) BY <2>3, <4>1
      <4>2. CASE ~PreInstall(c) /\ c.pc # "replay" BY <2>1, <2>11, <3>1, <4>2 DEF SafeAt, PastInstall
      <4>3. CASE c.pc = "replay" BY <2>3, <4>3
      <4> QED BY <4>1, <4>2, <4>3
    <3>3. Objs \subseteq Objs' BY DEF Frame
    <3> QED BY <2>1, <2>4, <2>11, <3>1, <3>2, <3>3 DEF SafeAt, ObjectKept
  <2>12. /\ c.op \in {"disconnect", "unregister"} =>
              c.fresh = NoClient /\ (Holding(c) => client'[c.target].id = c.id)
         /\ c.pc = "spawned" => q \in Objs' /\ c.op = "unregister" /\ c.id = client'[q].id
         /\ (q \in Client /\ c.pc # "idle") => q \in Objs' /\ client'[q].inactive
    <3>1. Holding(c) /\ c.op \in {"disconnect", "unregister"} => c.target \in Objs
      <4>1. c.op \in {"disconnect", "unregister"} => c.pc \notin {"install", "replay"} BY <2>6 DEF CallerAt
      <4> QED BY <2>3, <4>1 DEF Holding
    <3> QED BY <2>1, <2>4, <3>1 DEF SafeAt, ObjectKept, Frame
  <2> PICK d : d = c OBVIOUS
  <2>13. SafeAt(q, d)'
    BY <2>7, <2>9, <2>10, <2>11, <2>12, ZenonT(60) DEF SafeAt, MuFree, PreInstall, PastInstall, Holding
  <2> QED BY <2>2, <2>13, <1>SafeThen
(* What has to be shown of a step of goroutine m. *)
<1>FrameOf.
  ASSUME NEW m, Objs \subseteq Objs', \A g \in Objs : ObjectKept(g, m),
         \A g \in Objs : client'[g].mu # client[g].mu => g \in Known,
         \A q \in Actors : q # m => caller'[q] = caller[q],
         \A i \in ClientIDs : (lifecycle'[i] # lifecycle[i] \/ clients'[i] # clients[i]) =>
                                 lifecycle[i] \in {m, Nobody}
  PROVE  Frame(m)
  <2> USE <1>FrameOf
  <2>1. ASSUME NEW q \in Actors, q # m PROVE OtherKept(q)
    <3>1. PreInstall(caller[q]) => caller[q].fresh \in Objs /\ caller[q].fresh \notin Known
      BY Referred DEF Known, Fresh
    <3> QED BY <2>1, <3>1, Goroutines DEF OtherKept
  <2> QED BY <2>1 DEF Frame
<1>ObjectSame.
  ASSUME Objs \subseteq Objs', NEW g \in Client, client'[g] = client[g], sent'[g] = sent[g]
  PROVE  ObjSafe(g)'
  BY <1>ObjectSame DEF SInv, ObjSafe, MuFree
<1>IDSame.
  ASSUME NEW m, Frame(m), NEW i \in ClientIDs, clients'[i] = clients[i], store'[i] \in {store[i], <<>>} \/ clients[i] # NoClient,
         m \in Actors => (Removing(caller[m], i) =>
            store'[i] = <<>> \/ (lifecycle'[i] = lifecycle[i] /\ Removing(caller'[m], i)))
  PROVE  IDSafe(i)'
  <2> USE <1>IDSame
  <2>1. IDSafe(i) BY DEF SInv
  <2>2. clients[i] # NoClient => client'[clients[i]].id = i
    BY <2>1, RegisteredObjs DEF IDSafe, Frame, ObjectKept
  <2>3. ASSUME clients[i] = NoClient, store'[i] # <<>>
        PROVE  lifecycle'[i] \in Actors /\ Removing(caller'[lifecycle'[i]], i)
    <3>1. lifecycle[i] \in Actors /\ Removing(caller[lifecycle[i]], i) BY <2>1, <2>3 DEF IDSafe
    <3>2. CASE lifecycle[i] = m BY <2>3, <3>1, <3>2
    <3>3. CASE lifecycle[i] # m BY <3>1, <3>3 DEF Frame, OtherKept
    <3> QED BY <3>2, <3>3
  <2> QED BY <2>2, <2>3 DEF IDSafe, Removing
<1>SendingKept.
  ASSUME NEW m, Frame(m), \A w \in Workers : (w # m /\ worker'[w].pc = "sending") => worker'[w] = worker[w],
         m \in Workers => (worker'[m].pc = "sending" => client'[worker'[m].event.client].mu = m)
  PROVE  Sending'
  <2> USE <1>SendingKept
  <2>1. ASSUME NEW w \in Workers, w # m, worker[w].pc = "sending"
        PROVE  client'[worker[w].event.client].mu = w
    <3>1. worker[w].event.client \in Objs BY <2>1, AnObject DEF TInv, Working, WorkerAt, Made
    <3>2. client[worker[w].event.client].mu = w BY <2>1 DEF SInv, Sending
    <3> QED BY <2>1, <3>1, <3>2, Goroutines, SMT DEF Frame, ObjectKept
  <2> QED BY <2>1 DEF Sending
(* The shutdown goes on where it was. *)
<1>CloserKept.
  ASSUME NEW m, Frame(m), m # Closer, UNCHANGED <<closer, closing>>,
         closing >= Flushing => sendQueue' \subseteq sendQueue /\ retryQueue' \subseteq retryQueue,
         closing >= Retiring => \A i \in ClientIDs : clients'[i] \in {clients[i], NoClient}
  PROVE  CloserSafe'
  <2> USE <1>CloserKept
  <2>1. CloserSafe /\ closer.pc \in {"idle", "send", "sending", "close"}
    BY DEF SInv, TInv, Closing, CloserType
  <2>2. closer.pc \in {"send", "sending", "close"} => closer.event.client \in Objs
    BY AnObject DEF TInv, Closing, Made
  <2>3. /\ closer.pc = "sending" => client'[closer.event.client].mu = Closer
        /\ closer.pc = "close" => client'[closer.event.client].inactive
    BY <2>1, <2>2, Goroutines DEF CloserSafe, Frame, ObjectKept
  <2>4. ASSUME closing >= Retiring, NEW i \in ClientIDs, clients'[i] # NoClient
        PROVE  \/ clients'[i] \in closer.retire
               \/ closer.pc = "close" /\ closer.event.client = clients'[i]
               \/ client'[clients'[i]].connectionClosed
    <3>1. clients'[i] = clients[i] /\ clients[i] # NoClient BY <2>4
    <3>2. clients[i] \in Objs BY <3>1, RegisteredObjs
    <3> QED BY <2>1, <2>4, <3>1, <3>2 DEF CloserSafe, Frame, ObjectKept
  <2>5. closing >= Flushing => sendQueue' = {} /\ retryQueue' = {} BY <2>1 DEF CloserSafe
  <2> QED BY <2>1, <2>3, <2>4, <2>5 DEF CloserSafe, Flushing, Retiring, ShutdownDone
(* A step of a call by goroutine p, which comes to place d. *)
<1>CallSafe.
  ASSUME NEW p \in Actors, Frame(p), NEW d, d = caller'[p], SafeAt(p, d)',
         \A g \in Client : ObjSafe(g)', \A i \in ClientIDs : IDSafe(i)', UNCHANGED <<worker, closer, closing>>,
         closing >= Flushing => sendQueue' \subseteq sendQueue /\ retryQueue' \subseteq retryQueue,
         closing >= Retiring => \A i \in ClientIDs : clients'[i] \in {clients[i], NoClient}
  PROVE  SInv'
  <2> USE <1>CallSafe
  <2>1. \A q \in Actors : SafeAt(q, caller[q])' BY <1>OthersSafe, <1>SafeThen
  <2>2. Sending' BY <1>SendingKept, Goroutines
  <2>3. CloserSafe' BY <1>CloserKept, Goroutines
  <2> QED BY <2>1, <2>2, <2>3 DEF SInv
(* The step changes nothing but the place, the lock and the queues. *)
<1>MoveSafe.
  ASSUME NEW p \in Actors, NEW d, caller' = [caller EXCEPT ![p] = d], SafeAt(p, d)',
         UNCHANGED <<client, clients, sent, created, worker, closer, closing>>,
         \A i \in ClientIDs : store'[i] \in {store[i], <<>>} \/ clients[i] # NoClient,
         \A i \in ClientIDs : lifecycle'[i] # lifecycle[i] => lifecycle[i] \in {p, Nobody},
         closing >= Flushing => sendQueue' \subseteq sendQueue /\ retryQueue' \subseteq retryQueue,
         \A i \in ClientIDs : Removing(caller[p], i) =>
            store'[i] = <<>> \/ (Removing(d, i) /\ lifecycle'[i] = lifecycle[i])
  PROVE  SInv'
  <2> USE <1>MoveSafe
  <2>1. caller'[p] = d /\ \A q \in Actors : q # p => caller'[q] = caller[q] BY Mine
  <2>2. Frame(p)
    <3>1. Objs \subseteq Objs' /\ \A g \in Objs : ObjectKept(g, p) BY DEF Objs, ObjectKept
    <3> QED BY <2>1, <3>1, <1>FrameOf
  <2>3. \A g \in Client : ObjSafe(g)' BY <1>ObjectSame DEF Objs
  <2>4. \A i \in ClientIDs : IDSafe(i)' BY <2>1, <2>2, <1>IDSame
  <2> QED BY <2>1, <2>2, <2>3, <2>4, <1>CallSafe
(* Unlocking and returning, from a place with the lock or without it. *)
<1>ReturnSafe.
  ASSUME NEW p \in Actors, Return(p), Holding(caller[p]) \/ lifecycle[caller[p].id] = Nobody,
         UNCHANGED <<client, clients, store, sent, created, worker, closer, closing>>,
         closing >= Flushing => sendQueue' \subseteq sendQueue /\ retryQueue' \subseteq retryQueue,
         caller[p].pc \in {"removeSend", "removeRetry"} => caller[p].op # "unregister"
  PROVE  SInv'
  <2> USE <1>ReturnSafe
  <2>1. \A i \in ClientIDs : ~Removing(caller[p], i) BY DEF Removing
  <2>2. \A i \in ClientIDs : lifecycle'[i] # lifecycle[i] => lifecycle[i] \in {p, Nobody}
    <3>1. SafeAt(p, caller[p]) BY DEF SInv
    <3> QED BY <3>1 DEF Return, TInv, Locks, SafeAt
  <2> QED BY <2>1, <2>2, IdleSafe, <1>MoveSafe DEF Return
<1>ObjectsKept.
  ASSUME NEW m, NEW g \in Client, NEW r, client' = [client EXCEPT ![g] = r], ObjectGrows(g, r, m),
         r.mu # client[g].mu => g \in Known, UNCHANGED created
  PROVE  /\ Objs' = Objs /\ \A h \in Objs : ObjectKept(h, m)
         /\ \A h \in Objs : client'[h].mu # client[h].mu => h \in Known
         /\ client'[g] = r /\ \A h \in Client : h # g => client'[h] = client[h]
  <2> USE <1>ObjectsKept
  <2>1. client'[g] = r /\ \A h \in Client : h # g => client'[h] = client[h] BY ObjectChanged
  <2> QED BY <2>1, ObjsClients DEF Objs, ObjectKept, ObjectGrows
<1>ObjectStepSafe.
  ASSUME NEW p \in Actors, NEW d, caller' = [caller EXCEPT ![p] = d], SafeAt(p, d)',
         NEW g \in Client, NEW r, client' = [client EXCEPT ![g] = r], ObjectGrows(g, r, p),
         r.mu # client[g].mu => g \in Known, ObjSafe(g)', \A h \in Client : h # g => sent'[h] = sent[h],
         UNCHANGED <<clients, store, created, worker, closer, closing>>,
         \A i \in ClientIDs : lifecycle'[i] # lifecycle[i] => lifecycle[i] \in {p, Nobody},
         closing >= Flushing => sendQueue' \subseteq sendQueue /\ retryQueue' \subseteq retryQueue,
         caller[p].pc \notin {"removeSend", "removeRetry"}
  PROVE  SInv'
  <2> USE <1>ObjectStepSafe
  <2>1. caller'[p] = d /\ \A q \in Actors : q # p => caller'[q] = caller[q] BY Mine
  <2>2. /\ Objs' = Objs /\ \A h \in Objs : ObjectKept(h, p)
        /\ \A h \in Objs : client'[h].mu # client[h].mu => h \in Known
        /\ client'[g] = r /\ \A h \in Client : h # g => client'[h] = client[h]
    BY <1>ObjectsKept
  <2>3. Frame(p) BY <2>1, <2>2, <1>FrameOf
  <2>4. \A h \in Client : ObjSafe(h)' BY <2>2, <1>ObjectSame
  <2>5. \A i \in ClientIDs : IDSafe(i)' BY <2>3, <1>IDSame DEF Removing
  <2> QED BY <2>1, <2>3, <2>4, <2>5, <1>CallSafe
<1>SetInactiveSafe. ASSUME NEW p \in Actors, SetInactive(p) PROVE SInv'
  <2> USE <1>SetInactiveSafe
  <2> DEFINE c == caller[p]
             g == c.target
             d == [c EXCEPT !.pc = "close"]
             r == [client[g] EXCEPT !.inactive = TRUE]
  <2>1. /\ IsCaller(c) /\ CallerAt(c) /\ SafeAt(p, c) /\ c.pc = "retire" /\ g \in Known /\ g \in Objs /\ g \in Client
        /\ PreInstall(c) => c.fresh \in Objs /\ c.fresh \in Client
    BY Referred, AnObject DEF SetInactive, TInv, Calling, SInv, CallerAt
  <2>2. d.pc = "close" /\ d.op = c.op /\ d.id = c.id /\ d.target = g /\ d.fresh = c.fresh
    BY <2>1 DEF IsCaller
  <2>3. /\ caller' = [caller EXCEPT ![p] = d] /\ UNCHANGED lifecycle /\ client' = [client EXCEPT ![g] = r]
        /\ UNCHANGED <<clients, store, sent, created, worker, closer, closing, sendQueue, retryQueue>>
    BY DEF SetInactive, Goto, registration, queues, delivery, counters
  <2>4. client[g] \in ClientType BY <2>1 DEF TInv, Identified
  <2>5. ObjectGrows(g, r, p) /\ r.inactive /\ r.connectionClosed = client[g].connectionClosed /\ r.mu = client[g].mu
    BY <2>4 DEF ClientType, ObjectGrows
  <2> HIDE DEF d, r
  <2>6. /\ Objs' = Objs /\ \A h \in Objs : ObjectKept(h, p)
        /\ client'[g] = r /\ \A h \in Client : h # g => client'[h] = client[h]
    <3>1. client' = [client EXCEPT ![g] = r] /\ ObjectGrows(g, r, p) /\ g \in Known /\ g \in Client /\ UNCHANGED created BY <2>1, <2>3, <2>5
    <3> QED BY <3>1, <1>ObjectsKept
  <2> PICK h \in Client : h = g BY <2>1
  <2> PICK x : x = d OBVIOUS
  <2>7. ObjSafe(h)'
    <3>1. ObjSafe(h) /\ client'[h] = r /\ ObjectGrows(h, r, p) /\ r.mu = client[h].mu
      BY <2>5, <2>6 DEF SInv
    <3> QED BY <2>3, <2>5, <2>6, <3>1 DEF ObjSafe, MuFree, ObjectGrows
  <2>8. SafeAt(p, x)'
    <3>1. (PreInstall(x) => PreInstall(c)) /\ ~PastInstall(x) /\ Holding(c) /\ Holding(x)
      BY <2>1, <2>2 DEF PastInstall, PreInstall, Holding
    <3>2. (p \in Client /\ x.pc # "idle") => p \in Objs' /\ client'[p].inactive
      BY <2>1, <2>6 DEF SafeAt, ObjectKept
    <3>3. PreInstall(x) => /\ client'[x.fresh].id = x.id /\ client'[x.fresh].mu = Nobody
                           /\ x.target = clients'[x.id] /\ x.target < x.fresh
      <4> HAVE PreInstall(x)
      <4>1. c.fresh # g BY <2>1, <3>1 DEF Known, Fresh
      <4>2. client'[x.fresh] = client[c.fresh] BY <2>1, <2>2, <2>6, <3>1, <4>1
      <4>3. client[c.fresh].id = c.id /\ client[c.fresh].mu = Nobody /\ c.target = clients[c.id] /\ c.target < c.fresh
        BY <2>1, <3>1 DEF SafeAt, MuFree
      <4> QED BY <2>2, <2>3, <4>2, <4>3
    <3>4. lifecycle'[x.id] = p /\ client'[x.target].inactive /\ x.pc = "close"
      <4>1. lifecycle[c.id] = p BY <2>1, <3>1 DEF SafeAt
      <4> QED BY <2>2, <2>3, <2>5, <2>6, <4>1
    <3>5. x.op \in {"disconnect", "unregister"} => x.fresh = NoClient /\ client'[x.target].id = x.id
      <4>1. c.op \in {"disconnect", "unregister"} => c.fresh = NoClient /\ client[g].id = c.id
        BY <2>1, <3>1 DEF SafeAt
      <4> QED BY <2>2, <2>5, <2>6, <4>1 DEF ObjectGrows
    <3> QED BY <3>1, <3>2, <3>3, <3>4, <3>5 DEF SafeAt, MuFree, PreInstall, Holding, PastInstall
  <2> QED BY <2>1, <2>3, <2>5, <2>7, <2>8, <1>ObjectStepSafe
<1>CloseConnectionSafe. ASSUME NEW p \in Actors, CloseConnection(p) PROVE SInv'
  <2> USE <1>CloseConnectionSafe
  <2> DEFINE c == caller[p]
             g == c.target
             d == IF c.op = "unregister" THEN Idle ELSE [c EXCEPT !.pc = "removeSend"]
             r == [client[g] EXCEPT !.connectionClosed = @ \/ ~KeepsConnection(c)]
  <2>1. /\ IsCaller(c) /\ CallerAt(c) /\ SafeAt(p, c) /\ c.pc = "close" /\ g \in Known /\ g \in Objs /\ g \in Client
        /\ PreInstall(c) => c.fresh \in Objs /\ c.fresh \in Client
    BY Referred, AnObject DEF CloseConnection, TInv, Calling, SInv, CallerAt
  <2>2. \/ d = Idle
        \/ /\ c.op # "unregister" /\ d.pc = "removeSend" /\ d.op = c.op /\ d.id = c.id /\ d.target = g /\ d.fresh = c.fresh
    BY <2>1 DEF IsCaller
  <2>3. /\ caller' = [caller EXCEPT ![p] = d] /\ client' = [client EXCEPT ![g] = r]
        /\ UNCHANGED <<clients, store, sent, created, worker, closer, closing, sendQueue, retryQueue>>
        /\ lifecycle' = IF c.op = "unregister" THEN [lifecycle EXCEPT ![c.id] = Nobody] ELSE lifecycle
        /\ MuFree(g)
    <3>1. CASE c.op = "unregister"
      BY <3>1 DEF CloseConnection, GotoOrReturn, Return, registration, queues, delivery, counters
    <3>2. CASE c.op # "unregister"
      BY <3>2 DEF CloseConnection, GotoOrReturn, Goto, registration, queues, delivery, counters
    <3> QED BY <3>1, <3>2
  <2>4. client[g] \in ClientType BY <2>1 DEF TInv, Identified
  <2>5. /\ ObjectGrows(g, r, p) /\ r.inactive = client[g].inactive /\ r.mu = client[g].mu
        /\ r.connectionClosed \/ KeepsConnection(c)
    BY <2>4 DEF ClientType, ObjectGrows
  <2> HIDE DEF d, r
  <2>6. /\ Objs' = Objs /\ \A h \in Objs : ObjectKept(h, p)
        /\ client'[g] = r /\ \A h \in Client : h # g => client'[h] = client[h]
    <3>1. client' = [client EXCEPT ![g] = r] /\ ObjectGrows(g, r, p) /\ g \in Known /\ g \in Client /\ UNCHANGED created
      BY <2>1, <2>3, <2>5
    <3> QED BY <3>1, <1>ObjectsKept
  <2> PICK h \in Client : h = g BY <2>1
  <2> PICK x : x = d OBVIOUS
  <2>7. ObjSafe(h)'
    <3>1. ObjSafe(h) /\ client'[h] = r /\ ObjectGrows(h, r, p) /\ r.mu = Nobody /\ r.inactive /\ h \in Objs'
      BY <2>1, <2>3, <2>5, <2>6 DEF SInv, SafeAt, MuFree
    <3> QED BY <2>3, <3>1 DEF ObjSafe, MuFree, ObjectGrows
  <2>8. SafeAt(p, x)'
    <3>1. CASE d = Idle BY <3>1, IdleSafe
    <3>2. CASE d # Idle
      <4>1. /\ c.op # "unregister" /\ x.pc = "removeSend" /\ x.op = c.op /\ x.id = c.id /\ x.target = g
            /\ x.fresh = c.fresh /\ Holding(c) /\ Holding(x)
        BY <2>1, <2>2, <3>2 DEF Holding
      <4>2. (p \in Client /\ x.pc # "idle") => p \in Objs' /\ client'[p].inactive
        BY <2>1, <2>6 DEF SafeAt, ObjectKept
      <4>3. lifecycle'[x.id] = p
        <5>1. lifecycle[c.id] = p BY <2>1, <4>1 DEF SafeAt
        <5> QED BY <2>3, <4>1, <5>1
      <4>4. CASE c.op = "register"
        <5>1. PreInstall(c) /\ c.fresh # g BY <2>1, <4>4 DEF PreInstall, Known, Fresh
        <5>2. client'[x.fresh] = client[c.fresh] BY <2>1, <2>6, <4>1, <5>1
        <5>3. client[c.fresh].id = c.id /\ client[c.fresh].mu = Nobody /\ c.target = clients[c.id] /\ c.target < c.fresh
          BY <2>1, <5>1 DEF SafeAt, MuFree
        <5>4. client'[x.target].connectionClosed \/ client'[x.target].connection = client'[x.fresh].connection
          BY <2>5, <2>6, <4>1, <5>2 DEF KeepsConnection, ObjectGrows
        <5>5. /\ client'[x.fresh].id = x.id /\ client'[x.fresh].mu = Nobody /\ x.target = clients'[x.id]
              /\ x.target < x.fresh /\ x.target \in Objs' /\ PreInstall(x)
          BY <2>1, <2>3, <2>6, <4>1, <4>4, <5>1, <5>2, <5>3 DEF PreInstall
        <5> QED BY <4>1, <4>2, <4>3, <4>4, <5>4, <5>5 DEF SafeAt, MuFree, PreInstall, Holding, PastInstall
      <4>5. CASE c.op = "disconnect"
        <5>1. client'[x.target].connectionClosed BY <2>5, <2>6, <4>1, <4>5 DEF KeepsConnection
        <5>2. c.fresh = NoClient /\ client[g].id = c.id BY <2>1, <4>1, <4>5 DEF SafeAt
        <5>3. x.fresh = NoClient /\ client'[x.target].id = x.id BY <2>5, <2>6, <4>1, <5>2 DEF ObjectGrows
        <5> QED BY <4>1, <4>2, <4>3, <4>5, <5>1, <5>3 DEF SafeAt, MuFree, PreInstall, Holding, PastInstall
      <4> QED BY <2>1, <4>1, <4>4, <4>5 DEF CallerAt
    <3> QED BY <3>1, <3>2
  <2>9. \A i \in ClientIDs : lifecycle'[i] # lifecycle[i] => lifecycle[i] \in {p, Nobody}
    <3>1. lifecycle[c.id] = p BY <2>1 DEF SafeAt, Holding
    <3> QED BY <2>3, <3>1 DEF TInv, Locks
  <2>10. /\ caller' = [caller EXCEPT ![p] = x] /\ client' = [client EXCEPT ![h] = r] /\ ObjectGrows(h, r, p)
         /\ r.mu = client[h].mu /\ c.pc \notin {"removeSend", "removeRetry"}
    BY <2>1, <2>3, <2>5
  <2> QED BY <2>3, <2>7, <2>8, <2>9, <2>10, <1>ObjectStepSafe
<1>SafeSame.
  ASSUME NEW p, NEW x, SafeAt(p, x), UNCHANGED <<client, clients, lifecycle, created>>
  PROVE  SafeAt(p, x)'
  BY <1>SafeSame, SMT DEF SafeAt, MuFree, PreInstall, PastInstall, Holding, Objs
(* Removing the pending events of a client. *)
<1>RemoveFromSendSafe. ASSUME NEW p \in Actors, RemoveFromSend(p) PROVE SInv'
  <2> USE <1>RemoveFromSendSafe
  <2> DEFINE c == caller[p]
             d == [c EXCEPT !.pc = "removeRetry"]
  <2>1. IsCaller(c) /\ SafeAt(p, c) /\ c.pc = "removeSend" BY DEF RemoveFromSend, TInv, Calling, SInv
  <2>2. d.pc = "removeRetry" /\ d.op = c.op /\ d.id = c.id /\ d.target = c.target /\ d.fresh = c.fresh
    BY <2>1 DEF IsCaller
  <2>3. /\ caller' = [caller EXCEPT ![p] = d] /\ sendQueue' \subseteq sendQueue
        /\ UNCHANGED <<client, clients, store, sent, created, lifecycle, worker, closer, closing, retryQueue>>
    BY DEF RemoveFromSend, Goto, registration, delivery, counters
  <2> HIDE DEF d
  <2>4. /\ PreInstall(d) <=> PreInstall(c)
        /\ PastInstall(d) <=> PastInstall(c)
        /\ Holding(d) /\ Holding(c)
    BY <2>1, <2>2 DEF PreInstall, PastInstall, Holding
  <2>5. SafeAt(p, d) BY <2>1, <2>2, <2>4 DEF SafeAt
  <2> PICK x : x = d OBVIOUS
  <2>6. SafeAt(p, x)' BY <2>3, <2>5, <1>SafeSame
  <2>7. \A i \in ClientIDs : Removing(c, i) => Removing(x, i) BY <2>2 DEF Removing
  <2>8. caller' = [caller EXCEPT ![p] = x] BY <2>3
  <2> QED BY <2>3, <2>6, <2>7, <2>8, <1>MoveSafe
<1>RemoveFromRetrySafe. ASSUME NEW p \in Actors, RemoveFromRetry(p) PROVE SInv'
  <2> USE <1>RemoveFromRetrySafe
  <2> DEFINE c == caller[p]
             place == AfterRemove(c)
             d == IF place = "backlog" THEN [c EXCEPT !.pc = "backlog", !.backlog = EventsSince(store[c.id], c.cursor)]
                  ELSE [c EXCEPT !.pc = place]
  <2>1. IsCaller(c) /\ CallerAt(c) /\ SafeAt(p, c) /\ c.pc = "removeRetry" /\ c.id \in ClientIDs
    BY DEF RemoveFromRetry, TInv, Calling, SInv, CallerAt
  <2>2. /\ retryQueue' \subseteq retryQueue
        /\ UNCHANGED <<client, clients, sent, created, worker, closer, closing, sendQueue>>
        /\ store' = IF c.op = "unregister" THEN [store EXCEPT ![c.id] = <<>>] ELSE store
    BY DEF RemoveFromRetry, ClearsHistory, delivery, counters
  <2>3. /\ place = "idle" => c.op = "disconnect"
        /\ place = "retire" => c.op = "unregister"
        /\ place = "backlog" => c.op \in {"register", "replay"} /\ c.target = c.fresh
        /\ place = "install" => c.op = "register" /\ c.target # c.fresh
        /\ place \in {"idle", "retire", "backlog", "install"}
    <3>1. c.target # NoClient BY <2>1, AnObject DEF CallerAt, TInv
    <3>2. /\ c.op \in {"disconnect", "unregister"} => c.target # c.fresh
          /\ c.op \in {"register", "disconnect", "unregister"} \/ (c.op = "replay" /\ c.target = c.fresh)
      BY <2>1, <3>1 DEF SafeAt, CallerAt
    <3> QED BY <3>2 DEF AfterRemove
  <2>4. CASE place = "idle"
    <3>1. Return(p) BY <2>4 DEF RemoveFromRetry, GotoOrReturn
    <3>2. Holding(c) /\ c.op # "unregister" BY <2>1, <2>3, <2>4 DEF Holding
    <3>3. UNCHANGED store BY <2>2, <3>2
    <3> QED BY <2>2, <3>1, <3>2, <3>3, <1>ReturnSafe
  <2>5. CASE place # "idle"
    <3>1. d.pc = place /\ d.op = c.op /\ d.id = c.id /\ d.target = c.target /\ d.fresh = c.fresh
      BY <2>1 DEF IsCaller
    <3>2. caller' = [caller EXCEPT ![p] = d] /\ UNCHANGED lifecycle
      <4>1. CASE place = "backlog" BY <4>1 DEF RemoveFromRetry
      <4>2. CASE place # "backlog" BY <2>5, <4>2 DEF RemoveFromRetry, GotoOrReturn, Goto
      <4> QED BY <4>1, <4>2
    <3> HIDE DEF d, place
    <3>3. /\ PreInstall(d) => PreInstall(c)
          /\ PastInstall(d) => PastInstall(c) /\ d.target = d.fresh
          /\ Holding(d) /\ Holding(c)
      BY <2>1, <2>3, <2>5, <3>1 DEF PreInstall, PastInstall, Holding
    <3>4. SafeAt(p, d) BY <2>1, <2>3, <2>5, <3>1, <3>3 DEF SafeAt
    <3> PICK x : x = d OBVIOUS
    <3>5. SafeAt(p, x)' BY <2>2, <3>2, <3>4, <1>SafeSame
    <3>6. \A i \in ClientIDs : Removing(c, i) => store'[i] = <<>> BY <2>2 DEF Removing, TInv, Registered
    <3>7. \A i \in ClientIDs : store'[i] \in {store[i], <<>>} BY <2>2 DEF TInv, Registered
    <3>8. caller' = [caller EXCEPT ![p] = x] BY <3>2
    <3> QED BY <2>2, <3>2, <3>5, <3>6, <3>7, <3>8, <1>MoveSafe
  <2> QED BY <2>4, <2>5
(* Registering: the new client object, and its installation. *)
<1>InstallClosedSafe.
  ASSUME NEW p \in Actors, Install(p), ClosedMeanwhile
  PROVE  SInv'
  <2> USE <1>InstallClosedSafe
  <2> DEFINE c == caller[p]
             g == c.fresh
             r == [client[g] EXCEPT !.inactive = TRUE, !.connectionClosed = TRUE]
  <2>1. /\ CallerAt(c) /\ SafeAt(p, c) /\ c.pc = "install" /\ PreInstall(c) /\ g \in Objs /\ g \in Client
    BY Referred DEF Install, TInv, Calling, SInv, CallerAt, PreInstall
  <2>2. /\ caller' = [caller EXCEPT ![p] = Idle] /\ client' = [client EXCEPT ![g] = r]
        /\ UNCHANGED <<clients, store, sent, created, worker, closer, closing, sendQueue, retryQueue>>
        /\ lifecycle' = [lifecycle EXCEPT ![c.id] = Nobody]
    BY DEF Install, Return, queues, delivery, counters
  <2>3. client[g] \in ClientType BY <2>1 DEF TInv, Identified
  <2>4. ObjectGrows(g, r, p) /\ r.inactive /\ r.connectionClosed /\ r.mu = client[g].mu
    BY <2>3 DEF ClientType, ObjectGrows
  <2> HIDE DEF r
  <2>5. client'[g] = r BY <2>1, <2>2, ObjectChanged
  <2> PICK h \in Client : h = g BY <2>1
  <2>6. ObjSafe(h)'
    <3>1. ObjSafe(h) /\ client'[h] = r /\ ObjectGrows(h, r, p) /\ r.mu = Nobody /\ h \in Objs'
      BY <2>1, <2>2, <2>4, <2>5 DEF SInv, SafeAt, MuFree, Objs
    <3> QED BY <2>2, <2>4, <3>1 DEF ObjSafe, MuFree, ObjectGrows
  <2>7. \A i \in ClientIDs : lifecycle'[i] # lifecycle[i] => lifecycle[i] \in {p, Nobody}
    <3>1. lifecycle[c.id] = p BY <2>1 DEF SafeAt, Holding
    <3> QED BY <2>2, <3>1 DEF TInv, Locks
  <2>8. /\ client' = [client EXCEPT ![h] = r] /\ ObjectGrows(h, r, p)
        /\ r.mu = client[h].mu /\ c.pc \notin {"removeSend", "removeRetry"}
    BY <2>1, <2>2, <2>4
  <2> QED BY <2>2, <2>6, <2>7, <2>8, IdleSafe, <1>ObjectStepSafe
<1>InstallSafe. ASSUME NEW p \in Actors, Install(p) PROVE SInv'
  <2> USE <1>InstallSafe
  <2>1. CASE ClosedMeanwhile BY <2>1, <1>InstallClosedSafe
  <2>2. CASE ~ClosedMeanwhile
    <3> DEFINE c == caller[p]
               d == IF c.replay THEN [c EXCEPT !.pc = "replay"] ELSE Idle
    <3>1. /\ IsCaller(c) /\ SafeAt(p, c) /\ c.pc = "install" /\ PreInstall(c) /\ c.op = "register"
          /\ c.id \in ClientIDs /\ c.fresh \in Objs /\ c.fresh \in Client
      BY Referred DEF Install, TInv, Calling, SInv, CallerAt, PreInstall
    <3>2. /\ d = Idle \/ /\ d.pc = "replay" /\ d.op = "register" /\ d.id = c.id /\ d.target = c.target
                         /\ d.fresh = c.fresh
      BY <3>1 DEF IsCaller
    <3>3. /\ caller' = [caller EXCEPT ![p] = d] /\ clients' = [clients EXCEPT ![c.id] = c.fresh]
          /\ UNCHANGED <<client, store, sent, created, worker, closer, closing, sendQueue, retryQueue>>
          /\ lifecycle' = IF c.replay THEN lifecycle ELSE [lifecycle EXCEPT ![c.id] = Nobody]
      <4>1. CASE c.replay BY <2>2, <4>1 DEF Install, GotoOrReturn, Goto, queues, delivery, counters
      <4>2. CASE ~c.replay BY <2>2, <4>2 DEF Install, GotoOrReturn, Return, queues, delivery, counters
      <4> QED BY <4>1, <4>2
    <3>4. c.replay \/ d = Idle OBVIOUS
    <3> HIDE DEF d
    <3>5. caller'[p] = d /\ \A q \in Actors : q # p => caller'[q] = caller[q] BY <3>3, Mine
    <3>6. lifecycle[c.id] = p BY <3>1 DEF SafeAt, Holding
    <3>7. Frame(p)
      <4>1. Objs \subseteq Objs' /\ \A g \in Objs : ObjectKept(g, p) BY <3>3 DEF Objs, ObjectKept
      <4>2. \A i \in ClientIDs : (lifecycle'[i] # lifecycle[i] \/ clients'[i] # clients[i]) => lifecycle[i] \in {p, Nobody}
        BY <3>1, <3>3, <3>6 DEF TInv, Locks, Registered
      <4> QED BY <3>3, <3>5, <4>1, <4>2, <1>FrameOf
    <3>8. \A g \in Client : ObjSafe(g)' BY <3>3, <1>ObjectSame DEF Objs
    <3>9. clients'[c.id] = c.fresh /\ \A i \in ClientIDs : i # c.id => clients'[i] = clients[i]
      BY <3>1, <3>3 DEF TInv, Registered
    <3>10. ASSUME NEW i \in ClientIDs PROVE IDSafe(i)'
      <4>1. CASE i = c.id
        <5>1. client[c.fresh].id = c.id BY <3>1 DEF SafeAt
        <5>2. c.fresh # NoClient
          <6>1. c.fresh \in Objs BY <3>1
          <6> QED BY <6>1, SMT DEF Objs, NoClient
        <5>3. clients'[i] = c.fresh /\ client' = client BY <3>3, <3>9, <4>1
        <5> QED BY <4>1, <5>1, <5>2, <5>3 DEF IDSafe
      <4>2. CASE i # c.id BY <3>1, <3>3, <3>7, <3>9, <4>2, <1>IDSame DEF Removing
      <4> QED BY <4>1, <4>2
    <3> PICK x : x = d OBVIOUS
    <3>11. SafeAt(p, x)'
      <4>1. CASE d = Idle BY <4>1, IdleSafe
      <4>2. CASE d # Idle
        <5>1. x.pc = "replay" /\ x.op = "register" /\ x.id = c.id /\ x.target = c.target /\ x.fresh = c.fresh /\ c.replay
          BY <3>2, <3>4, <4>2
        <5>2. Holding(x) /\ lifecycle'[x.id] = p /\ clients'[x.id] = x.fresh /\ ~PreInstall(x)
          BY <3>3, <3>6, <3>9, <5>1 DEF Holding, PreInstall
        <5>3. x.target # NoClient => /\ x.target \in Objs'
                                     /\ \/ client'[x.target].connectionClosed
                                        \/ client'[x.target].connection = client'[x.fresh].connection
          BY <3>1, <3>3, <5>1 DEF SafeAt, Objs
        <5>4. (p \in Client /\ x.pc # "idle") => p \in Objs' /\ client'[p].inactive
          BY <3>1, <3>3 DEF SafeAt, Objs
        <5> QED BY <5>1, <5>2, <5>3, <5>4 DEF SafeAt, MuFree, PreInstall, Holding, PastInstall
      <4> QED BY <4>1, <4>2
    <3>12. ~(closing >= Flushing) /\ ~(closing >= Retiring)
      BY <2>2, SMT DEF ClosedMeanwhile, BusClosed, Flushing, Retiring, TInv, Fixed
    <3> QED BY <3>3, <3>5, <3>7, <3>8, <3>10, <3>11, <3>12, <1>CallSafe
  <2> QED BY <2>1, <2>2
<1>CallersOnly. ASSUME NEW p \in Callers PROVE p \in Actors /\ p \notin Client
  BY <1>CallersOnly, GoroutinesAssumption DEF Actors, Client
<1>RegisterSafe.
  ASSUME NEW p \in Callers, NEW i \in ClientIDs, NEW complete, NEW replay, NEW cursor, NEW connection,
         Register(p, i, complete, replay, cursor, connection)
  PROVE  SInv'
  <2> USE <1>RegisterSafe
  <2> DEFINE g == created + 1
             r == NewClient(i, complete, connection)
             d == [Idle EXCEPT !.pc = IF clients[i] = NoClient THEN "install" ELSE "retire",
                               !.op = "register", !.id = i, !.target = clients[i],
                               !.fresh = g, !.replay = replay, !.cursor = cursor]
  <2>1. p \in Actors /\ p \notin Client BY <1>CallersOnly
  <2>2. /\ d.pc = IF clients[i] = NoClient THEN "install" ELSE "retire"
        /\ d.op = "register" /\ d.id = i /\ d.target = clients[i] /\ d.fresh = g
    BY DEF Idle
  <2>3. r.id = i /\ ~r.connectionClosed /\ r.mu = Nobody BY DEF NewClient
  <2>4. /\ caller' = [caller EXCEPT ![p] = d] /\ client' = [client EXCEPT ![g] = r] /\ created' = g
        /\ lifecycle' = [lifecycle EXCEPT ![i] = p] /\ lifecycle[i] = Nobody /\ caller[p].pc = "idle"
        /\ created < options.registrations
    BY DEF Register, Enter
  <2>5. UNCHANGED <<clients, store, sent, worker, closer, closing, sendQueue, retryQueue>>
    BY DEF Register, registration, queues, delivery
  <2>6. created \in Nat /\ g \in Client /\ g \notin Objs /\ Objs' = Objs \cup {g}
    BY <2>4, Options, BoundAssumption, SMT DEF TInv, Fixed, Objs, Client
  <2>7. clients[i] < g
    <3>1. clients[i] = NoClient \/ clients[i] \in Objs BY RegisteredObjs
    <3> QED BY <2>6, <3>1, SMT DEF NoClient, Objs
  <2> HIDE DEF d, r
  <2>8. client'[g] = r /\ \A h \in Client : h # g => client'[h] = client[h] BY <2>4, <2>6, ObjectChanged
  <2> PICK k \in Client : k = g BY <2>6
  <2>9. caller'[p] = d /\ \A q \in Actors : q # p => caller'[q] = caller[q] BY <2>1, <2>4, Mine
  <2>10. Frame(p)
    <3>1. \A h \in Objs : client'[h] = client[h] BY <2>6, <2>8, ObjsClients
    <3>2. Objs \subseteq Objs' /\ \A h \in Objs : ObjectKept(h, p) BY <2>6, <3>1 DEF ObjectKept
    <3>3. \A j \in ClientIDs : (lifecycle'[j] # lifecycle[j] \/ clients'[j] # clients[j]) => lifecycle[j] \in {p, Nobody}
      BY <2>4, <2>5 DEF TInv, Locks
    <3> QED BY <2>9, <3>1, <3>2, <3>3, <1>FrameOf
  <2>11. ASSUME NEW h \in Client PROVE ObjSafe(h)'
    <3>1. CASE h = k
      <4>1. client'[h] = r /\ sent'[h] = <<>> /\ h \in Objs'
        BY <2>5, <2>6, <2>8, <3>1 DEF SInv, ObjSafe
      <4> QED BY <2>3, <4>1 DEF ObjSafe
    <3>2. CASE h # k BY <2>5, <2>6, <2>8, <3>2, <1>ObjectSame
    <3> QED BY <3>1, <3>2
  <2>12. \A j \in ClientIDs : IDSafe(j)' BY <2>4, <2>5, <2>10, <1>IDSame DEF Removing
  <2> PICK x : x = d OBVIOUS
  <2>13. SafeAt(p, x)'
    <3>1. /\ x.op = "register" /\ x.pc \in {"install", "retire"} /\ (x.pc = "install" => x.target = NoClient)
          /\ x.id = i /\ x.target = clients[i] /\ x.fresh = g
      BY <2>2
    <3>2. PreInstall(x) /\ Holding(x) /\ ~PastInstall(x) BY <3>1 DEF PreInstall, Holding, PastInstall
    <3>3. lifecycle'[x.id] = p BY <2>4, <3>1 DEF TInv, Locks
    <3>4. client'[x.fresh].id = x.id /\ client'[x.fresh].mu = Nobody /\ x.target = clients'[x.id] /\ x.target < x.fresh
      BY <2>3, <2>5, <2>7, <2>8, <3>1
    <3> QED BY <2>1, <3>1, <3>2, <3>3, <3>4 DEF SafeAt, MuFree, PreInstall, Holding, PastInstall
  <2> QED BY <2>1, <2>5, <2>9, <2>10, <2>11, <2>12, <2>13, <1>CallSafe
(* Unregistering a client, by a call or by the goroutine that removes it. *)
<1>UnregisterSafe.
  ASSUME NEW p \in Actors, NEW i \in ClientIDs, Unregister(p, i), caller[p].pc \in {"idle", "spawned"},
         p \in Client => caller[p].pc # "idle"
  PROVE  SInv'
  <2> USE <1>UnregisterSafe
  <2> DEFINE d == [Idle EXCEPT !.pc = "removeSend", !.op = "unregister", !.id = i, !.target = clients[i]]
  <2>1. d.pc = "removeSend" /\ d.op = "unregister" /\ d.id = i /\ d.target = clients[i] /\ d.fresh = NoClient
    BY DEF Idle
  <2>2. /\ caller' = [caller EXCEPT ![p] = d] /\ clients' = [clients EXCEPT ![i] = NoClient]
        /\ lifecycle' = [lifecycle EXCEPT ![i] = p] /\ lifecycle[i] = Nobody /\ clients[i] # NoClient
        /\ UNCHANGED <<client, store, sent, created, worker, closer, closing, sendQueue, retryQueue>>
    BY DEF Unregister, Enter, queues, delivery, counters
  <2> HIDE DEF d
  <2>3. caller'[p] = d /\ \A q \in Actors : q # p => caller'[q] = caller[q] BY <2>2, Mine
  <2>4. /\ clients'[i] = NoClient /\ \A j \in ClientIDs : j # i => clients'[j] = clients[j]
        /\ lifecycle'[i] = p /\ \A j \in ClientIDs : j # i => lifecycle'[j] = lifecycle[j]
    BY <2>2 DEF TInv, Registered, Locks
  <2>5. Frame(p)
    <3>1. Objs \subseteq Objs' /\ \A g \in Objs : ObjectKept(g, p) BY <2>2 DEF Objs, ObjectKept
    <3>2. \A j \in ClientIDs : (lifecycle'[j] # lifecycle[j] \/ clients'[j] # clients[j]) => lifecycle[j] \in {p, Nobody}
      BY <2>2, <2>4
    <3> QED BY <2>2, <2>3, <3>1, <3>2, <1>FrameOf
  <2>6. \A g \in Client : ObjSafe(g)' BY <2>2, <1>ObjectSame DEF Objs
  <2>7. ASSUME NEW j \in ClientIDs PROVE IDSafe(j)'
    <3>1. CASE j = i
      <4>1. Removing(caller'[p], j) BY <2>1, <2>3, <3>1 DEF Removing
      <4> QED BY <2>4, <3>1, <4>1 DEF IDSafe, Removing
    <3>2. CASE j # i BY <2>2, <2>4, <2>5, <3>2, <1>IDSame DEF Removing
    <3> QED BY <3>1, <3>2
  <2> PICK x : x = d OBVIOUS
  <2>8. SafeAt(p, x)'
    <3>1. Holding(x) /\ ~PreInstall(x) /\ ~PastInstall(x) BY <2>1 DEF Holding, PreInstall, PastInstall
    <3>2. client'[x.target].id = x.id BY <2>1, <2>2 DEF SInv, IDSafe
    <3>3. p \in Client => p \in Objs' /\ client'[p].inactive BY <2>2 DEF SInv, SafeAt, Objs
    <3>4. lifecycle'[x.id] = p BY <2>1, <2>4
    <3> QED BY <2>1, <3>1, <3>2, <3>3, <3>4 DEF SafeAt, MuFree, PreInstall, Holding, PastInstall
  <2>9. \A j \in ClientIDs : clients'[j] \in {clients[j], NoClient} BY <2>4
  <2> QED BY <2>2, <2>3, <2>5, <2>6, <2>7, <2>8, <2>9, <1>CallSafe
<1>RemovalSafe. ASSUME NEW g \in Client, Removal(g) PROVE SInv'
  <2> USE <1>RemovalSafe
  <2>1. /\ g \in Actors /\ caller[g].pc = "spawned" /\ SafeAt(g, caller[g]) /\ caller[g].id = client[g].id
        /\ client[g].id \in ClientIDs
    BY Referred DEF Removal, Actors, SInv, SafeAt
  <2>2. CASE clients[client[g].id] = g
    <3>1. Unregister(g, client[g].id) BY <2>2 DEF Removal, RemoveExhausted
    <3> QED BY <2>1, <3>1, <1>UnregisterSafe
  <2>3. CASE clients[client[g].id] # g
    <3>1. /\ Return(g) /\ lifecycle[caller[g].id] = Nobody
          /\ UNCHANGED <<registration, client, queues, delivery, counters, sent>>
      BY <2>1, <2>3 DEF Removal, RemoveExhausted
    <3>2. UNCHANGED <<client, clients, store, sent, created, worker, closer, closing, sendQueue, retryQueue>>
      BY <3>1 DEF registration, queues, delivery, counters
    <3> QED BY <2>1, <3>1, <3>2, <1>ReturnSafe
  <2> QED BY <2>2, <2>3
(* Places at which a call relies on nothing. *)
<1>LightSafe.
  ASSUME NEW p \in Actors, NEW x, ~Holding(x), x.op # "register",
         x.pc \notin {"close", "sending", "spawned"},
         x.op \in {"disconnect", "unregister"} => x.fresh = NoClient,
         p \in Client => caller[p].pc # "idle", Objs \subseteq Objs', \A h \in Objs : ObjectKept(h, p)
  PROVE  SafeAt(p, x)'
  <2> USE <1>LightSafe
  <2>1. p \in Client => p \in Objs' /\ client'[p].inactive BY DEF SInv, SafeAt, ObjectKept
  <2> QED BY <2>1 DEF SafeAt, MuFree, PreInstall, Holding, PastInstall
<1>LightMoveSafe.
  ASSUME NEW p \in Actors, NEW x, caller' = [caller EXCEPT ![p] = x], ~Holding(x), x.op # "register",
         x.pc \notin {"close", "sending", "spawned"},
         x.op \in {"disconnect", "unregister"} => x.fresh = NoClient,
         p \in Client => caller[p].pc # "idle",
         UNCHANGED <<client, clients, sent, created, worker, closer, closing>>,
         \A i \in ClientIDs : store'[i] = store[i] \/ clients[i] # NoClient,
         \A i \in ClientIDs : lifecycle'[i] # lifecycle[i] => lifecycle[i] \in {p, Nobody},
         closing >= Flushing => sendQueue' \subseteq sendQueue /\ retryQueue' \subseteq retryQueue,
         caller[p].pc \notin {"removeSend", "removeRetry"}
  PROVE  SInv'
  <2> USE <1>LightMoveSafe
  <2>1. SafeAt(p, x)'
    <3>1. Objs \subseteq Objs' /\ \A h \in Objs : ObjectKept(h, p) BY DEF Objs, ObjectKept
    <3> QED BY <3>1, <1>LightSafe
  <2>2. \A i \in ClientIDs : ~Removing(caller[p], i) BY DEF Removing
  <2> QED BY <2>1, <2>2, <1>MoveSafe
<1>OnwardSafe. ASSUME NEW p \in Actors, NEW x, Onward(p, x) PROVE SafeAt(p, x)'
  <2> USE <1>OnwardSafe DEF Onward
  <2> DEFINE c == caller[p]
  <2>1. SafeAt(p, c) /\ c.target \in Objs BY Referred DEF SInv
  <2>2. ~PreInstall(x) /\ (PastInstall(x) => PastInstall(c) /\ Holding(x)) /\ c.pc # "replay"
    BY DEF PreInstall, PastInstall, Holding
  <2>3. Holding(x) => lifecycle'[x.id] = p BY <2>1 DEF SafeAt
  <2>4. PastInstall(x) => Holding(x) /\ clients'[x.id] = x.fresh /\ x.target = x.fresh
    BY <2>1, <2>2 DEF SafeAt
  <2>5. x.op \in {"disconnect", "unregister"} => x.fresh = NoClient /\ (Holding(x) => client'[x.target].id = x.id)
    BY <2>1, ZenonT(60) DEF SafeAt, ObjectKept
  <2>6. (p \in Client /\ x.pc # "idle") => p \in Objs' /\ client'[p].inactive
    BY <2>1 DEF SafeAt, ObjectKept, Objs
  <2> QED BY <2>2, <2>3, <2>4, <2>5, <2>6 DEF SafeAt, MuFree, PreInstall, Holding, PastInstall
(* The calls that do not take the lock yet. *)
<1>StartsSafe.
  ASSUME NEW p \in Callers, NEW i, NEW ids, NEW b,
         Disconnect(p, i) \/ Publish(p, ids, b) \/ ReplayMissedEvents(p, i, b)
  PROVE  SInv'
  <2> USE <1>StartsSafe
  <2> PICK x : x = caller'[p] OBVIOUS
  <2>1. p \in Actors /\ p \notin Client BY <1>CallersOnly
  <2>2. caller[p].pc = "idle" BY DEF Disconnect, Publish, ReplayMissedEvents
  <2>3. UNCHANGED <<client, clients, store, lifecycle, sent, created, worker, closer, closing, sendQueue, retryQueue>>
    BY DEF Disconnect, Publish, ReplayMissedEvents, registration, queues, delivery, counters
  <2>4. /\ caller' = [caller EXCEPT ![p] = x] /\ x.pc \in {"disconnect", "handle", "replayWait"}
        /\ x.op \in {"disconnect", "publish", "replay"} /\ x.fresh = NoClient
    <3>1. CASE Disconnect(p, i) BY <2>1, <3>1 DEF Disconnect, TInv, Calling, Idle
    <3>2. CASE Publish(p, ids, b) BY <2>1, <3>2 DEF Publish, TInv, Calling, Idle
    <3>3. CASE ReplayMissedEvents(p, i, b) BY <2>1, <3>3 DEF ReplayMissedEvents, TInv, Calling, Idle
    <3> QED BY <3>1, <3>2, <3>3
  <2>5. ~Holding(x) /\ x.op # "register" BY <2>4 DEF Holding
  <2> QED BY <2>1, <2>2, <2>3, <2>4, <2>5, <1>LightMoveSafe
<1>HandleEndsSafe.
  ASSUME NEW p \in Actors, NEW i, SkipClient(p, i) \/ HandleFails(p)
  PROVE  SInv'
  <2> USE <1>HandleEndsSafe
  <2> PICK x : x = caller'[p] OBVIOUS
  <2>1. caller[p].pc = "handle" BY DEF SkipClient, HandleFails
  <2>2. UNCHANGED <<client, clients, store, lifecycle, sent, created, worker, closer, closing, sendQueue, retryQueue>>
    BY DEF SkipClient, HandleFails, registration, queues, delivery, counters
  <2>3. caller' = [caller EXCEPT ![p] = x] /\ (x = Idle \/ x = Handled(caller[p], i))
    BY DEF SkipClient, HandleFails, TInv, Calling
  <2>4. x.pc \in {"idle", "handle"} /\ x.op \in {"none", "publish"} /\ ~Holding(x)
    <3>1. Idle.pc = "idle" /\ Idle.op = "none" /\ ~Holding(Idle) BY DEF Idle, Holding
    <3>2. x = Handled(caller[p], i) => x.pc \in {"idle", "handle"} /\ x.op \in {"none", "publish"} /\ ~Holding(x)
      BY HandledLight
    <3> QED BY <2>3, <3>1, <3>2
  <2> QED BY <2>1, <2>2, <2>3, <2>4, <1>LightMoveSafe
(* The calls that take the lock. *)
<1>TakeLockSafe.
  ASSUME NEW p \in Callers, DisconnectLocked(p) \/ ReplayEnter(p)
  PROVE  SInv'
  <2> USE <1>TakeLockSafe
  <2> DEFINE c == caller[p]
  <2>1. p \in Actors /\ p \notin Client BY <1>CallersOnly
  <2>2. /\ IsCaller(c) /\ CallerAt(c) /\ SafeAt(p, c) /\ c.pc \in {"disconnect", "replayWait"} /\ c.id \in ClientIDs
        /\ lifecycle[c.id] = Nobody
    BY <2>1 DEF DisconnectLocked, ReplayEnter, TInv, Calling, SInv, CallerAt
  <2>3. UNCHANGED <<client, clients, store, sent, created, worker, closer, closing, sendQueue, retryQueue>>
    BY DEF DisconnectLocked, ReplayEnter, registration, queues, delivery, counters
  <2>4. CASE Return(p) BY <2>1, <2>2, <2>3, <2>4, <1>ReturnSafe
  <2>5. ASSUME NEW x, Enter(p, c.id, x), x.id = c.id, x.pc \in {"retire", "replay"},
               x.op \in {"disconnect", "replay"}, x.op = "replay" <=> x.pc = "replay",
               x.op = "disconnect" => x.fresh = NoClient /\ client[x.target].id = x.id
        PROVE  SInv'
    <3>1. Holding(x) /\ ~PreInstall(x) /\ ~PastInstall(x) BY <2>5 DEF Holding, PreInstall, PastInstall
    <3>2. /\ lifecycle'[c.id] = p /\ \A i \in ClientIDs : lifecycle'[i] # lifecycle[i] => lifecycle[i] \in {p, Nobody}
          /\ caller' = [caller EXCEPT ![p] = x]
      BY <2>2, <2>5 DEF Enter, TInv, Locks
    <3>3. SafeAt(p, x)'
      BY <2>1, <2>3, <2>5, <3>1, <3>2 DEF SafeAt, MuFree, PreInstall, Holding, PastInstall
    <3>4. \A i \in ClientIDs : ~Removing(c, i) BY <2>2 DEF Removing
    <3> QED BY <2>1, <2>3, <3>2, <3>3, <3>4, <1>MoveSafe
  <2>6. CASE DisconnectLocked(p) /\ ~Return(p)
    <3> DEFINE d == [c EXCEPT !.pc = "retire"]
    <3>1. Enter(p, c.id, d) /\ clients[c.id] = c.target /\ c.pc = "disconnect" BY <2>6 DEF DisconnectLocked
    <3>2. d.pc = "retire" /\ d.op = "disconnect" /\ d.id = c.id /\ d.target = c.target /\ d.fresh = c.fresh
      BY <2>2, <3>1 DEF IsCaller, CallerAt
    <3> HIDE DEF d
    <3>3. c.target # NoClient BY <2>2, <3>1, AnObject DEF CallerAt, TInv
    <3>4. c.fresh = NoClient /\ client[c.target].id = c.id
      <4>1. c.op = "disconnect" BY <2>2, <3>1 DEF CallerAt
      <4>2. c.fresh = NoClient BY <2>2, <4>1 DEF SafeAt
      <4>3. IDSafe(c.id) BY <2>2 DEF SInv
      <4> QED BY <3>1, <3>3, <4>2, <4>3 DEF IDSafe
    <3> PICK x : x = d OBVIOUS
    <3> QED BY <2>5, <3>1, <3>2, <3>4
  <2>7. CASE ReplayEnter(p) /\ ~Return(p)
    <3> DEFINE d == [c EXCEPT !.pc = "replay", !.fresh = clients[c.id]]
    <3>1. Enter(p, c.id, d) /\ c.pc = "replayWait" BY <2>7 DEF ReplayEnter
    <3>2. d.pc = "replay" /\ d.op = "replay" /\ d.id = c.id BY <2>2, <3>1 DEF IsCaller, CallerAt
    <3> HIDE DEF d
    <3> PICK x : x = d OBVIOUS
    <3> QED BY <2>5, <3>1, <3>2
  <2> QED BY <2>4, <2>6, <2>7
<1>HandleClientSafe.
  ASSUME NEW p \in Callers, NEW i \in ClientIDs, HandleClient(p, i)
  PROVE  SInv'
  <2> USE <1>HandleClientSafe
  <2> DEFINE c == caller[p]
             g == clients[i]
             e == [c.event EXCEPT !.client = g, !.generation = client[g].generation]
             d == IF ~IsActive(g) THEN Handled(c, i)
                  ELSE [c EXCEPT !.pc = IF Synchronous THEN "send" ELSE "push", !.id = i, !.target = g, !.event = e]
  <2>1. p \in Actors /\ p \notin Client BY <1>CallersOnly
  <2>2. IsCaller(c) /\ CallerAt(c) /\ c.pc = "handle" /\ c.op = "publish"
    BY <2>1 DEF HandleClient, TInv, Calling, CallerAt
  <2>3. /\ caller' = [caller EXCEPT ![p] = d] /\ lifecycle[i] = Nobody /\ clients[i] # NoClient
        /\ lifecycle' = IF IsActive(g) /\ ~Synchronous THEN [lifecycle EXCEPT ![i] = p] ELSE lifecycle
        /\ UNCHANGED <<client, clients, sent, created, worker, closer, closing, sendQueue, retryQueue>>
    BY DEF HandleClient, queues, delivery, counters
  <2>4. \A j \in ClientIDs : store'[j] = store[j] \/ clients[j] # NoClient
    BY <2>3 DEF HandleClient, TInv, Registered
  <2>5. \A j \in ClientIDs : lifecycle'[j] # lifecycle[j] => lifecycle[j] \in {p, Nobody}
    BY <2>3 DEF TInv, Locks
  <2>6. \/ d = Handled(c, i)
        \/ /\ IsActive(g) /\ d.pc = (IF Synchronous THEN "send" ELSE "push")
           /\ d.op = "publish" /\ d.id = i /\ d.target = g
    BY <2>2 DEF IsCaller
  <2> HIDE DEF d
  <2> PICK x : x = d OBVIOUS
  <2>7. caller' = [caller EXCEPT ![p] = x] BY <2>3
  <2>8. CASE d = Handled(c, i)
    <3>1. x.pc \in {"idle", "handle"} /\ x.op \in {"none", "publish"} /\ ~Holding(x) BY <2>8, HandledLight
    <3> QED BY <2>1, <2>2, <2>3, <2>4, <2>5, <2>7, <3>1, <1>LightMoveSafe
  <2>9. CASE d # Handled(c, i) /\ Synchronous
    <3>1. x.pc = "send" /\ x.op = "publish" /\ ~Holding(x) BY <2>6, <2>9 DEF Holding
    <3> QED BY <2>1, <2>2, <2>3, <2>4, <2>5, <2>7, <3>1, <1>LightMoveSafe
  <2>10. CASE d # Handled(c, i) /\ ~Synchronous
    <3>1. x.pc = "push" /\ x.op = "publish" /\ x.id = i /\ IsActive(g) BY <2>6, <2>10
    <3>2. lifecycle'[i] = p BY <2>3, <2>10, <3>1 DEF TInv, Locks
    <3>3. SafeAt(p, x)' BY <2>1, <3>1, <3>2 DEF SafeAt, MuFree, PreInstall, Holding, PastInstall
    <3>4. \A j \in ClientIDs : ~Removing(c, j) BY <2>2 DEF Removing
    <3> QED BY <2>1, <2>3, <2>4, <2>5, <2>7, <3>3, <3>4, <1>MoveSafe
  <2> QED BY <2>8, <2>9, <2>10
(* The push of a call, and its failure. *)
<1>PushFailsSafe. ASSUME NEW p \in Actors, PushFails(p) PROVE SInv'
  <2> USE <1>PushFailsSafe
  <2>1. caller[p].pc \in {"push", "replay"} /\ Return(p) BY DEF PushFails
  <2>2. UNCHANGED <<client, clients, store, sent, created, worker, closer, closing, sendQueue, retryQueue>>
    BY DEF PushFails, registration, queues, delivery, counters
  <2>3. Holding(caller[p]) BY <2>1 DEF Holding
  <2> QED BY <2>1, <2>2, <2>3, <1>ReturnSafe
<1>PushCallSafe. ASSUME NEW p \in Actors, PushCall(p) PROVE SInv'
  <2> USE <1>PushCallSafe
  <2> DEFINE c == caller[p]
             d == IF c.op = "publish" THEN Handled(c, c.id) ELSE [c EXCEPT !.pc = "backlog"]
  <2>1. IsCaller(c) /\ SafeAt(p, c) /\ c.pc = "push" /\ c.id \in ClientIDs /\ Holding(c) /\ lifecycle[c.id] = p
    BY Referred DEF PushCall, TInv, Calling, SInv, SafeAt, Holding
  <2>2. /\ caller' = [caller EXCEPT ![p] = d]
        /\ lifecycle' = IF c.op = "publish" THEN [lifecycle EXCEPT ![c.id] = Nobody] ELSE lifecycle
        /\ UNCHANGED <<client, clients, store, sent, created, worker, closer, closing>>
    <3>1. CASE c.op = "publish" BY <3>1 DEF PushCall, registration, delivery, counters
    <3>2. CASE c.op # "publish" BY <3>2 DEF PushCall, Goto, registration, delivery, counters
    <3> QED BY <3>1, <3>2
  <2>3. ~(closing >= Flushing) BY SMT DEF PushCall, PushEvent, TInv, Fixed, SendClosed, Flushing
  <2>4. \A i \in ClientIDs : lifecycle'[i] # lifecycle[i] => lifecycle[i] \in {p, Nobody}
    BY <2>1, <2>2 DEF TInv, Locks
  <2>5. CASE c.op = "publish"
    <3> PICK x : x = d OBVIOUS
    <3>1. x.pc \in {"idle", "handle"} /\ x.op \in {"none", "publish"} /\ ~Holding(x) BY <2>5, HandledLight
    <3>2. caller' = [caller EXCEPT ![p] = x] BY <2>2
    <3> QED BY <2>1, <2>2, <2>3, <2>4, <3>1, <3>2, <1>LightMoveSafe
  <2>6. CASE c.op # "publish"
    <3>1. d.pc = "backlog" /\ d.op = c.op /\ d.id = c.id /\ d.target = c.target /\ d.fresh = c.fresh
      BY <2>1, <2>6 DEF IsCaller
    <3> HIDE DEF d
    <3> PICK x : x = d OBVIOUS
    <3>2. caller' = [caller EXCEPT ![p] = x] /\ UNCHANGED lifecycle BY <2>2, <2>6
    <3>3. \A h \in Objs : ObjectKept(h, p) BY <2>2 DEF ObjectKept
    <3>4. SafeAt(p, x)'
      <4>1. /\ c.pc = "push" /\ x.op = c.op /\ x.id = c.id /\ x.target = c.target /\ x.fresh = c.fresh
            /\ x.pc = "backlog" /\ Holding(c) /\ UNCHANGED <<clients, lifecycle, created>>
        BY <2>1, <2>2, <3>1, <3>2
      <4>2. Onward(p, x) BY <3>3, <4>1 DEF Onward
      <4> QED BY <4>2, <1>OnwardSafe
    <3>5. \A i \in ClientIDs : ~Removing(c, i) BY <2>1 DEF Removing
    <3> QED BY <2>2, <2>3, <2>4, <3>2, <3>4, <3>5, <1>MoveSafe
  <2> QED BY <2>5, <2>6
(* The round of a replay. *)
<1>ReplayNextSafe. ASSUME NEW p \in Actors, ReplayNext(p) PROVE SInv'
  <2> USE <1>ReplayNextSafe
  <2> DEFINE c == caller[p]
  <2>1. IsCaller(c) /\ SafeAt(p, c) /\ c.pc = "backlog" /\ Holding(c)
    BY DEF ReplayNext, TInv, Calling, SInv, Holding
  <2>2. UNCHANGED <<client, clients, store, sent, created, worker, closer, closing, sendQueue, retryQueue>>
    BY DEF ReplayNext, registration, queues, delivery, counters
  <2>3. CASE Return(p) BY <2>1, <2>2, <2>3, <1>ReturnSafe
  <2>4. CASE ~Return(p)
    <3> PICK pc, b, e : /\ pc \in {"backlog", "send", "push"} /\ UNCHANGED lifecycle
                        /\ caller' = [caller EXCEPT ![p] = [c EXCEPT !.backlog = b, !.pc = pc, !.event = e]]
      BY <2>4 DEF ReplayNext
    <3> DEFINE d == [c EXCEPT !.backlog = b, !.pc = pc, !.event = e]
    <3>1. d.pc = pc /\ d.op = c.op /\ d.id = c.id /\ d.target = c.target /\ d.fresh = c.fresh
      BY <2>1 DEF IsCaller
    <3>2. caller' = [caller EXCEPT ![p] = d] OBVIOUS
    <3> HIDE DEF d
    <3> PICK x : x = d OBVIOUS
    <3>3. caller' = [caller EXCEPT ![p] = x] BY <3>2
    <3>4. \A h \in Objs : ObjectKept(h, p) BY <2>2 DEF ObjectKept
    <3>5. SafeAt(p, x)'
      <4>1. /\ c.pc = "backlog" /\ x.op = c.op /\ x.id = c.id /\ x.target = c.target /\ x.fresh = c.fresh
            /\ x.pc \in {"backlog", "push", "send"} /\ Holding(c) /\ UNCHANGED <<clients, lifecycle, created>>
        BY <2>1, <2>2, <3>1
      <4>2. Onward(p, x) BY <3>4, <4>1 DEF Onward
      <4> QED BY <4>2, <1>OnwardSafe
    <3>6. \A i \in ClientIDs : ~Removing(c, i) BY <2>1 DEF Removing
    <3> QED BY <2>2, <3>3, <3>5, <3>6, <1>MoveSafe
  <2> QED BY <2>3, <2>4
<1>ReplayLockedSafe. ASSUME NEW p \in Actors, ReplayLocked(p) PROVE SInv'
  <2> USE <1>ReplayLockedSafe
  <2> DEFINE c == caller[p]
             g == c.fresh
             d == [c EXCEPT !.pc = "removeSend", !.target = g]
             r == [client[g] EXCEPT !.generation = NextGeneration(@)]
  <2>1. /\ IsCaller(c) /\ CallerAt(c) /\ SafeAt(p, c) /\ c.pc = "replay" /\ Holding(c) /\ c.op \in {"register", "replay"}
        /\ g \in Objs /\ g \in Client /\ g \in Known
    BY Referred DEF ReplayLocked, TInv, Calling, SInv, Holding, CallerAt
  <2>2. UNCHANGED <<clients, store, sent, created, worker, closer, closing, sendQueue, retryQueue>>
    BY DEF ReplayLocked, registration, queues, delivery, counters
  <2>3. CASE ~(ReplayEnabled /\ IsActive(g))
    <3>1. Return(p) /\ UNCHANGED client BY <2>3 DEF ReplayLocked
    <3> QED BY <2>1, <2>2, <3>1, <1>ReturnSafe
  <2>4. CASE ReplayEnabled /\ IsActive(g)
    <3>1. caller' = [caller EXCEPT ![p] = d] /\ client' = [client EXCEPT ![g] = r] /\ UNCHANGED lifecycle
      BY <2>4 DEF ReplayLocked
    <3>2. d.pc = "removeSend" /\ d.op = c.op /\ d.id = c.id /\ d.target = g /\ d.fresh = g
      BY <2>1 DEF IsCaller
    <3>3. client[g] \in ClientType BY <2>1 DEF TInv, Identified
    <3>4. /\ ObjectGrows(g, r, p) /\ r.inactive = client[g].inactive /\ r.mu = client[g].mu
          /\ r.connectionClosed = client[g].connectionClosed
      BY <3>3 DEF ClientType, ObjectGrows
    <3> HIDE DEF d, r
    <3>5. /\ Objs' = Objs /\ \A h \in Objs : ObjectKept(h, p)
          /\ client'[g] = r /\ \A h \in Client : h # g => client'[h] = client[h]
      <4>1. client' = [client EXCEPT ![g] = r] /\ ObjectGrows(g, r, p) /\ g \in Known /\ g \in Client /\ UNCHANGED created
        BY <2>1, <2>2, <3>1, <3>4
      <4> QED BY <4>1, <1>ObjectsKept
    <3> PICK h \in Client : h = g BY <2>1
    <3> PICK x : x = d OBVIOUS
    <3>6. ObjSafe(h)'
      <4>1. ObjSafe(h) /\ client'[h] = r /\ ObjectGrows(h, r, p) /\ r.mu = client[h].mu /\ h \in Objs'
        BY <2>1, <3>4, <3>5 DEF SInv
      <4> QED BY <2>2, <3>4, <4>1 DEF ObjSafe, MuFree, ObjectGrows
    <3>7. SafeAt(p, x)'
      <4>1. x.pc = "removeSend" /\ x.op = c.op /\ x.id = c.id /\ x.target = g /\ x.fresh = g BY <3>2
      <4>2. Holding(x) /\ ~PreInstall(x) /\ (PastInstall(x) => PastInstall(c))
        BY <2>1, <4>1 DEF Holding, PreInstall, PastInstall
      <4>3. lifecycle'[x.id] = p /\ (PastInstall(x) => clients'[x.id] = x.fresh)
        BY <2>1, <2>2, <3>1, <4>1, <4>2 DEF SafeAt
      <4>4. (p \in Client /\ x.pc # "idle") => p \in Objs' /\ client'[p].inactive
        BY <2>1, <3>5 DEF SafeAt, ObjectKept
      <4> QED BY <2>1, <3>5, <4>1, <4>2, <4>3, <4>4 DEF SafeAt, MuFree, PreInstall, Holding, PastInstall
    <3>8. /\ caller' = [caller EXCEPT ![p] = x] /\ client' = [client EXCEPT ![h] = r] /\ ObjectGrows(h, r, p)
          /\ r.mu = client[h].mu /\ c.pc \notin {"removeSend", "removeRetry"}
      BY <2>1, <3>1, <3>4
    <3> QED BY <2>2, <3>1, <3>6, <3>7, <3>8, <1>ObjectStepSafe
  <2> QED BY <2>3, <2>4
(* Sending in the calling goroutine. *)
<1>CallSendSafe. ASSUME NEW p \in Actors, CallSend(p) PROVE SInv'
  <2> USE <1>CallSendSafe
  <2> DEFINE c == caller[p]
             g == c.target
  <2>1. IsCaller(c) /\ CallerAt(c) /\ SafeAt(p, c) /\ c.pc = "send" /\ g \in Objs /\ g \in Client /\ g \in Known
    BY Referred DEF CallSend, TInv, Calling, SInv
  <2>2. /\ UNCHANGED <<clients, store, lifecycle, sent, created, worker, closer, closing, sendQueue, retryQueue>>
        /\ MuFree(g)
    BY DEF CallSend, registration, queues, delivery, counters
  <2>3. \A i \in ClientIDs : ~Removing(c, i) BY <2>1 DEF Removing
  <2>4. CASE MaySend(g)
    <3> DEFINE d == [c EXCEPT !.pc = "sending", !.event = Attempted(@)]
               r == [client[g] EXCEPT !.mu = p]
    <3>1. caller' = [caller EXCEPT ![p] = d] /\ client' = [client EXCEPT ![g] = r]
      BY <2>4 DEF CallSend, BeginSend
    <3>2. d.pc = "sending" /\ d.op = c.op /\ d.id = c.id /\ d.target = g /\ d.fresh = c.fresh
      BY <2>1 DEF IsCaller
    <3>3. client[g] \in ClientType BY <2>1 DEF TInv, Identified
    <3>4. /\ ObjectGrows(g, r, p) /\ ~r.inactive /\ r.mu = p /\ r.connectionClosed = client[g].connectionClosed
      BY <2>2, <2>4, <3>3 DEF ClientType, ObjectGrows, MaySend, IsActive, MuFree
    <3> HIDE DEF d, r
    <3>5. /\ Objs' = Objs /\ \A h \in Objs : ObjectKept(h, p)
          /\ client'[g] = r /\ \A h \in Client : h # g => client'[h] = client[h]
      <4>1. client' = [client EXCEPT ![g] = r] /\ ObjectGrows(g, r, p) /\ g \in Known /\ g \in Client /\ UNCHANGED created
        BY <2>1, <2>2, <3>1, <3>4
      <4> QED BY <4>1, <1>ObjectsKept
    <3> PICK h \in Client : h = g BY <2>1
    <3> PICK x : x = d OBVIOUS
    <3>6. ObjSafe(h)'
      <4>1. ObjSafe(h) /\ client'[h] = r /\ ObjectGrows(h, r, p) /\ h \in Objs' /\ ~client[h].inactive
        BY <2>1, <2>4, <3>4, <3>5 DEF SInv, MaySend, IsActive
      <4> QED BY <2>2, <3>4, <4>1 DEF ObjSafe, MuFree, ObjectGrows
    <3>7. SafeAt(p, x)'
      <4>1. /\ c.pc = "send" /\ x.op = c.op /\ x.id = c.id /\ x.target = c.target /\ x.fresh = c.fresh
            /\ x.pc = "sending" /\ client'[x.target].mu = p /\ UNCHANGED <<clients, lifecycle, created>>
        BY <2>1, <2>2, <3>2, <3>4, <3>5
      <4>2. Holding(x) => Holding(c) BY <2>1, <4>1 DEF Holding
      <4>3. Onward(p, x) BY <3>5, <4>1, <4>2 DEF Onward
      <4> QED BY <4>3, <1>OnwardSafe
    <3>8. /\ caller' = [caller EXCEPT ![p] = x] /\ client' = [client EXCEPT ![h] = r] /\ ObjectGrows(h, r, p)
          /\ h \in Known /\ c.pc \notin {"removeSend", "removeRetry"}
      BY <2>1, <3>1, <3>4
    <3> QED BY <2>2, <3>6, <3>7, <3>8, <1>ObjectStepSafe
  <2>5. CASE ~MaySend(g) /\ c.op = "publish"
    <3> PICK x : x = Handled(c, c.id) OBVIOUS
    <3>1. x.pc \in {"idle", "handle"} /\ x.op \in {"none", "publish"} /\ ~Holding(x) BY HandledLight
    <3>2. caller' = [caller EXCEPT ![p] = x] /\ UNCHANGED client BY <2>5 DEF CallSend
    <3> QED BY <2>1, <2>2, <3>1, <3>2, <1>LightMoveSafe
  <2>6. CASE ~MaySend(g) /\ c.op # "publish"
    <3> DEFINE d == [c EXCEPT !.pc = "backlog"]
    <3>1. caller' = [caller EXCEPT ![p] = d] /\ UNCHANGED client BY <2>6 DEF CallSend
    <3>2. d.pc = "backlog" /\ d.op = c.op /\ d.id = c.id /\ d.target = g /\ d.fresh = c.fresh
      BY <2>1 DEF IsCaller
    <3> HIDE DEF d
    <3> PICK x : x = d OBVIOUS
    <3>3. \A h \in Objs : ObjectKept(h, p) BY <3>1 DEF ObjectKept
    <3>4. SafeAt(p, x)'
      <4>1. /\ c.pc = "send" /\ x.op = c.op /\ x.id = c.id /\ x.target = c.target /\ x.fresh = c.fresh
            /\ x.pc = "backlog" /\ UNCHANGED <<clients, lifecycle, created>> /\ Holding(c)
        BY <2>1, <2>2, <2>6, <3>2 DEF Holding
      <4>2. Onward(p, x) BY <3>3, <4>1 DEF Onward
      <4> QED BY <4>2, <1>OnwardSafe
    <3>5. caller' = [caller EXCEPT ![p] = x] BY <3>1
    <3> QED BY <2>2, <2>3, <3>1, <3>4, <3>5, <1>MoveSafe
  <2> QED BY <2>4, <2>5, <2>6
(* The section of send under client.mu, for whoever sends. *)
<1>SendBegins.
  ASSUME NEW m, NEW g \in Known, MuFree(g), MaySend(g), BeginSend(g, m), UNCHANGED <<created, sent>>
  PROVE  /\ Objs' = Objs /\ \A h \in Objs : ObjectKept(h, m) /\ (client'[h].mu # client[h].mu => h \in Known)
         /\ client'[g].mu = m /\ \A h \in Client : ObjSafe(h)'
  <2> USE <1>SendBegins
  <2> DEFINE r == [client[g] EXCEPT !.mu = m]
  <2>1. g \in Objs /\ g \in Client /\ client[g] \in ClientType BY AnObject DEF TInv, Identified
  <2>2. client' = [client EXCEPT ![g] = r] BY DEF BeginSend
  <2>3. ObjectGrows(g, r, m) /\ ~r.inactive /\ r.mu = m /\ r.connectionClosed = client[g].connectionClosed
    BY <2>1 DEF ClientType, ObjectGrows, MaySend, IsActive, MuFree
  <2> HIDE DEF r
  <2>4. /\ Objs' = Objs /\ \A h \in Objs : ObjectKept(h, m)
        /\ \A h \in Objs : client'[h].mu # client[h].mu => h \in Known
        /\ client'[g] = r /\ \A h \in Client : h # g => client'[h] = client[h]
    <3>1. client' = [client EXCEPT ![g] = r] /\ ObjectGrows(g, r, m) /\ g \in Known /\ g \in Client /\ UNCHANGED created
      BY <2>1, <2>2, <2>3
    <3> QED BY <3>1, <1>ObjectsKept
  <2>5. ObjSafe(g)'
    <3>1. ObjSafe(g) /\ ~client[g].inactive BY <2>1 DEF SInv, MaySend, IsActive
    <3> QED BY <2>1, <2>3, <2>4, <3>1 DEF ObjSafe, MuFree, ObjectGrows
  <2>6. \A h \in Client : ObjSafe(h)' BY <2>4, <2>5, <1>ObjectSame
  <2> QED BY <2>3, <2>4, <2>6
<1>SendEnds.
  ASSUME NEW m, m # Nobody, NEW e, NEW o, e.client \in Known, client[e.client].mu = m, EndSend(e, o),
         UNCHANGED created
  PROVE  /\ Objs' = Objs /\ \A h \in Objs : ObjectKept(h, m) /\ (client'[h].mu # client[h].mu => h \in Known)
         /\ \A h \in Client : ObjSafe(h)'
  <2> USE <1>SendEnds
  <2> PICK g : g = e.client OBVIOUS
  <2> DEFINE ends == EndsConnection(g, o)
             r == [client[g] EXCEPT !.mu = Nobody, !.inactive = @ \/ ends, !.connectionClosed = @ \/ ends]
  <2>1. g \in Known /\ g \in Objs /\ g \in Client /\ client[g] \in ClientType BY AnObject DEF TInv, Identified
  <2>2. /\ client' = [client EXCEPT ![g] = r]
        /\ sent' = [sent EXCEPT ![g] = IF o = "ok" THEN Append(@, e.pub) ELSE @]
    BY DEF EndSend
  <2>3. ends \in BOOLEAN BY DEF EndsConnection
  <2>4. /\ ObjectGrows(g, r, m) /\ r.mu = Nobody /\ r.inactive = (client[g].inactive \/ ends)
        /\ r.connectionClosed = (client[g].connectionClosed \/ ends)
    BY <2>1, <2>3 DEF ClientType, ObjectGrows
  <2> HIDE DEF r, ends
  <2>5. /\ Objs' = Objs /\ \A h \in Objs : ObjectKept(h, m)
        /\ \A h \in Objs : client'[h].mu # client[h].mu => h \in Known
        /\ client'[g] = r /\ \A h \in Client : h # g => client'[h] = client[h]
    <3>1. client' = [client EXCEPT ![g] = r] /\ ObjectGrows(g, r, m) /\ g \in Known /\ g \in Client /\ UNCHANGED created
      BY <2>1, <2>2, <2>4
    <3>2. Objs' = Objs /\ \A h \in Objs : ObjectKept(h, m) BY <3>1, <1>ObjectsKept
    <3>3. \A h \in Objs : client'[h].mu # client[h].mu => h \in Known BY <3>1, <1>ObjectsKept
    <3>4. client'[g] = r /\ \A h \in Client : h # g => client'[h] = client[h] BY <3>1, ObjectChanged
    <3> QED BY <3>2, <3>3, <3>4
  <2>6. ObjSafe(g)'
    <3>1. ObjSafe(g) /\ ~client[g].connectionClosed /\ sent[g] \in Seq(Pubs)
      BY <2>1 DEF SInv, ObjSafe, MuFree, TInv, Received
    <3>2. sent'[g] = IF o = "ok" THEN Append(sent[g], e.pub) ELSE sent[g] BY <2>1, <2>2 DEF TInv, Received
    <3>3. client[g].complete => sent[g] = <<>> BY <3>1 DEF ObjSafe
    <3>4. client[g].complete /\ o = "ok" => ends /\ Len(sent'[g]) = 1
      <4>1. Len(Append(<<>>, e.pub)) = 1 BY SMT
      <4> QED BY <3>2, <3>3, <4>1 DEF ends, EndsConnection
    <3>5. client[g].complete /\ o # "ok" => sent'[g] = <<>> BY <3>2, <3>3
    <3> QED BY <2>1, <2>4, <2>5, <3>1, <3>4, <3>5 DEF ObjSafe, MuFree, ObjectGrows
  <2>7. \A h \in Client : h # g => sent'[h] = sent[h] BY <2>2 DEF TInv, Received
  <2>8. \A h \in Client : ObjSafe(h)' BY <2>5, <2>6, <2>7, <1>ObjectSame
  <2> QED BY <2>5, <2>8
<1>CallSentSafe. ASSUME NEW p \in Actors, NEW o, CallSent(p, o) PROVE SInv'
  <2> USE <1>CallSentSafe
  <2> DEFINE c == caller[p]
             d == IF c.op = "publish" THEN Handled(c, c.id) ELSE [c EXCEPT !.pc = "backlog"]
  <2>1. /\ IsCaller(c) /\ SafeAt(p, c) /\ c.pc = "sending" /\ c.event.client = c.target /\ c.target \in Known
    BY Referred DEF CallSent, TInv, Calling, SInv, CallerAt
  <2>2. /\ caller' = [caller EXCEPT ![p] = d] /\ EndSend(c.event, o)
        /\ UNCHANGED <<clients, store, lifecycle, created, worker, closer, closing, sendQueue, retryQueue>>
    BY DEF CallSent, registration, queues, delivery, counters
  <2>3. /\ Objs' = Objs /\ \A h \in Objs : ObjectKept(h, p) /\ (client'[h].mu # client[h].mu => h \in Known)
        /\ \A h \in Client : ObjSafe(h)'
    <3>1. client[c.event.client].mu = p /\ p # Nobody BY <2>1, Goroutines DEF SafeAt
    <3> QED BY <2>1, <2>2, <3>1, <1>SendEnds
  <2>4. c.op = "publish" \/ (d.pc = "backlog" /\ d.op = c.op /\ d.id = c.id /\ d.target = c.target /\ d.fresh = c.fresh)
    BY <2>1 DEF IsCaller
  <2>5. c.op = "publish" => d = Handled(c, c.id) OBVIOUS
  <2> HIDE DEF d
  <2> PICK x : x = d OBVIOUS
  <2>6. caller'[p] = x /\ \A q \in Actors : q # p => caller'[q] = caller[q] BY <2>2, Mine
  <2>7. Frame(p) BY <2>2, <2>3, <2>6, <1>FrameOf
  <2>8. \A i \in ClientIDs : IDSafe(i)' BY <2>1, <2>2, <2>7, <1>IDSame DEF Removing
  <2>9. SafeAt(p, x)'
    <3>1. CASE c.op = "publish"
      <4>1. x.pc \in {"idle", "handle"} /\ x.op \in {"none", "publish"} /\ ~Holding(x)
        BY <2>5, <3>1, HandledLight
      <4> QED BY <2>1, <2>3, <4>1, <1>LightSafe
    <3>2. CASE c.op # "publish"
      <4>1. /\ c.pc = "sending" /\ x.op = c.op /\ x.id = c.id /\ x.target = c.target /\ x.fresh = c.fresh
            /\ x.pc = "backlog" /\ UNCHANGED <<clients, lifecycle, created>> /\ Holding(c)
        BY <2>1, <2>2, <2>4, <3>2 DEF Holding
      <4>2. Onward(p, x) BY <2>3, <4>1 DEF Onward
      <4> QED BY <4>2, <1>OnwardSafe
    <3> QED BY <3>1, <3>2
  <2> QED BY <2>2, <2>3, <2>6, <2>7, <2>8, <2>9, <1>CallSafe
(* A step of a worker. *)
<1>WorkerSafe.
  ASSUME NEW w \in Workers, NEW r, worker' = [worker EXCEPT ![w] = r],
         Objs' = Objs, \A h \in Objs : ObjectKept(h, w) /\ (client'[h].mu # client[h].mu => h \in Known),
         r.pc = "sending" => client'[r.event.client].mu = w,
         \A h \in Client : ObjSafe(h)', UNCHANGED <<clients, store, lifecycle, caller, closer, closing>>,
         closing >= Flushing => sendQueue' \subseteq sendQueue /\ retryQueue' \subseteq retryQueue
  PROVE  SInv'
  <2> USE <1>WorkerSafe
  <2>1. Frame(w) BY <1>FrameOf
  <2>2. worker'[w] = r /\ \A v \in Workers : v # w => worker'[v] = worker[v] BY DEF TInv, Working
  <2>3. w \notin Actors /\ w # Closer BY Goroutines
  <2>4. ASSUME NEW q \in Actors PROVE SafeAt(q, caller[q])'
    <3>1. q # w BY <2>3
    <3> QED BY <2>1, <3>1, <1>OthersSafe
  <2>5. \A i \in ClientIDs : IDSafe(i)' BY <2>1, <2>3, <1>IDSame
  <2>6. Sending' BY <2>1, <2>2, <1>SendingKept
  <2>7. CloserSafe' BY <2>1, <2>3, <1>CloserKept
  <2> QED BY <2>4, <2>5, <2>6, <2>7 DEF SInv
(* The worker does not touch a client. *)
<1>WorkerQuiet.
  ASSUME NEW w \in Workers, NEW r, worker' = [worker EXCEPT ![w] = r], r.pc # "sending",
         UNCHANGED <<client, sent, created, clients, store, lifecycle, caller, closer, closing>>,
         closing >= Flushing => sendQueue' \subseteq sendQueue /\ retryQueue' \subseteq retryQueue
  PROVE  SInv'
  <2> USE <1>WorkerQuiet
  <2>1. Objs' = Objs /\ \A h \in Objs : ObjectKept(h, w) /\ client'[h].mu = client[h].mu
    BY DEF Objs, ObjectKept
  <2>2. \A h \in Client : ObjSafe(h)' BY <2>1, <1>ObjectSame
  <2> QED BY <2>1, <2>2, <1>WorkerSafe
<1>RoundQuits.
  ASSUME NEW w \in Workers, NEW retry \in BOOLEAN, EndRound(w, retry)
  PROVE  \E r : worker' = [worker EXCEPT ![w] = r] /\ r.pc # "sending" /\ UNCHANGED <<sendQueue, retryQueue>>
  <2> USE <1>RoundQuits
  <2> DEFINE d == IF retry THEN [worker[w] EXCEPT !.pc = "schedule", !.inTurn = FALSE] ELSE AtPop
  <2>1. worker[w] \in WorkerType BY DEF TInv, Working
  <2>2. d.pc \in {"schedule", "pop"} BY <2>1 DEF WorkerType, AtPop
  <2>3. worker' = [worker EXCEPT ![w] = d] /\ UNCHANGED <<sendQueue, retryQueue>> BY DEF EndRound, SetWorker
  <2> QED BY <2>2, <2>3
<1>QuietWorkers.
  ASSUME NEW w \in Workers,
         \/ Pop(w) \/ PopClosed(w) \/ WaitForTurn(w) \/ Attempt(w) \/ AfterFailure(w) \/ RetryDue(w)
         \/ (SendBegin(w) /\ ~MaySend(worker[w].event.client))
  PROVE  SInv'
  <2> USE <1>QuietWorkers
  <2>1. UNCHANGED <<client, sent, created, clients, store, lifecycle, caller, closer, closing>>
    BY DEF Pop, PopClosed, WaitForTurn, Attempt, AfterFailure, RetryDue, SendBegin, others, calls, counters
  <2>2. worker[w] \in WorkerType BY DEF TInv, Working
  <2>3. SUFFICES \E r : /\ worker' = [worker EXCEPT ![w] = r] /\ r.pc # "sending"
                        /\ sendQueue' \subseteq sendQueue /\ retryQueue' \subseteq retryQueue
    BY <2>1, <1>WorkerQuiet
  <2>4. ASSUME EndRound(w, TRUE) \/ EndRound(w, FALSE)
        PROVE  \E r : /\ worker' = [worker EXCEPT ![w] = r] /\ r.pc # "sending"
                      /\ sendQueue' \subseteq sendQueue /\ retryQueue' \subseteq retryQueue
    <3> PICK b \in BOOLEAN : EndRound(w, b) BY <2>4
    <3> PICK r : worker' = [worker EXCEPT ![w] = r] /\ r.pc # "sending" /\ UNCHANGED <<sendQueue, retryQueue>>
      BY <1>RoundQuits
    <3> QED OBVIOUS
  <2>5. ASSUME NEW pc, SetWorker(w, [worker[w] EXCEPT !.pc = pc]), pc # "sending", UNCHANGED <<sendQueue, retryQueue>>
        PROVE  \E r : /\ worker' = [worker EXCEPT ![w] = r] /\ r.pc # "sending"
                      /\ sendQueue' \subseteq sendQueue /\ retryQueue' \subseteq retryQueue
    <3>1. [worker[w] EXCEPT !.pc = pc].pc = pc BY <2>2 DEF WorkerType
    <3> QED BY <2>5, <3>1 DEF SetWorker
  <2>6. ASSUME SetWorker(w, AtPop) \/ SetWorker(w, Returned), UNCHANGED <<sendQueue, retryQueue>>
        PROVE  \E r : /\ worker' = [worker EXCEPT ![w] = r] /\ r.pc # "sending"
                      /\ sendQueue' \subseteq sendQueue /\ retryQueue' \subseteq retryQueue
    <3>1. AtPop.pc = "pop" /\ Returned.pc = "done" BY DEF AtPop, Returned
    <3> QED BY <2>6, <3>1 DEF SetWorker
  <2>7. CASE Pop(w)
    <3> PICK e \in sendQueue : /\ sendQueue' = sendQueue \ {e}
                               /\ SetWorker(w, [pc |-> "turn", event |-> e, inTurn |-> TRUE])
      BY <2>7 DEF Pop
    <3>1. retryQueue' \subseteq retryQueue /\ sendQueue' \subseteq sendQueue BY <2>7 DEF Pop
    <3>2. [pc |-> "turn", event |-> e, inTurn |-> TRUE].pc # "sending" OBVIOUS
    <3> QED BY <3>1, <3>2 DEF SetWorker
  <2>8. CASE PopClosed(w) BY <2>6, <2>8 DEF PopClosed, queues
  <2>9. CASE WaitForTurn(w) BY <2>5, <2>6, <2>9 DEF WaitForTurn, queues
  <2>10. CASE Attempt(w) BY <2>4, <2>5, <2>10 DEF Attempt, queues
  <2>11. CASE AfterFailure(w) BY <2>4, <2>5, <2>11 DEF AfterFailure, queues
  <2>12. CASE RetryDue(w) BY <2>5, <2>6, <2>12 DEF RetryDue, queues
  <2>13. CASE SendBegin(w) /\ ~MaySend(worker[w].event.client) BY <2>4, <2>13 DEF SendBegin
  <2> QED BY <2>7, <2>8, <2>9, <2>10, <2>11, <2>12, <2>13
<1>ScheduleSafe. ASSUME NEW w \in Workers, Schedule(w) PROVE SInv'
  <2> USE <1>ScheduleSafe
  <2>1. UNCHANGED <<client, sent, created, clients, store, lifecycle, caller, closer, closing, sendQueue>>
    BY DEF Schedule, others, calls, counters
  <2>2. closing < RetryClosed => ~(closing >= Flushing)
    BY SMT DEF TInv, Fixed, RetryClosed, Flushing
  <2>3. \E r : worker' = [worker EXCEPT ![w] = r] /\ r.pc # "sending"
    <3>1. AtPop.pc = "pop" /\ Returned.pc = "done" BY DEF AtPop, Returned
    <3>2. \A e : [pc |-> "pending", event |-> e, inTurn |-> FALSE].pc = "pending" OBVIOUS
    <3> QED BY <3>1, <3>2 DEF Schedule, SetWorker
  <2>4. closing >= Flushing => sendQueue' \subseteq sendQueue /\ retryQueue' \subseteq retryQueue
    BY <2>1, <2>2 DEF Schedule
  <2> QED BY <2>1, <2>3, <2>4, <1>WorkerQuiet
<1>SendBeginSafe. ASSUME NEW w \in Workers, SendBegin(w) PROVE SInv'
  <2> USE <1>SendBeginSafe
  <2> PICK g : g = worker[w].event.client OBVIOUS
  <2>1. CASE ~MaySend(g) BY <2>1, <1>QuietWorkers
  <2>2. CASE MaySend(g)
    <3> DEFINE r == [worker[w] EXCEPT !.pc = "sending", !.event = Attempted(@)]
    <3>1. /\ BeginSend(g, w) /\ worker' = [worker EXCEPT ![w] = r] /\ MuFree(g) /\ worker[w].pc = "send"
          /\ UNCHANGED <<sent, created, clients, store, lifecycle, caller, closer, closing, sendQueue, retryQueue>>
      BY <2>2 DEF SendBegin, SetWorker, others, calls, counters, queues
    <3>2. worker[w] \in WorkerType /\ g \in Known BY <3>1, AnObject DEF TInv, Working, WorkerAt, Made
    <3>3. r.event.client = g
      <4>1. r.event = Attempted(worker[w].event) BY <3>2 DEF WorkerType
      <4> QED BY <3>2, <4>1 DEF WorkerType, Event, Attempted
    <3> HIDE DEF r
    <3>4. /\ Objs' = Objs /\ \A h \in Objs : ObjectKept(h, w) /\ (client'[h].mu # client[h].mu => h \in Known)
          /\ client'[g].mu = w /\ \A h \in Client : ObjSafe(h)'
      BY <2>2, <3>1, <3>2, <1>SendBegins
    <3> QED BY <3>1, <3>3, <3>4, <1>WorkerSafe
  <2> QED BY <2>1, <2>2
<1>SendEndSafe. ASSUME NEW w \in Workers, NEW o, SendEnd(w, o) PROVE SInv'
  <2> USE <1>SendEndSafe
  <2> PICK e : e = worker[w].event OBVIOUS
  <2>1. /\ worker[w].pc = "sending" /\ EndSend(e, o)
        /\ UNCHANGED <<created, clients, store, lifecycle, caller, closer, closing>>
    BY DEF SendEnd, others, calls, counters
  <2>2. worker[w] \in WorkerType /\ e.client \in Known BY <2>1, AnObject DEF TInv, Working, WorkerAt, Made
  <2>3. client[e.client].mu = w /\ w # Nobody BY <2>1, Goroutines DEF SInv, Sending
  <2>4. /\ Objs' = Objs /\ \A h \in Objs : ObjectKept(h, w) /\ (client'[h].mu # client[h].mu => h \in Known)
        /\ \A h \in Client : ObjSafe(h)'
    BY <2>1, <2>2, <2>3, <1>SendEnds
  <2>5. PICK r : worker' = [worker EXCEPT ![w] = r] /\ r.pc # "sending" /\ UNCHANGED <<sendQueue, retryQueue>>
    <3>1. CASE o = "ok"
      <4>1. EndRound(w, FALSE) /\ FALSE \in BOOLEAN BY <3>1 DEF SendEnd
      <4> QED BY <4>1, <1>RoundQuits
    <3>2. CASE o # "ok"
      <4>1. [worker[w] EXCEPT !.pc = "failed"].pc = "failed" BY <2>2 DEF WorkerType
      <4> QED BY <3>2, <4>1 DEF SendEnd, SetWorker, queues
    <3> QED BY <3>1, <3>2
  <2> QED BY <2>1, <2>4, <2>5, <1>WorkerSafe
(* Giving a client up: the worker that makes it inactive starts its removal. *)
<1>ExhaustSafe. ASSUME NEW w \in Workers, Exhaust(w) PROVE SInv'
  <2> USE <1>ExhaustSafe
  <2> PICK g : g = worker[w].event.client OBVIOUS
  <2>1. /\ worker[w].pc = "exhausted" /\ EndRound(w, FALSE) /\ FALSE \in BOOLEAN
        /\ UNCHANGED <<sent, created, clients, store, lifecycle, closer, closing>>
    BY DEF Exhaust, calls, counters
  <2>2. PICK s : worker' = [worker EXCEPT ![w] = s] /\ s.pc # "sending" /\ UNCHANGED <<sendQueue, retryQueue>>
    BY <2>1, <1>RoundQuits
  <2>3. CASE ~IsActive(g)
    <3>1. UNCHANGED <<client, caller>> BY <2>3 DEF Exhaust
    <3> QED BY <2>1, <2>2, <3>1, <1>WorkerQuiet
  <2>4. CASE IsActive(g)
    <3> DEFINE r == [client[g] EXCEPT !.inactive = TRUE]
               d == [Idle EXCEPT !.pc = "spawned", !.op = "unregister", !.id = client[g].id]
    <3>1. client' = [client EXCEPT ![g] = r] /\ caller' = [caller EXCEPT ![g] = d]
      BY <2>4 DEF Exhaust, Spawn
    <3>2. g \in Known /\ g \in Objs /\ g \in Client /\ g \in Actors /\ client[g] \in ClientType /\ ~client[g].inactive
      BY <2>1, <2>4, AnObject DEF TInv, Working, WorkerAt, Made, Identified, IsActive, Actors
    <3>3. caller[g].pc = "idle" BY <3>2 DEF SInv, SafeAt
    <3>4. /\ r.mu = client[g].mu /\ r.inactive /\ r.connectionClosed = client[g].connectionClosed /\ r.id = client[g].id
          /\ ObjectGrows(g, r, g)
      BY <3>2 DEF ClientType, ObjectGrows
    <3>5. d.pc = "spawned" /\ d.op = "unregister" /\ d.id = client[g].id /\ d.fresh = NoClient BY DEF Idle
    <3> HIDE DEF r, d
    <3>6. /\ Objs' = Objs /\ \A h \in Objs : ObjectKept(h, g)
          /\ \A h \in Objs : client'[h].mu # client[h].mu => h \in Known
          /\ client'[g] = r /\ \A h \in Client : h # g => client'[h] = client[h]
      <4>1. client' = [client EXCEPT ![g] = r] /\ ObjectGrows(g, r, g) /\ g \in Known /\ g \in Client /\ UNCHANGED created
        BY <2>1, <3>1, <3>2, <3>4
      <4>2. Objs' = Objs /\ \A h \in Objs : ObjectKept(h, g) BY <4>1, <1>ObjectsKept
      <4>3. \A h \in Objs : client'[h].mu # client[h].mu => h \in Known BY <4>1, <1>ObjectsKept
      <4>4. client'[g] = r /\ \A h \in Client : h # g => client'[h] = client[h] BY <4>1, ObjectChanged
      <4> QED BY <4>2, <4>3, <4>4
    <3> PICK x : x = d OBVIOUS
    <3>7. caller'[g] = x /\ \A q \in Actors : q # g => caller'[q] = caller[q] BY <3>1, <3>2, Mine
    <3>8. Frame(g) BY <2>1, <3>6, <3>7, <1>FrameOf
    <3>9. SafeAt(g, x)'
      <4>1. g \in Objs' /\ client'[g].id = x.id /\ client'[g].inactive BY <3>2, <3>4, <3>5, <3>6
      <4> QED BY <3>5, <4>1 DEF SafeAt, Holding, PreInstall, PastInstall
    <3>10. ASSUME NEW q \in Actors PROVE SafeAt(q, caller[q])'
      <4>1. CASE q = g BY <3>2, <3>7, <3>9, <4>1, <1>SafeThen
      <4>2. CASE q # g BY <3>8, <4>2, <1>OthersSafe
      <4> QED BY <4>1, <4>2
    <3>11. ObjSafe(g)'
      <4>1. ObjSafe(g) /\ g \in Objs' BY <3>2, <3>6 DEF SInv
      <4> QED BY <2>1, <3>4, <3>6, <4>1 DEF ObjSafe, MuFree, ObjectGrows
    <3>12. \A h \in Client : ObjSafe(h)' BY <2>1, <3>6, <3>11, <1>ObjectSame
    <3>13. \A i \in ClientIDs : IDSafe(i)'
      <4>1. \A i \in ClientIDs : ~Removing(caller[g], i) BY <3>3 DEF Removing
      <4> QED BY <2>1, <3>8, <4>1, <1>IDSame
    <3>14. Sending'
      <4>1. \A v \in Workers : worker'[v].pc = "sending" => worker'[v] = worker[v] BY <2>2 DEF TInv, Working
      <4>2. g \notin Workers BY <3>2, Goroutines
      <4> QED BY <3>8, <4>1, <4>2, <1>SendingKept
    <3>15. CloserSafe'
      <4>1. g # Closer BY <3>2, Goroutines
      <4> QED BY <2>1, <2>2, <3>8, <4>1, <1>CloserKept
    <3> QED BY <3>10, <3>12, <3>13, <3>14, <3>15 DEF SInv
  <2> QED BY <2>3, <2>4
(* A step that leaves the clients and the calls alone. *)
<1>QuietSafe.
  ASSUME UNCHANGED <<client, sent, created, clients, store, lifecycle, caller, worker, closer, closing>>,
         closing >= Flushing => sendQueue' \subseteq sendQueue /\ retryQueue' \subseteq retryQueue
  PROVE  SInv'
  <2> USE <1>QuietSafe
  <2>1. Objs' = Objs /\ \A h \in Objs : ObjectKept(h, Nobody) /\ client'[h].mu = client[h].mu
    BY DEF Objs, ObjectKept
  <2>2. \A h \in Client : ObjSafe(h)' BY <2>1, <1>ObjectSame
  <2>3. Frame(Nobody) BY <2>1, <1>FrameOf
  <2>4. Nobody \notin Actors /\ Nobody \notin Workers /\ Nobody # Closer BY Goroutines
  <2>5. ASSUME NEW q \in Actors PROVE SafeAt(q, caller[q])'
    <3>1. q # Nobody BY <2>4
    <3> QED BY <2>3, <3>1, <1>OthersSafe
  <2>6. \A i \in ClientIDs : IDSafe(i)' BY <2>3, <2>4, <1>IDSame
  <2>7. Sending' BY <2>3, <2>4, <1>SendingKept
  <2>8. CloserSafe' BY <2>3, <2>4, <1>CloserKept
  <2> QED BY <2>2, <2>5, <2>6, <2>7, <2>8 DEF SInv
<1>RestSafe. ASSUME UNCHANGED vars PROVE SInv'
  <2> USE <1>RestSafe
  <2>1. /\ UNCHANGED <<client, sent, created, clients, store, lifecycle, caller, worker, closer, closing>>
        /\ sendQueue' \subseteq sendQueue /\ retryQueue' \subseteq retryQueue
    BY DEF vars, counters
  <2> QED BY <2>1, <1>QuietSafe
<1>SubscribedSafe. ASSUME NEW ids, SetSubscribed(ids) PROVE SInv'
  <2> USE <1>SubscribedSafe
  <2>1. /\ UNCHANGED <<client, sent, created, clients, store, lifecycle, caller, worker, closer, closing>>
        /\ sendQueue' \subseteq sendQueue /\ retryQueue' \subseteq retryQueue
    BY DEF SetSubscribed, queues, delivery, counters
  <2> QED BY <2>1, <1>QuietSafe
<1>SchedulerSafe. ASSUME SchedulerStep PROVE SInv'
  <2> USE <1>SchedulerSafe
  <2>1. UNCHANGED <<client, sent, created, clients, store, lifecycle, caller, worker, closer, closing>>
    BY DEF SchedulerStep, PopDue, PushRetry, SchedulerReturns, others, calls, counters
  <2>2. CASE PopDue
    <3>1. sendQueue' \subseteq sendQueue /\ retryQueue' \subseteq retryQueue BY <2>2 DEF PopDue
    <3> QED BY <2>1, <3>1, <1>QuietSafe
  <2>3. CASE PushRetry
    <3>1. ~(closing >= Flushing) BY <2>3, SMT DEF PushRetry, PushEvent, SendClosed, Flushing, TInv, Fixed
    <3> QED BY <2>1, <3>1, <1>QuietSafe
  <2>4. CASE SchedulerReturns
    <3>1. sendQueue' \subseteq sendQueue /\ retryQueue' \subseteq retryQueue BY <2>4 DEF SchedulerReturns, queues
    <3> QED BY <2>1, <3>1, <1>QuietSafe
  <2> QED BY <2>2, <2>3, <2>4 DEF SchedulerStep
(* A step of the shutdown. *)
<1>ShutdownSafe.
  ASSUME Objs' = Objs,
         \A h \in Objs : ObjectKept(h, Closer) /\ (client'[h].mu # client[h].mu => h \in Known),
         \A h \in Client : ObjSafe(h)', UNCHANGED <<clients, store, lifecycle, caller, worker>>, CloserSafe'
  PROVE  SInv'
  <2> USE <1>ShutdownSafe
  <2>1. Frame(Closer) BY <1>FrameOf
  <2>2. Closer \notin Actors /\ Closer \notin Workers BY Goroutines
  <2>3. ASSUME NEW q \in Actors PROVE SafeAt(q, caller[q])'
    <3>1. q # Closer BY <2>2
    <3> QED BY <2>1, <3>1, <1>OthersSafe
  <2>4. \A i \in ClientIDs : IDSafe(i)' BY <2>1, <2>2, <1>IDSame
  <2>5. Sending' BY <2>1, <2>2, <1>SendingKept
  <2> QED BY <2>3, <2>4, <2>5 DEF SInv
<1>ShutdownQuiet.
  ASSUME UNCHANGED <<client, sent, created, clients, store, lifecycle, caller, worker>>, CloserSafe'
  PROVE  SInv'
  <2> USE <1>ShutdownQuiet
  <2>1. Objs' = Objs /\ \A h \in Objs : ObjectKept(h, Closer) /\ client'[h].mu = client[h].mu
    BY DEF Objs, ObjectKept
  <2>2. \A h \in Client : ObjSafe(h)' BY <2>1, <1>ObjectSame
  <2> QED BY <2>1, <2>2, <1>ShutdownSafe
<1>CloseStepSafe. ASSUME CloseStep PROVE SInv'
  <2> USE <1>CloseStepSafe
  <2>1. /\ UNCHANGED <<client, sent, created, clients, store, lifecycle, caller, worker, closer>>
        /\ closing < Stopped /\ closing' = closing + 1
    BY DEF CloseStep, background, calls, counters
  <2>2. CloserSafe'
    <3>1. closer.pc \notin {"send", "sending", "close"} BY <2>1, Stages DEF SInv, CloserSafe
    <3> QED BY <2>1, <3>1, Stages DEF CloserSafe
  <2> QED BY <2>1, <2>2, <1>ShutdownQuiet
<1>DrainSafe. ASSUME Drain PROVE SInv'
  <2> USE <1>DrainSafe
  <2>1. /\ UNCHANGED <<client, sent, created, clients, store, lifecycle, caller, worker>>
        /\ closing = Stopped /\ closing' = Flushing /\ sendQueue' = {} /\ retryQueue' = {}
        /\ closer' = [closer EXCEPT !.flush = sendQueue]
    BY DEF Drain, background, calls, counters
  <2>2. CloserSafe'
    <3>1. closer.pc \notin {"send", "sending", "close"} BY <2>1, Stages DEF SInv, CloserSafe
    <3>2. closer'.pc = closer.pc BY <2>1 DEF TInv, Closing, CloserType
    <3> QED BY <2>1, <3>1, <3>2, Stages DEF CloserSafe
  <2> QED BY <2>1, <2>2, <1>ShutdownQuiet
<1>FlushNextSafe. ASSUME FlushNext PROVE SInv'
  <2> USE <1>FlushNextSafe
  <2>1. /\ UNCHANGED <<client, sent, created, clients, store, lifecycle, caller, worker, closing, sendQueue, retryQueue>>
        /\ closing = Flushing /\ closer.pc = "idle"
    BY DEF FlushNext, background, calls, counters
  <2>2. closer'.pc \in {"idle", "send"} BY <2>1 DEF FlushNext, TInv, Closing, CloserType
  <2>3. CloserSafe' BY <2>1, <2>2, Stages DEF SInv, CloserSafe
  <2> QED BY <2>1, <2>3, <1>ShutdownQuiet
<1>FlushSendSafe. ASSUME FlushSend PROVE SInv'
  <2> USE <1>FlushSendSafe
  <2> PICK g : g = closer.event.client OBVIOUS
  <2>1. /\ UNCHANGED <<sent, created, clients, store, lifecycle, caller, worker, closing, sendQueue, retryQueue>>
        /\ closer.pc = "send" /\ MuFree(g)
    BY DEF FlushSend, FlushDone, background, calls, counters, queues
  <2>2. closer \in CloserType /\ CloserSafe /\ g \in Known /\ closing = Flushing
    BY <2>1 DEF SInv, CloserSafe, TInv, Closing, Made
  <2>3. CASE ~MaySend(g)
    <3>1. closer'.pc = "idle" /\ UNCHANGED client BY <2>2, <2>3 DEF FlushSend, FlushDone, CloserType
    <3>2. CloserSafe' BY <2>1, <2>2, <3>1, Stages DEF CloserSafe
    <3> QED BY <2>1, <3>1, <3>2, <1>ShutdownQuiet
  <2>4. CASE MaySend(g)
    <3>1. BeginSend(g, Closer) /\ closer' = [closer EXCEPT !.pc = "sending", !.event = Attempted(@)]
      BY <2>4 DEF FlushSend
    <3>2. closer'.pc = "sending" /\ closer'.event.client = g
      <4>1. closer'.pc = "sending" /\ closer'.event = Attempted(closer.event) BY <2>2, <3>1 DEF CloserType
      <4> QED BY <2>2, <4>1 DEF CloserType, Event, Attempted
    <3>3. /\ Objs' = Objs /\ \A h \in Objs : ObjectKept(h, Closer) /\ (client'[h].mu # client[h].mu => h \in Known)
          /\ client'[g].mu = Closer /\ \A h \in Client : ObjSafe(h)'
      BY <2>1, <2>2, <2>4, <3>1, <1>SendBegins
    <3>4. CloserSafe' BY <2>1, <2>2, <3>2, <3>3, Stages DEF CloserSafe
    <3> QED BY <2>1, <3>3, <3>4, <1>ShutdownSafe
  <2> QED BY <2>3, <2>4
<1>FlushSentSafe. ASSUME NEW o, FlushSent(o) PROVE SInv'
  <2> USE <1>FlushSentSafe
  <2> PICK e : e = closer.event OBVIOUS
  <2>1. /\ UNCHANGED <<created, clients, store, lifecycle, caller, worker, closing, sendQueue, retryQueue>>
        /\ closer.pc = "sending" /\ EndSend(e, o)
        /\ closer' = [closer EXCEPT !.pc = "idle", !.event = NoEvent]
    BY DEF FlushSent, FlushDone, background, calls, counters
  <2>2. closer \in CloserType /\ CloserSafe /\ e.client \in Known /\ closing = Flushing
    BY <2>1 DEF SInv, CloserSafe, TInv, Closing, Made
  <2>3. client[e.client].mu = Closer /\ Closer # Nobody BY <2>1, <2>2, Goroutines DEF CloserSafe
  <2>4. /\ Objs' = Objs /\ \A h \in Objs : ObjectKept(h, Closer) /\ (client'[h].mu # client[h].mu => h \in Known)
        /\ \A h \in Client : ObjSafe(h)'
    BY <2>1, <2>2, <2>3, <1>SendEnds
  <2>5. closer'.pc = "idle" BY <2>1, <2>2 DEF CloserType
  <2>6. CloserSafe' BY <2>1, <2>2, <2>5, Stages DEF CloserSafe
  <2> QED BY <2>1, <2>4, <2>6, <1>ShutdownSafe
<1>RetireAllSafe. ASSUME RetireAll PROVE SInv'
  <2> USE <1>RetireAllSafe
  <2>1. /\ UNCHANGED <<client, sent, created, clients, store, lifecycle, caller, worker, sendQueue, retryQueue>>
        /\ closing = Flushing /\ closing' = Retiring /\ closer.pc = "idle"
        /\ closer' = [closer EXCEPT !.retire = {clients[i] : i \in ClientIDs} \ {NoClient}]
    BY DEF RetireAll, background, calls, counters, queues
  <2>2. closer'.pc = "idle" /\ closer'.retire = {clients[i] : i \in ClientIDs} \ {NoClient}
    BY <2>1 DEF TInv, Closing, CloserType
  <2>3. \A i \in ClientIDs : clients[i] # NoClient => clients[i] \in closer'.retire BY <2>2
  <2>4. sendQueue = {} /\ retryQueue = {} BY <2>1, Stages DEF SInv, CloserSafe
  <2>5. CloserSafe' BY <2>1, <2>2, <2>3, <2>4, Stages DEF CloserSafe
  <2> QED BY <2>1, <2>5, <1>ShutdownQuiet
<1>RetireNextSafe. ASSUME RetireNext PROVE SInv'
  <2> USE <1>RetireNextSafe
  <2> PICK g \in closer.retire :
             /\ client' = [client EXCEPT ![g].inactive = TRUE]
             /\ closer' = [closer EXCEPT !.pc = "close", !.event.client = g, !.retire = @ \ {g}]
    BY DEF RetireNext
  <2> DEFINE r == [client[g] EXCEPT !.inactive = TRUE]
  <2>1. /\ UNCHANGED <<sent, created, clients, store, lifecycle, caller, worker, closing, sendQueue, retryQueue>>
        /\ closing = Retiring /\ closer.pc = "idle"
    BY DEF RetireNext, background, calls, counters, queues
  <2>2. closer \in CloserType /\ CloserSafe /\ g \in Known /\ g \in Objs /\ g \in Client /\ client[g] \in ClientType
    BY AnObject DEF SInv, TInv, Closing, Identified
  <2>3. closer'.pc = "close" /\ closer'.event.client = g /\ closer'.retire = closer.retire \ {g}
    BY <2>2 DEF CloserType, Event
  <2>4. /\ r.mu = client[g].mu /\ r.inactive /\ r.connectionClosed = client[g].connectionClosed
        /\ ObjectGrows(g, r, Closer) /\ client' = [client EXCEPT ![g] = r]
    BY <2>2 DEF ClientType, ObjectGrows
  <2> HIDE DEF r
  <2>5. /\ Objs' = Objs /\ \A h \in Objs : ObjectKept(h, Closer) /\ (client'[h].mu # client[h].mu => h \in Known)
        /\ client'[g] = r /\ \A h \in Client : h # g => client'[h] = client[h]
    <3>1. client' = [client EXCEPT ![g] = r] /\ ObjectGrows(g, r, Closer) /\ g \in Known /\ g \in Client /\ UNCHANGED created
      BY <2>1, <2>2, <2>4
    <3>2. Objs' = Objs /\ \A h \in Objs : ObjectKept(h, Closer) BY <3>1, <1>ObjectsKept
    <3>3. \A h \in Objs : client'[h].mu # client[h].mu => h \in Known BY <3>1, <1>ObjectsKept
    <3>4. client'[g] = r /\ \A h \in Client : h # g => client'[h] = client[h] BY <3>1, ObjectChanged
    <3> QED BY <3>2, <3>3, <3>4
  <2>6. ObjSafe(g)'
    <3>1. ObjSafe(g) /\ g \in Objs' BY <2>2, <2>5 DEF SInv
    <3> QED BY <2>1, <2>4, <2>5, <3>1 DEF ObjSafe, MuFree, ObjectGrows
  <2>7. \A h \in Client : ObjSafe(h)' BY <2>1, <2>5, <2>6, <1>ObjectSame
  <2>8. ASSUME NEW i \in ClientIDs, clients'[i] # NoClient
        PROVE  \/ clients'[i] \in closer'.retire
               \/ closer'.pc = "close" /\ closer'.event.client = clients'[i]
               \/ client'[clients'[i]].connectionClosed
    <3>1. clients'[i] = clients[i] /\ clients[i] # NoClient BY <2>1, <2>8
    <3>2. clients[i] \in Objs BY <3>1, RegisteredObjs
    <3>3. clients[i] \in closer.retire \/ client[clients[i]].connectionClosed
      BY <2>1, <2>2, <3>1, Stages DEF CloserSafe
    <3> QED BY <2>3, <2>5, <3>1, <3>2, <3>3 DEF ObjectKept
  <2>9. CloserSafe' BY <2>1, <2>2, <2>3, <2>4, <2>5, <2>8, Stages DEF CloserSafe
  <2> QED BY <2>1, <2>5, <2>7, <2>9, <1>ShutdownSafe
<1>RetireCloseSafe. ASSUME RetireClose PROVE SInv'
  <2> USE <1>RetireCloseSafe
  <2> PICK g : g = closer.event.client OBVIOUS
  <2> DEFINE r == [client[g] EXCEPT !.connectionClosed = TRUE]
  <2>1. /\ UNCHANGED <<sent, created, clients, store, lifecycle, caller, worker, closing, sendQueue, retryQueue>>
        /\ closer.pc = "close" /\ MuFree(g) /\ client' = [client EXCEPT ![g] = r]
        /\ closer' = [closer EXCEPT !.pc = "idle", !.event = NoEvent]
    BY DEF RetireClose, background, calls, counters, queues
  <2>2. closer \in CloserType /\ CloserSafe /\ g \in Known /\ g \in Objs /\ g \in Client /\ client[g] \in ClientType
    BY <2>1, AnObject DEF SInv, TInv, Closing, Identified
  <2>3. closer'.pc = "idle" /\ closer'.retire = closer.retire /\ closing = Retiring /\ client[g].inactive
    BY <2>1, <2>2 DEF CloserType, CloserSafe
  <2>4. /\ r.mu = client[g].mu /\ r.inactive = client[g].inactive /\ r.connectionClosed
        /\ ObjectGrows(g, r, Closer)
    BY <2>2 DEF ClientType, ObjectGrows
  <2> HIDE DEF r
  <2>5. /\ Objs' = Objs /\ \A h \in Objs : ObjectKept(h, Closer) /\ (client'[h].mu # client[h].mu => h \in Known)
        /\ client'[g] = r /\ \A h \in Client : h # g => client'[h] = client[h]
    <3>1. client' = [client EXCEPT ![g] = r] /\ ObjectGrows(g, r, Closer) /\ g \in Known /\ g \in Client /\ UNCHANGED created
      BY <2>1, <2>2, <2>4
    <3>2. Objs' = Objs /\ \A h \in Objs : ObjectKept(h, Closer) BY <3>1, <1>ObjectsKept
    <3>3. \A h \in Objs : client'[h].mu # client[h].mu => h \in Known BY <3>1, <1>ObjectsKept
    <3>4. client'[g] = r /\ \A h \in Client : h # g => client'[h] = client[h] BY <3>1, ObjectChanged
    <3> QED BY <3>2, <3>3, <3>4
  <2>6. ObjSafe(g)'
    <3>1. ObjSafe(g) /\ g \in Objs' /\ sent'[g] = sent[g] BY <2>1, <2>2, <2>5 DEF SInv
    <3> QED BY <2>1, <2>3, <2>4, <2>5, <3>1 DEF ObjSafe, MuFree, ObjectGrows
  <2>7. \A h \in Client : ObjSafe(h)' BY <2>1, <2>5, <2>6, <1>ObjectSame
  <2>8. ASSUME NEW i \in ClientIDs, clients'[i] # NoClient
        PROVE  clients'[i] \in closer'.retire \/ client'[clients'[i]].connectionClosed
    <3>1. clients'[i] = clients[i] /\ clients[i] # NoClient BY <2>1, <2>8
    <3>2. clients[i] \in Objs BY <3>1, RegisteredObjs
    <3>3. clients[i] \in closer.retire \/ clients[i] = g \/ client[clients[i]].connectionClosed
      BY <2>2, <2>3, <3>1, Stages DEF CloserSafe
    <3> QED BY <2>3, <2>4, <2>5, <3>1, <3>2, <3>3 DEF ObjectKept
  <2>9. CloserSafe' BY <2>1, <2>2, <2>3, <2>8, Stages DEF CloserSafe
  <2> QED BY <2>1, <2>5, <2>7, <2>9, <1>ShutdownSafe
<1>FinishSafe. ASSUME FinishShutdown PROVE SInv'
  <2> USE <1>FinishSafe
  <2>1. /\ UNCHANGED <<client, sent, created, clients, store, lifecycle, caller, worker, closer, sendQueue, retryQueue>>
        /\ closing = Retiring /\ closing' = ShutdownDone /\ closer.pc = "idle" /\ closer.retire = {}
    BY DEF FinishShutdown, background, calls, counters, queues
  <2>2. CloserSafe' BY <2>1, Stages DEF SInv, CloserSafe
  <2> QED BY <2>1, <2>2, <1>ShutdownQuiet
<1>StartCallSafe.
  ASSUME NEW p \in Callers, StartCall(p)
  PROVE  SInv'
  <2> USE <1>StartCallSafe
  <2>1. p \in Actors /\ p \notin Client BY GoroutinesAssumption DEF Actors, Client
  <2>2. ASSUME NEW i \in ClientIDs, UnregisterCall(p, i) PROVE SInv'
    <3>1. Unregister(p, i) /\ caller[p].pc = "idle" BY <2>2 DEF UnregisterCall
    <3> QED BY <2>1, <3>1, <1>UnregisterSafe
  <2> QED BY <2>2, <1>RegisterSafe, <1>StartsSafe DEF StartCall
<1>ContinueCallSafe.
  ASSUME NEW p \in Actors, ContinueCall(p) \/ PushFails(p) \/ HandleFails(p)
  PROVE  SInv'
  BY <1>ContinueCallSafe, <1>SetInactiveSafe, <1>CloseConnectionSafe, <1>RemoveFromSendSafe, <1>RemoveFromRetrySafe, <1>InstallSafe, <1>PushCallSafe,
     <1>PushFailsSafe, <1>HandleEndsSafe, <1>CallSendSafe, <1>CallSentSafe, <1>ReplayLockedSafe, <1>ReplayNextSafe
  DEF ContinueCall
<1>WorkerStepSafe. ASSUME NEW w \in Workers, WorkerStep(w) PROVE SInv'
  <2> USE <1>WorkerStepSafe
  <2>1. CASE Pop(w) \/ PopClosed(w) \/ WaitForTurn(w) \/ Attempt(w) \/ AfterFailure(w) \/ RetryDue(w)
    BY <2>1, <1>QuietWorkers
  <2> QED BY <2>1, <1>SendBeginSafe, <1>SendEndSafe, <1>ExhaustSafe, <1>ScheduleSafe DEF WorkerStep
<1>ShutdownStepSafe. ASSUME ShutdownStep \/ CloseStep PROVE SInv'
  BY <1>ShutdownStepSafe, <1>CloseStepSafe, <1>DrainSafe, <1>FlushNextSafe, <1>FlushSendSafe, <1>FlushSentSafe, <1>RetireAllSafe, <1>RetireNextSafe,
     <1>RetireCloseSafe, <1>FinishSafe DEF ShutdownStep
<1> SUFFICES ASSUME [Next]_vars PROVE SInv' OBVIOUS
<1>1. CASE UNCHANGED vars BY <1>1, <1>RestSafe
<1>2. ASSUME NEW p \in Callers, StartCall(p) \/ TakeLock(p) \/ PushFails(p) \/ HandleFails(p) PROVE SInv'
  BY <1>2, <1>StartCallSafe, <1>ContinueCallSafe, <1>TakeLockSafe, <1>HandleClientSafe DEF Actors, TakeLock
<1>3. ASSUME NEW p \in Actors, ContinueCall(p) PROVE SInv' BY <1>3, <1>ContinueCallSafe
<1>4. ASSUME NEW g \in Client, Removal(g) PROVE SInv' BY <1>4, <1>RemovalSafe
<1>5. ASSUME NEW i \in ClientIDs, SetSubscribed(subs \cup {i}) \/ SetSubscribed(subs \ {i}) PROVE SInv'
  BY <1>5, <1>SubscribedSafe
<1>6. ASSUME NEW w \in Workers, WorkerStep(w) PROVE SInv' BY <1>6, <1>WorkerStepSafe
<1>7. CASE ShutdownStep \/ CloseStep BY <1>7, <1>ShutdownStepSafe
<1> QED BY <1>1, <1>2, <1>3, <1>4, <1>5, <1>6, <1>7, <1>SchedulerSafe DEF Next, Rest, Actors

LEMMA Safe == Spec => [](TInv /\ SInv)
  BY Shaped, SafeInit, SafeStep, PTL DEF Spec

-----------------------------------------------------------------------------
(* Connection.Send never runs on a connection the bus has closed (send,     *)
(* closeConnection, the retirement of replaced and removed clients and of   *)
(* those Close finds registered).                                           *)
THEOREM NothingSentAfterClose == Spec => []NoSendAfterClose
<1>1. TInv /\ SInv => NoSendAfterClose BY DEF SInv, ObjSafe, NoSendAfterClose
<1> QED BY <1>1, Safe, PTL

(* A client registered with CompleteAfterMessage receives at most one       *)
(* event, from workers, publishers, replays and the flush of Close together. *)
THEOREM CompletesOnce == Spec => []CompletesAfterOne
<1>1. ASSUME TInv, SInv PROVE CompletesAfterOne
  <2>1. ASSUME NEW g \in Client, client[g].complete PROVE Len(sent[g]) <= 1
    <3>1. CASE sent[g] = <<>> BY <3>1, SMT
    <3>2. CASE sent[g] # <<>>
      <4>1. Len(sent[g]) = 1 BY <1>1, <2>1, <3>2 DEF SInv, ObjSafe
      <4> QED BY <4>1, SMT
    <3> QED BY <3>1, <3>2
  <2> QED BY <2>1 DEF CompletesAfterOne
<1> QED BY <1>1, Safe, PTL

(* The history of an ID that is not registered is empty whenever nobody has *)
(* the ID's lifecycle lock: Unregister clears it under the lock, and        *)
(* publishers store only for a client they find registered under it.        *)
THEOREM HistoryGoesWithTheClient == Spec => []HistoryOnlyWhileRegistered
<1>1. ASSUME TInv, SInv PROVE HistoryOnlyWhileRegistered
  BY <1>1, Goroutines DEF SInv, IDSafe, HistoryOnlyWhileRegistered
<1> QED BY <1>1, Safe, PTL

(* When Close has returned the queues are empty and every client still      *)
(* registered is inactive with no send in progress.                         *)
THEOREM ShutdownLeavesNothing == Spec => []ShutdownClean
<1>1. ASSUME TInv, SInv, closing = ShutdownDone PROVE ShutdownClean
  <2>1. CloserSafe /\ closer.retire = {} /\ closer.pc = "idle" /\ sendQueue = {} /\ retryQueue = {}
    BY <1>1, Stages DEF SInv, CloserSafe
  <2>2. ASSUME NEW i \in ClientIDs, clients[i] # NoClient PROVE ~IsActive(clients[i]) /\ MuFree(clients[i])
    <3>1. client[clients[i]].connectionClosed /\ clients[i] \in Client
      BY <1>1, <2>1, <2>2, RegisteredObjs, Stages DEF CloserSafe
    <3> QED BY <1>1, <3>1 DEF SInv, ObjSafe, IsActive
  <2> QED BY <2>1, <2>2 DEF ShutdownClean
<1>2. TInv /\ SInv => ShutdownClean BY <1>1 DEF ShutdownClean
<1> QED BY <1>2, Safe, PTL

-----------------------------------------------------------------------------
(* The steps that change the map of the registered clients. *)
LEMMA MapSteps ==
  ASSUME [Next]_vars
  PROVE  \/ UNCHANGED clients
         \/ \E p \in Actors : Install(p) /\ ~ClosedMeanwhile
         \/ \E p \in Callers, i \in ClientIDs : UnregisterCall(p, i)
         \/ \E g \in Client : Removal(g) /\ clients[client[g].id] = g
<1> USE DEF registration
<1>1. CASE UNCHANGED vars BY <1>1 DEF vars
<1>2. ASSUME NEW p \in Callers, StartCall(p) \/ TakeLock(p) \/ PushFails(p) \/ HandleFails(p)
      PROVE  UNCHANGED clients \/ \E i \in ClientIDs : UnregisterCall(p, i)
  BY <1>2 DEF StartCall, Register, Disconnect, ReplayMissedEvents, Publish, TakeLock, DisconnectLocked,
     ReplayEnter, HandleClient, PushFails, HandleFails
<1>3. ASSUME NEW p \in Actors, ContinueCall(p) PROVE UNCHANGED clients \/ (Install(p) /\ ~ClosedMeanwhile)
  <2>1. Install(p) => UNCHANGED clients \/ ~ClosedMeanwhile BY DEF Install
  <2> QED BY <1>3, <2>1 DEF ContinueCall, SetInactive, CloseConnection, RemoveFromSend, RemoveFromRetry,
             PushCall, PushFails, SkipClient, HandleFails, CallSend, CallSent, ReplayLocked, ReplayNext
<1>4. ASSUME NEW g \in Client, Removal(g) PROVE UNCHANGED clients \/ clients[client[g].id] = g
  BY <1>4 DEF Removal, RemoveExhausted
<1>5. ASSUME NEW i \in ClientIDs, SetSubscribed(subs \cup {i}) \/ SetSubscribed(subs \ {i}) PROVE UNCHANGED clients
  BY <1>5 DEF SetSubscribed
<1>6. ASSUME NEW w \in Workers, WorkerStep(w) PROVE UNCHANGED clients
  BY <1>6 DEF WorkerStep, Pop, PopClosed, WaitForTurn, Attempt, SendBegin, SendEnd, AfterFailure, Exhaust,
     Schedule, RetryDue, others, calls
<1>7. SchedulerStep => UNCHANGED clients
  BY DEF SchedulerStep, PopDue, PushRetry, SchedulerReturns, others, calls
<1>8. ShutdownStep \/ CloseStep => UNCHANGED clients
  BY DEF ShutdownStep, CloseStep, Drain, FlushNext, FlushSend, FlushSent, RetireAll, RetireNext, RetireClose,
     FinishShutdown, background, calls
<1> QED BY <1>1, <1>2, <1>3, <1>4, <1>5, <1>6, <1>7, <1>8 DEF Next, Rest, Actors

(* A registered client leaves the map only when a registration replaces it, *)
(* when Unregister is called, or when its own attempts were exhausted       *)
(* (attempt, unregisterIfCurrent): the goroutine started for an older       *)
(* client of the ID does not remove the one that replaced it.               *)
THEOREM StaleWorkRemovesNobody == Spec => OnlyOwnFailureRemoves
<1>1. ASSUME TInv, SInv, [Next]_vars, NEW i \in ClientIDs, clients[i] # NoClient, clients'[i] # clients[i]
      PROVE  \/ clients'[i] > clients[i]
             \/ \E p \in Callers : caller[p].pc = "idle" /\ caller'[p].op = "unregister"
             \/ caller[clients[i]].pc = "spawned"
  <2> USE DEF TInv, Registered
  <2>1. ASSUME NEW p \in Actors, Install(p), ~ClosedMeanwhile PROVE clients'[i] > clients[i]
    <3> DEFINE c == caller[p]
    <3>1. c.pc = "install" /\ clients' = [clients EXCEPT ![c.id] = c.fresh] BY <2>1 DEF Install
    <3>2. CallerAt(c) /\ SafeAt(p, c) BY <1>1 DEF TInv, Calling, SInv
    <3>3. PreInstall(c) BY <3>1, <3>2 DEF CallerAt, PreInstall
    <3>4. i = c.id /\ clients'[i] = c.fresh BY <1>1, <3>1
    <3>5. clients[i] < c.fresh BY <3>2, <3>3, <3>4 DEF SafeAt
    <3> QED BY <3>4, <3>5
  <2>2. ASSUME NEW p \in Callers, NEW j \in ClientIDs, UnregisterCall(p, j)
        PROVE  \E q \in Callers : caller[q].pc = "idle" /\ caller'[q].op = "unregister"
    <3> DEFINE d == [Idle EXCEPT !.pc = "removeSend", !.op = "unregister", !.id = j, !.target = clients[j]]
    <3>1. caller[p].pc = "idle" /\ caller' = [caller EXCEPT ![p] = d]
      BY <2>2 DEF UnregisterCall, Unregister, Enter
    <3>2. d.op = "unregister" BY DEF Idle
    <3> HIDE DEF d
    <3>3. p \in Actors /\ caller'[p] = d BY <1>1, <3>1, Mine DEF Actors
    <3> QED BY <3>1, <3>2, <3>3
  <2>3. ASSUME NEW g \in Client, Removal(g), clients[client[g].id] = g PROVE caller[clients[i]].pc = "spawned"
    <3>1. caller[g].pc = "spawned" /\ clients' = [clients EXCEPT ![client[g].id] = NoClient]
      BY <2>3 DEF Removal, RemoveExhausted, Unregister
    <3>2. i = client[g].id BY <1>1, <3>1
    <3> QED BY <2>3, <3>1, <3>2
  <2> QED BY <1>1, <2>1, <2>2, <2>3, MapSteps
<1>2. TInv /\ SInv /\ [Next]_vars =>
        [\A i \in ClientIDs :
           (clients[i] # NoClient /\ clients'[i] # clients[i]) =>
              \/ clients'[i] > clients[i]
              \/ \E p \in Callers : caller[p].pc = "idle" /\ caller'[p].op = "unregister"
              \/ caller[clients[i]].pc = "spawned"]_vars
  BY <1>1
<1> QED BY <1>2, Safe, PTL DEF Spec, OnlyOwnFailureRemoves
=============================================================================
