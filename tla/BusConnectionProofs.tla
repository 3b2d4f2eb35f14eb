-------------------------- MODULE BusConnectionProofs -------------------------
(***************************************************************************)
(* The connections of the bus: none is leaked, and one that is registered  *)
(* again stays open.                                                       *)
(***************************************************************************)
EXTENDS BusProofs

(* A leaf is for Zenon unless it names another prover. *)
USE Zenon

(* A client object keeps its ID and its connection; what is closed or       *)
(* inactive stays so, and its generation does not go back.                  *)
Grown(r, s) ==
  /\ s.id = r.id /\ s.connection = r.connection
  /\ r.connectionClosed => s.connectionClosed
  /\ r.inactive => s.inactive
  /\ s.generation \in {r.generation, r.generation + 1}
Lasts(g) == Grown(client[g], client'[g])
Lasting == Objs \subseteq Objs' /\ \A g \in Objs : Lasts(g)

LEMMA LastingOne ==
  ASSUME TInv, NEW g \in Client, NEW r, client' = [client EXCEPT ![g] = r], UNCHANGED created,
         Grown(client[g], r)
  PROVE  Lasting
<1>1. client'[g] = r /\ \A h \in Client : h # g => client'[h] = client[h] BY ObjectChanged
<1>2. \A h \in Objs : client'[h] = client[h] \/ (h = g /\ client'[h] = r) BY <1>1, ObjsClients
<1>3. \A h : Grown(client[h], client[h]) BY DEF Grown
<1> QED BY <1>2, <1>3 DEF Lasting, Lasts, Objs

LEMMA LastingNone == ASSUME UNCHANGED <<client, created>> PROVE Lasting
  BY DEF Lasting, Lasts, Grown, Objs

LEMMA LastingSend ==
  ASSUME TInv, NEW e, NEW m, e.client \in Known, UNCHANGED created, BeginSend(e.client, m) \/ \E o : EndSend(e, o)
  PROVE  Lasting
<1> PICK g \in Client : g = e.client BY AnObject DEF TInv
<1>1. client[g] \in ClientType BY DEF TInv, Identified
<1>2. CASE BeginSend(g, m)
  <2> DEFINE r == [client[g] EXCEPT !.mu = m]
  <2>1. client' = [client EXCEPT ![g] = r] BY <1>2 DEF BeginSend
  <2>2. Grown(client[g], r)
    BY <1>1 DEF ClientType, Grown
  <2> HIDE DEF r
  <2> QED BY <2>1, <2>2, LastingOne
<1>3. ASSUME NEW o, EndSend(e, o) PROVE Lasting
  <2> DEFINE ends == EndsConnection(g, o)
             r == [client[g] EXCEPT !.mu = Nobody, !.inactive = @ \/ ends, !.connectionClosed = @ \/ ends]
  <2>1. client' = [client EXCEPT ![g] = r] BY <1>3 DEF EndSend
  <2>2. Grown(client[g], r)
    BY <1>1 DEF ClientType, Grown
  <2> HIDE DEF r
  <2> QED BY <2>1, <2>2, LastingOne
<1> QED BY <1>2, <1>3

(* The actions that write to a client object. *)
LEMMA LastingCalls ==
  ASSUME TInv, SInv, NEW p \in Actors,
         SetInactive(p) \/ CloseConnection(p) \/ Install(p) \/ ReplayLocked(p) \/ CallSend(p) \/ \E o : CallSent(p, o)
  PROVE  Lasting /\ Objs' = Objs
<1> DEFINE c == caller[p]
<1>1. UNCHANGED created
  BY DEF SetInactive, CloseConnection, Install, ReplayLocked, CallSend, CallSent, counters
<1>2. Objs' = Objs BY <1>1 DEF Objs
<1>3. ASSUME NEW g \in Client PROVE client[g] \in ClientType BY <1>3 DEF TInv, Identified
<1>4. CASE SetInactive(p)
  <2> DEFINE g == c.target
             r == [client[g] EXCEPT !.inactive = TRUE]
  <2>1. g \in Client /\ client' = [client EXCEPT ![g] = r] BY <1>4, Referred DEF SetInactive
  <2>2. Grown(client[g], r)
    BY <1>3, <2>1, SMT DEF ClientType, Grown
  <2> HIDE DEF r
  <2> QED BY <1>1, <1>2, <2>1, <2>2, LastingOne
<1>5. CASE CloseConnection(p)
  <2> DEFINE g == c.target
             r == [client[g] EXCEPT !.connectionClosed = @ \/ ~KeepsConnection(c)]
  <2>1. g \in Client /\ client' = [client EXCEPT ![g] = r] BY <1>5, Referred DEF CloseConnection
  <2>2. Grown(client[g], r)
    <3>1. client[g] \in ClientType BY <1>3, <2>1
    <3> QED BY <3>1 DEF ClientType, Grown
  <2> HIDE DEF r
  <2> QED BY <1>1, <1>2, <2>1, <2>2, LastingOne
<1>6. CASE Install(p)
  <2> DEFINE g == c.fresh
             r == [client[g] EXCEPT !.inactive = TRUE, !.connectionClosed = TRUE]
  <2>1. PreInstall(c) BY <1>6 DEF Install, PreInstall, TInv, Calling, CallerAt
  <2>2. g \in Client /\ (client' = [client EXCEPT ![g] = r] \/ UNCHANGED client)
    BY <1>6, <2>1, Referred DEF Install
  <2>3. Grown(client[g], r)
    <3>1. client[g] \in ClientType BY <1>3, <2>2
    <3> QED BY <3>1 DEF ClientType, Grown
  <2> HIDE DEF r
  <2> QED BY <1>1, <1>2, <2>2, <2>3, LastingOne, LastingNone
<1>7. CASE ReplayLocked(p)
  <2> DEFINE g == c.fresh
             r == [client[g] EXCEPT !.generation = NextGeneration(@)]
  <2>1. g \in Client /\ (client' = [client EXCEPT ![g] = r] \/ UNCHANGED client)
    BY <1>7, Referred DEF ReplayLocked
  <2>2. Grown(client[g], r)
    <3>1. client[g] \in ClientType BY <1>3, <2>1
    <3> QED BY <3>1 DEF ClientType, Grown, NextGeneration
  <2> HIDE DEF r
  <2> QED BY <1>1, <1>2, <2>1, <2>2, LastingOne, LastingNone
<1>8. CASE CallSend(p)
  <2>1. c.event.client = c.target /\ c.target \in Known
    BY <1>8, Referred DEF CallSend, TInv, Calling, CallerAt
  <2>2. BeginSend(c.event.client, p) \/ UNCHANGED client BY <1>8, <2>1 DEF CallSend
  <2> QED BY <1>1, <1>2, <2>1, <2>2, LastingSend, LastingNone
<1>9. ASSUME NEW o, CallSent(p, o) PROVE Lasting /\ Objs' = Objs
  <2>1. c.event.client = c.target /\ c.target \in Known
    BY <1>9, Referred DEF CallSent, TInv, Calling, CallerAt
  <2>2. EndSend(c.event, o) BY <1>9 DEF CallSent
  <2> QED BY <1>1, <1>2, <2>1, <2>2, LastingSend
<1> QED BY <1>4, <1>5, <1>6, <1>7, <1>8, <1>9

LEMMA LastingWorkers == ASSUME TInv, NEW w \in Workers, WorkerStep(w) PROVE Lasting /\ Objs' = Objs
<1> PICK e : e = worker[w].event OBVIOUS
<1>1. UNCHANGED created
  BY DEF WorkerStep, Pop, PopClosed, WaitForTurn, Attempt, SendBegin, SendEnd, AfterFailure, Exhaust,
     Schedule, RetryDue, others, calls, counters
<1>2. Objs' = Objs BY <1>1 DEF Objs
<1>3. CASE UNCHANGED client BY <1>1, <1>2, <1>3, LastingNone
<1>4. CASE SendBegin(w)
  <2>1. e.client \in Known BY <1>4 DEF SendBegin, TInv, Working, WorkerAt, Made
  <2>2. BeginSend(e.client, w) \/ UNCHANGED client BY <1>4 DEF SendBegin
  <2> QED BY <1>1, <1>2, <1>3, <2>1, <2>2, LastingSend
<1>5. ASSUME NEW o, SendEnd(w, o) PROVE Lasting /\ Objs' = Objs
  <2>1. e.client \in Known BY <1>5 DEF SendEnd, TInv, Working, WorkerAt, Made
  <2>2. EndSend(e, o) BY <1>5 DEF SendEnd
  <2> QED BY <1>1, <1>2, <2>1, <2>2, LastingSend
<1>6. CASE Exhaust(w)
  <2> DEFINE g == e.client
             r == [client[g] EXCEPT !.inactive = TRUE]
  <2>1. g \in Client /\ (client' = [client EXCEPT ![g] = r] \/ UNCHANGED client)
    BY <1>6, AnObject DEF Exhaust, TInv, Working, WorkerAt, Made
  <2>2. client[g] \in ClientType BY <2>1 DEF TInv, Identified
  <2>3. Grown(client[g], r)
    BY <2>2 DEF ClientType, Grown
  <2> HIDE DEF r
  <2> QED BY <1>1, <1>2, <1>3, <2>1, <2>3, LastingOne
<1>7. CASE Pop(w) \/ PopClosed(w) \/ WaitForTurn(w) \/ Attempt(w) \/ AfterFailure(w) \/ Schedule(w) \/ RetryDue(w)
  BY <1>3, <1>7 DEF Pop, PopClosed, WaitForTurn, Attempt, AfterFailure, Schedule, RetryDue
<1> QED BY <1>4, <1>5, <1>6, <1>7 DEF WorkerStep

LEMMA LastingShutdown == ASSUME TInv, ShutdownStep \/ CloseStep PROVE Lasting /\ Objs' = Objs
<1> PICK e : e = closer.event OBVIOUS
<1>1. UNCHANGED created
  BY DEF ShutdownStep, CloseStep, Drain, FlushNext, FlushSend, FlushSent, RetireAll, RetireNext, RetireClose,
     FinishShutdown, background, calls, counters
<1>2. Objs' = Objs BY <1>1 DEF Objs
<1>3. CASE UNCHANGED client BY <1>1, <1>2, <1>3, LastingNone
<1>4. CASE FlushSend
  <2>1. e.client \in Known BY <1>4 DEF FlushSend, TInv, Closing, Made
  <2>2. BeginSend(e.client, Closer) \/ UNCHANGED client BY <1>4 DEF FlushSend
  <2> QED BY <1>1, <1>2, <1>3, <2>1, <2>2, LastingSend
<1>5. ASSUME NEW o, FlushSent(o) PROVE Lasting /\ Objs' = Objs
  <2>1. e.client \in Known BY <1>5 DEF FlushSent, TInv, Closing, Made
  <2>2. EndSend(e, o) BY <1>5 DEF FlushSent
  <2> QED BY <1>1, <1>2, <2>1, <2>2, LastingSend
<1>6. CASE RetireNext
  <2> PICK g \in closer.retire : client' = [client EXCEPT ![g].inactive = TRUE] BY <1>6 DEF RetireNext
  <2> DEFINE r == [client[g] EXCEPT !.inactive = TRUE]
  <2>1. g \in Client /\ client' = [client EXCEPT ![g] = r] BY AnObject DEF TInv, Closing
  <2>2. client[g] \in ClientType BY <2>1 DEF TInv, Identified
  <2>3. Grown(client[g], r)
    BY <2>2 DEF ClientType, Grown
  <2> HIDE DEF r
  <2> QED BY <1>1, <1>2, <2>1, <2>3, LastingOne
<1>7. CASE RetireClose
  <2> DEFINE g == e.client
             r == [client[g] EXCEPT !.connectionClosed = TRUE]
  <2>1. g \in Client /\ client' = [client EXCEPT ![g] = r] BY <1>7, AnObject DEF RetireClose, TInv, Closing
  <2>2. client[g] \in ClientType BY <2>1 DEF TInv, Identified
  <2>3. Grown(client[g], r)
    BY <2>2 DEF ClientType, Grown
  <2> HIDE DEF r
  <2> QED BY <1>1, <1>2, <2>1, <2>3, LastingOne
<1>8. CASE CloseStep \/ Drain \/ FlushNext \/ RetireAll \/ FinishShutdown
  BY <1>3, <1>8 DEF CloseStep, Drain, FlushNext, RetireAll, FinishShutdown
<1> QED BY <1>4, <1>5, <1>6, <1>7, <1>8 DEF ShutdownStep

-----------------------------------------------------------------------------
(* Why the connection of a client object is not leaked, and the clients     *)
(* that answer for it.                                                      *)
Deals(c, g) ==
  /\ c.op \in {"register", "disconnect", "unregister"} /\ c.pc \notin {"disconnect", "spawned"}
  /\ g \in {c.target, c.fresh}
Accounted(g) ==
  \/ client[g].connectionClosed
  \/ \E p \in Actors : Deals(caller[p], g)
  \/ clients[client[g].id] = g /\ closing < ShutdownDone
Secured(g) == \E h \in Objs : client[h].connection = client[g].connection /\ Accounted(h)
LInv == \A g \in Objs : Secured(g)

LEMMA LeakInvariant == TInv /\ SInv /\ LInv /\ [Next]_vars => LInv'
<1> SUFFICES ASSUME TInv, SInv, LInv PROVE [Next]_vars => LInv' OBVIOUS
<1>LeakStep.
  ASSUME Lasting, \A h \in Objs : Accounted(h) => Secured(h)', \A g \in Objs' : g \in Objs \/ Secured(g)'
  PROVE  LInv'
  <2> USE <1>LeakStep
  <2>1. ASSUME NEW g \in Objs PROVE Secured(g)'
    <3>1. PICK h \in Objs : client[h].connection = client[g].connection /\ Accounted(h) BY DEF LInv, Secured
    <3>2. Secured(h)' BY <3>1
    <3>3. PICK k \in Objs' : client'[k].connection = client'[h].connection /\ Accounted(k)' BY <3>2 DEF Secured
    <3>4. client'[h].connection = client'[g].connection BY <3>1 DEF Lasting, Lasts, Grown
    <3> QED BY <3>3, <3>4 DEF Secured
  <2> QED BY <2>1 DEF LInv
(* Goroutine m moves, and the registered clients stay. *)
<1>LeakKept.
  ASSUME Lasting, Objs' = Objs, NEW m, \A q \in Actors : q # m => caller'[q] = caller[q], UNCHANGED clients,
         closing < ShutdownDone => closing' < ShutdownDone,
         m \in Actors => \A h \in Objs : Deals(caller[m], h) => Deals(caller'[m], h) \/ Secured(h)'
  PROVE  LInv'
  <2> USE <1>LeakKept
  <2>1. ASSUME NEW h \in Objs, Accounted(h) PROVE Secured(h)'
    <3>1. CASE client[h].connectionClosed BY <3>1 DEF Secured, Accounted, Lasting, Lasts, Grown
    <3>2. CASE clients[client[h].id] = h /\ closing < ShutdownDone
      BY <3>2, ZenonT(40) DEF Secured, Accounted, Lasting, Lasts, Grown
    <3>3. ASSUME NEW q \in Actors, Deals(caller[q], h) PROVE Secured(h)'
      <4>1. CASE Deals(caller'[q], h)
        <5>1. Accounted(h)' BY <4>1 DEF Accounted, Deals
        <5> QED BY <5>1 DEF Secured
      <4>2. CASE ~Deals(caller'[q], h)
        <5>1. q = m BY <3>3, <4>2
        <5> QED BY <3>3, <4>2, <5>1
      <4> QED BY <4>1, <4>2
    <3> QED BY <2>1, <3>1, <3>2, <3>3 DEF Accounted
  <2> QED BY <2>1, <1>LeakStep
(* A call comes to place d and goes on dealing with the same clients. *)
<1>LeakGoesOn.
  ASSUME Lasting, Objs' = Objs, NEW p \in Actors, NEW d, caller' = [caller EXCEPT ![p] = d],
         UNCHANGED <<clients, closing>>,
         \A h \in Objs : Deals(caller[p], h) => Deals(d, h) \/ Secured(h)'
  PROVE  LInv'
  <2> USE <1>LeakGoesOn
  <2>1. caller'[p] = d /\ \A q \in Actors : q # p => caller'[q] = caller[q] BY Mine
  <2>2. \A h \in Objs : Deals(caller[p], h) => Deals(caller'[p], h) \/ Secured(h)' BY <2>1
  <2> QED BY <2>1, <2>2, <1>LeakKept
(* A registration that comes to its end leaves its client registered. *)
<1>InstalledSecured.
  ASSUME NEW p \in Actors, caller[p].pc \in {"replay", "backlog", "push", "send", "sending"},
         NEW h \in Objs, Deals(caller[p], h), Lasting, Objs' = Objs, UNCHANGED <<clients, closing>>
  PROVE  Secured(h)'
  <2> USE <1>InstalledSecured
  <2> DEFINE c == caller[p]
             i == c.id
  <2> PICK g : g = c.fresh OBVIOUS
  <2>1. CallerAt(c) /\ SafeAt(p, c) BY DEF TInv, Calling, SInv
  <2>2. c.op = "register" /\ PastInstall(c) BY <2>1 DEF Deals, CallerAt, PastInstall, PreInstall
  <2>3. clients[i] = g /\ (c.pc # "replay" => c.target = g) /\ i \in ClientIDs
    BY <2>1, <2>2 DEF SafeAt, CallerAt
  <2>4. g \in Objs /\ g # NoClient
    <3>1. g \in Known BY <2>1, <2>3 DEF CallerAt
    <3> QED BY <3>1, AnObject DEF TInv
  <2>5. client[g].id = i BY <2>3, <2>4 DEF SInv, IDSafe
  <2>6. Accounted(g)'
    <3>1. CASE closing < ShutdownDone BY <2>3, <2>4, <2>5, <3>1 DEF Accounted, Lasting, Lasts, Grown
    <3>2. CASE ~(closing < ShutdownDone)
      <4>1. closing = ShutdownDone BY <3>2, SMT DEF TInv, Fixed, Open, ShutdownDone
      <4>2. client[g].connectionClosed BY <2>3, <2>4, <4>1, Stages DEF SInv, CloserSafe
      <4> QED BY <2>4, <4>2 DEF Accounted, Lasting, Lasts, Grown
    <3> QED BY <3>1, <3>2
  <2>7. CASE h = g BY <2>4, <2>6, <2>7 DEF Secured
  <2>8. CASE h # g
    <3>1. h = c.target /\ c.pc = "replay" BY <2>3, <2>8 DEF Deals
    <3>2. h # NoClient BY ObjsClients, SMT DEF Client, NoClient
    <3>3. client[h].connectionClosed \/ client[h].connection = client[g].connection
      BY <2>1, <2>2, <3>1, <3>2 DEF SafeAt
    <3>4. CASE client[h].connectionClosed BY <3>4 DEF Secured, Accounted, Lasting, Lasts, Grown
    <3>5. CASE client[h].connection = client[g].connection
      <4>1. client'[g].connection = client'[h].connection BY <2>4, <3>5 DEF Lasting, Lasts, Grown
      <4> QED BY <2>4, <2>6, <4>1 DEF Secured
    <3> QED BY <3>3, <3>4, <3>5
  <2> QED BY <2>7, <2>8
<1>ClosedSecured.
  ASSUME NEW h \in Objs, client'[h].connectionClosed, Objs' = Objs
  PROVE  Secured(h)'
  BY <1>ClosedSecured DEF Secured, Accounted
(* The call keeps its kind and its clients. *)
<1>LeakSame.
  ASSUME Lasting, Objs' = Objs, NEW p \in Actors, NEW d, caller' = [caller EXCEPT ![p] = d],
         UNCHANGED <<clients, closing>>, d.op = caller[p].op, d.target = caller[p].target, d.fresh = caller[p].fresh,
         d.pc \notin {"disconnect", "spawned"}
  PROVE  LInv'
  <2> USE <1>LeakSame
  <2>1. \A h \in Objs : Deals(caller[p], h) => Deals(d, h) BY DEF Deals
  <2> QED BY <2>1, <1>LeakGoesOn
(* The call is not one that deals with clients. *)
<1>LeakNone.
  ASSUME Lasting, Objs' = Objs, NEW p \in Actors, \A q \in Actors : q # p => caller'[q] = caller[q],
         UNCHANGED <<clients, closing>>,
         caller[p].op \notin {"register", "disconnect", "unregister"} \/ caller[p].pc \in {"disconnect", "spawned"}
  PROVE  LInv'
  <2> USE <1>LeakNone
  <2>1. \A h \in Objs : ~Deals(caller[p], h) BY DEF Deals
  <2> QED BY <2>1, <1>LeakKept
<1>CloseConnectionLeak. ASSUME NEW p \in Actors, CloseConnection(p) PROVE LInv'
  <2> USE <1>CloseConnectionLeak
  <2> DEFINE c == caller[p]
  <2> PICK g : g = c.target OBVIOUS
  <2>1. IsCaller(c) /\ CallerAt(c) /\ SafeAt(p, c) /\ c.pc = "close" /\ g \in Objs /\ g \in Client
    BY Referred DEF CloseConnection, TInv, Calling, SInv
  <2>2. Lasting /\ Objs' = Objs /\ UNCHANGED <<clients, closing>>
    BY LastingCalls DEF CloseConnection, registration, delivery
  <2>3. CASE c.op = "unregister"
    <3> DEFINE r == [client[g] EXCEPT !.connectionClosed = @ \/ ~KeepsConnection(c)]
    <3>1. caller' = [caller EXCEPT ![p] = Idle] /\ client' = [client EXCEPT ![g] = r]
      BY <2>3 DEF CloseConnection, GotoOrReturn, Return
    <3>2. r.connectionClosed
      <4>1. client[g] \in ClientType /\ ~KeepsConnection(c) BY <2>1, <2>3 DEF KeepsConnection, TInv, Identified
      <4> QED BY <4>1 DEF ClientType
    <3> HIDE DEF r
    <3>3. client'[g].connectionClosed BY <2>1, <3>1, <3>2, ObjectChanged
    <3>4. \A h \in Objs : Deals(c, h) => h = g
      <4>1. c.fresh = NoClient /\ NoClient \notin Objs BY <2>1, <2>3, SafeAway, NoObject
      <4> QED BY <4>1 DEF Deals
    <3>5. Secured(g)' BY <2>1, <2>2, <3>3, <1>ClosedSecured
    <3>6. \A h \in Objs : Deals(c, h) => Secured(h)' BY <3>4, <3>5
    <3> QED BY <2>2, <3>1, <3>6, <1>LeakGoesOn
  <2>4. CASE c.op # "unregister"
    <3> DEFINE d == [c EXCEPT !.pc = "removeSend"]
    <3>1. caller' = [caller EXCEPT ![p] = d] BY <2>4 DEF CloseConnection, GotoOrReturn, Goto
    <3>2. d.pc = "removeSend" /\ d.op = c.op /\ d.target = c.target /\ d.fresh = c.fresh BY <2>1 DEF IsCaller
    <3> HIDE DEF d
    <3> QED BY <2>2, <3>1, <3>2, <1>LeakSame
  <2> QED BY <2>3, <2>4
<1>RemoveLeak.
  ASSUME NEW p \in Actors, SetInactive(p) \/ RemoveFromSend(p) \/ RemoveFromRetry(p)
  PROVE  LInv'
  <2> USE <1>RemoveLeak
  <2> DEFINE c == caller[p]
  <2>1. /\ IsCaller(c) /\ CallerAt(c) /\ SafeAt(p, c) /\ c.target \in Objs /\ c.target # NoClient
        /\ c.pc \in {"retire", "removeSend", "removeRetry"}
    BY Referred, AnObject DEF SetInactive, RemoveFromSend, RemoveFromRetry, TInv, Calling, SInv
  <2>2. Lasting /\ Objs' = Objs /\ UNCHANGED <<clients, closing>>
    <3>1. SetInactive(p) \/ UNCHANGED <<client, created>>
      BY DEF RemoveFromSend, RemoveFromRetry, counters
    <3>2. UNCHANGED created BY DEF SetInactive, RemoveFromSend, RemoveFromRetry, counters
    <3>3. Lasting /\ Objs' = Objs BY <3>1, <3>2, LastingCalls, LastingNone DEF Objs
    <3> QED BY <3>3 DEF SetInactive, RemoveFromSend, RemoveFromRetry, registration, delivery
  <2>3. ASSUME NEW pc, pc \notin {"disconnect", "spawned"}, caller' = [caller EXCEPT ![p].pc = pc]
        PROVE  LInv'
    <3> DEFINE d == [c EXCEPT !.pc = pc]
    <3>1. caller' = [caller EXCEPT ![p] = d] BY <2>3
    <3>2. d.pc = pc /\ d.op = c.op /\ d.target = c.target /\ d.fresh = c.fresh BY <2>1 DEF IsCaller
    <3> HIDE DEF d
    <3> QED BY <2>2, <2>3, <3>1, <3>2, <1>LeakSame
  <2>4. CASE SetInactive(p)
    <3> PICK pc : pc = "close" OBVIOUS
    <3>1. caller' = [caller EXCEPT ![p].pc = pc] /\ pc \notin {"disconnect", "spawned"}
      BY <2>4 DEF SetInactive, Goto
    <3> QED BY <2>3, <3>1
  <2>5. CASE RemoveFromSend(p)
    <3> PICK pc : pc = "removeRetry" OBVIOUS
    <3>1. caller' = [caller EXCEPT ![p].pc = pc] /\ pc \notin {"disconnect", "spawned"}
      BY <2>5 DEF RemoveFromSend, Goto
    <3> QED BY <2>3, <3>1
  <2>6. CASE RemoveFromRetry(p)
    <3> DEFINE place == AfterRemove(c)
    <3>1. place \in {"idle", "retire", "backlog", "install"} /\ (place = "idle" => c.op = "disconnect")
      BY DEF AfterRemove
    <3>2. CASE place = "idle"
      <4>1. caller' = [caller EXCEPT ![p] = Idle] BY <2>6, <3>2 DEF RemoveFromRetry, GotoOrReturn, Return
      <4>2. c.op = "disconnect" /\ c.pc = "removeRetry" BY <2>6, <3>1, <3>2 DEF RemoveFromRetry
      <4>3. client[c.target].connectionClosed BY <2>1, <4>2 DEF SafeAt
      <4>4. \A h \in Objs : Deals(c, h) => h = c.target
        <5>1. c.fresh = NoClient /\ NoClient \notin Objs BY <2>1, <4>2, SafeAway, NoObject
        <5> QED BY <5>1 DEF Deals
      <4>5. \A h \in Objs : Deals(c, h) => client'[h].connectionClosed BY <2>2, <4>3, <4>4 DEF Lasting, Lasts, Grown
      <4>6. \A h \in Objs : Deals(c, h) => Secured(h)' BY <2>2, <4>5, <1>ClosedSecured
      <4> QED BY <2>2, <4>1, <4>6, <1>LeakGoesOn
    <3>3. CASE place = "backlog"
      <4> DEFINE d == [c EXCEPT !.pc = "backlog", !.backlog = EventsSince(store[c.id], c.cursor)]
      <4>1. caller' = [caller EXCEPT ![p] = d] BY <2>6, <3>3 DEF RemoveFromRetry
      <4>2. d.pc = "backlog" /\ d.op = c.op /\ d.target = c.target /\ d.fresh = c.fresh BY <2>1 DEF IsCaller
      <4> HIDE DEF d
      <4> QED BY <2>2, <4>1, <4>2, <1>LeakSame
    <3>4. CASE place \in {"retire", "install"}
      <4>1. caller' = [caller EXCEPT ![p].pc = place] BY <2>6, <3>4 DEF RemoveFromRetry, GotoOrReturn, Goto
      <4> QED BY <2>3, <3>4, <4>1
    <3> QED BY <3>1, <3>2, <3>3, <3>4
  <2> QED BY <2>4, <2>5, <2>6
(* Installing: the new client answers for the connection of the old one, or *)
(* that one was closed.                                                     *)
<1>InstallLeak. ASSUME NEW p \in Actors, Install(p) PROVE LInv'
  <2> USE <1>InstallLeak
  <2> DEFINE c == caller[p]
  <2> PICK g : g = c.fresh OBVIOUS
  <2> PICK i : i = c.id OBVIOUS
  <2>1. IsCaller(c) /\ CallerAt(c) /\ SafeAt(p, c) /\ c.pc = "install" BY DEF Install, TInv, Calling, SInv
  <2>2. c.op = "register" /\ PreInstall(c) BY <2>1 DEF CallerAt, PreInstall
  <2>3. g \in Objs /\ g \in Client /\ client[g].id = i /\ c.target = clients[i] /\ i \in ClientIDs
    BY <2>1, <2>2, Referred DEF SafeAt
  <2>4. Lasting /\ Objs' = Objs /\ UNCHANGED closing BY LastingCalls DEF Install, delivery
  <2>5. Accounted(g)'
    <3>1. CASE ClosedMeanwhile
      <4> DEFINE r == [client[g] EXCEPT !.inactive = TRUE, !.connectionClosed = TRUE]
      <4>1. client' = [client EXCEPT ![g] = r] BY <3>1 DEF Install
      <4>2. r.connectionClosed
        <5>1. client[g] \in ClientType BY <2>3 DEF TInv, Identified
        <5> QED BY <5>1 DEF ClientType
      <4> HIDE DEF r
      <4>3. client'[g].connectionClosed BY <2>3, <4>1, <4>2, ObjectChanged
      <4> QED BY <4>3 DEF Accounted
    <3>2. CASE ~ClosedMeanwhile
      <4>1. closing' < ShutdownDone BY <2>4, <3>2, SMT DEF ClosedMeanwhile, BusClosed, ShutdownDone, TInv, Fixed, Open
      <4>2. clients'[i] = g BY <2>3, <3>2 DEF Install, TInv, Registered
      <4>3. client'[g].id = i BY <2>3, <2>4 DEF Lasting, Lasts, Grown
      <4> QED BY <4>1, <4>2, <4>3 DEF Accounted
    <3> QED BY <3>1, <3>2
  <2>6. Secured(g)' BY <2>3, <2>4, <2>5 DEF Secured
  <2>7. ASSUME NEW h \in Objs, h = c.target PROVE Secured(h)'
    <3>1. h # NoClient BY <2>7, ObjsClients, SMT DEF Client, NoClient
    <3>2. client[h].connectionClosed \/ client[h].connection = client[g].connection
      BY <2>1, <2>2, <2>7, <3>1 DEF SafeAt
    <3>3. CASE client[h].connectionClosed
      <4>1. client'[h].connectionClosed BY <2>4, <3>3 DEF Lasting, Lasts, Grown
      <4> QED BY <2>4, <4>1, <1>ClosedSecured
    <3>4. CASE client[h].connection = client[g].connection
      <4>1. client'[g].connection = client'[h].connection BY <2>3, <2>4, <3>4 DEF Lasting, Lasts, Grown
      <4> QED BY <2>3, <2>4, <2>5, <4>1 DEF Secured
    <3> QED BY <3>2, <3>3, <3>4
  <2>8. \A j \in ClientIDs : j # i => clients'[j] = clients[j] BY DEF Install, TInv, Registered
  <2>9. \A q \in Actors : q # p => caller'[q] = caller[q]
    BY DEF Install, GotoOrReturn, Return, Goto, TInv, Calling
  <2>10. ASSUME NEW h \in Objs, Accounted(h) PROVE Secured(h)'
    <3>1. CASE client[h].connectionClosed
      <4>1. client'[h].connectionClosed BY <2>4, <3>1 DEF Lasting, Lasts, Grown
      <4> QED BY <2>4, <4>1, <1>ClosedSecured
    <3>2. CASE clients[client[h].id] = h /\ closing < ShutdownDone
      <4>1. client'[h].id = client[h].id /\ client[h].id \in ClientIDs
        BY <2>4 DEF Lasting, Lasts, Grown, TInv, Identified
      <4>2. CASE client[h].id = i BY <2>3, <2>7, <3>2, <4>2
      <4>3. CASE client[h].id # i
        <5>1. clients'[client'[h].id] = h /\ closing' < ShutdownDone BY <2>4, <2>8, <3>2, <4>1, <4>3
        <5> QED BY <2>4, <5>1 DEF Secured, Accounted
      <4> QED BY <4>2, <4>3
    <3>3. ASSUME NEW q \in Actors, Deals(caller[q], h) PROVE Secured(h)'
      <4>1. CASE q = p BY <2>6, <2>7, <3>3, <4>1 DEF Deals
      <4>2. CASE q # p
        <5>1. Accounted(h)' BY <2>9, <3>3, <4>2 DEF Accounted, Deals
        <5> QED BY <2>4, <5>1 DEF Secured
      <4> QED BY <4>1, <4>2
    <3> QED BY <2>10, <3>1, <3>2, <3>3 DEF Accounted
  <2> QED BY <2>4, <2>10, <1>LeakStep
<1>RegisterLeak.
  ASSUME NEW p \in Callers, NEW i \in ClientIDs, NEW complete, NEW replay, NEW cursor,
         NEW connection, Register(p, i, complete, replay, cursor, connection)
  PROVE  LInv'
  <2> USE <1>RegisterLeak
  <2> PICK g : g = created + 1 OBVIOUS
  <2> DEFINE d == [Idle EXCEPT !.pc = IF clients[i] = NoClient THEN "install" ELSE "retire",
                               !.op = "register", !.id = i, !.target = clients[i],
                               !.fresh = g, !.replay = replay, !.cursor = cursor]
  <2>1. /\ caller[p].pc = "idle" /\ caller' = [caller EXCEPT ![p] = d] /\ UNCHANGED <<clients, closing>>
        /\ created' = g /\ client' = [client EXCEPT ![g] = NewClient(i, complete, connection)]
    BY DEF Register, Enter, registration, delivery
  <2>2. d.op = "register" /\ d.pc \in {"install", "retire"} /\ d.fresh = g BY DEF Idle
  <2> HIDE DEF d
  <2>3. p \in Actors /\ caller'[p] = d /\ \A q \in Actors : q # p => caller'[q] = caller[q]
    BY <2>1, Mine DEF Actors
  <2>4. Objs' = Objs \cup {g} /\ Objs \subseteq Objs' /\ g \notin Objs BY <2>1, SMT DEF Objs, TInv, Fixed
  <2>5. \A h \in Objs : client'[h] = client[h]
    <3>1. \A h \in Objs : h \in Client /\ h # g BY <2>4, ObjsClients
    <3> QED BY <2>1, <3>1 DEF TInv, Identified
  <2>6. Lasting BY <2>4, <2>5 DEF Lasting, Lasts, Grown
  <2>7. Secured(g)'
    <3>1. Accounted(g)' BY <2>2, <2>3 DEF Accounted, Deals
    <3> QED BY <2>4, <3>1 DEF Secured
  <2>8. \A h \in Objs : ~Deals(caller[p], h) BY <2>1, <2>3 DEF Deals, TInv, Calling, CallerAt
  <2>9. ASSUME NEW h \in Objs, Accounted(h) PROVE Secured(h)'
    <3>1. Accounted(h)'
      <4>1. CASE client[h].connectionClosed BY <2>5, <4>1 DEF Accounted
      <4>2. CASE clients[client[h].id] = h /\ closing < ShutdownDone BY <2>1, <2>5, <4>2 DEF Accounted
      <4>3. ASSUME NEW q \in Actors, Deals(caller[q], h) PROVE Accounted(h)'
        <5>1. q # p BY <2>8, <4>3
        <5> QED BY <2>3, <4>3, <5>1 DEF Accounted, Deals
      <4> QED BY <2>9, <4>1, <4>2, <4>3 DEF Accounted
    <3> QED BY <2>4, <3>1 DEF Secured
  <2> QED BY <2>4, <2>6, <2>7, <2>9, <1>LeakStep
(* Unregistering: the client leaves the map with a call that closes it. *)
<1>UnregisterLeak.
  ASSUME NEW p \in Actors, NEW i \in ClientIDs, Unregister(p, i),
         caller[p].pc \in {"idle", "spawned"}
  PROVE  LInv'
  <2> USE <1>UnregisterLeak
  <2> PICK g : g = clients[i] OBVIOUS
  <2> DEFINE d == [Idle EXCEPT !.pc = "removeSend", !.op = "unregister", !.id = i, !.target = g]
  <2>1. /\ caller' = [caller EXCEPT ![p] = d] /\ clients' = [clients EXCEPT ![i] = NoClient]
        /\ UNCHANGED <<client, created, closing>>
    BY DEF Unregister, Enter, delivery, counters
  <2>2. d.op = "unregister" /\ d.pc = "removeSend" /\ d.target = g BY DEF Idle
  <2> HIDE DEF d
  <2>3. caller'[p] = d /\ \A q \in Actors : q # p => caller'[q] = caller[q] BY <2>1, Mine
  <2>4. Lasting /\ Objs' = Objs BY <2>1, LastingNone DEF Objs
  <2>5. \A h \in Objs : ~Deals(caller[p], h) BY DEF Deals, TInv, Calling, CallerAt
  <2>6. ASSUME NEW h \in Objs, Accounted(h) PROVE Secured(h)'
    <3>1. Accounted(h)'
      <4>1. CASE client[h].connectionClosed BY <2>1, <4>1 DEF Accounted
      <4>2. CASE clients[client[h].id] = h /\ closing < ShutdownDone
        <5>1. CASE client[h].id = i
          <6>1. h = g BY <4>2, <5>1
          <6> QED BY <2>2, <2>3, <6>1 DEF Accounted, Deals
        <5>2. CASE client[h].id # i
          <6>1. clients'[client'[h].id] = h /\ closing' < ShutdownDone
            BY <2>1, <4>2, <5>2 DEF TInv, Registered, Identified
          <6> QED BY <6>1 DEF Accounted
        <5> QED BY <5>1, <5>2
      <4>3. ASSUME NEW q \in Actors, Deals(caller[q], h) PROVE Accounted(h)'
        <5>1. q # p BY <2>5, <4>3
        <5> QED BY <2>3, <4>3, <5>1 DEF Accounted, Deals
      <4> QED BY <2>6, <4>1, <4>2, <4>3 DEF Accounted
    <3> QED BY <2>4, <3>1 DEF Secured
  <2> QED BY <2>4, <2>6, <1>LeakStep
<1>RemovalLeak. ASSUME NEW g \in Client, Removal(g) PROVE LInv'
  <2> USE <1>RemovalLeak
  <2>1. g \in Actors /\ caller[g].pc = "spawned" /\ client[g].id \in ClientIDs
    BY DEF Removal, Actors, SInv, SafeAt, TInv, Identified
  <2>2. CASE clients[client[g].id] = g
    <3>1. Unregister(g, client[g].id) BY <2>2 DEF Removal, RemoveExhausted
    <3> QED BY <2>1, <3>1, <1>UnregisterLeak
  <2>3. CASE clients[client[g].id] # g
    <3>1. /\ caller' = [caller EXCEPT ![g] = Idle]
          /\ UNCHANGED <<client, created, clients, closing>>
      BY <2>3 DEF Removal, RemoveExhausted, Return, registration, delivery, counters
    <3>2. Lasting /\ Objs' = Objs BY <3>1, LastingNone DEF Objs
    <3>3. \A q \in Actors : q # g => caller'[q] = caller[q] BY <2>1, <3>1, Mine
    <3> QED BY <2>1, <3>1, <3>2, <3>3, <1>LeakNone
  <2> QED BY <2>2, <2>3
(* The other calls start, wait, publish and replay. *)
<1>StartsLeak.
  ASSUME NEW p \in Callers, NEW i, NEW ids, NEW b,
         \/ Disconnect(p, i) \/ Publish(p, ids, b) \/ ReplayMissedEvents(p, i, b)
         \/ DisconnectLocked(p) \/ ReplayEnter(p) \/ HandleClient(p, i)
  PROVE  LInv'
  <2> USE <1>StartsLeak
  <2>1. p \in Actors /\ IsCaller(caller[p]) /\ CallerAt(caller[p]) BY DEF Actors, TInv, Calling
  <2>2. /\ UNCHANGED <<client, created, clients, closing>>
        /\ caller[p].pc \in {"idle", "disconnect", "replayWait", "handle"}
        /\ \E d : caller' = [caller EXCEPT ![p] = d]
    BY DEF Disconnect, Publish, ReplayMissedEvents, DisconnectLocked, ReplayEnter, HandleClient, Enter, Return,
       registration, delivery, counters
  <2>3. Lasting /\ Objs' = Objs BY <2>2, LastingNone DEF Objs
  <2>4. \A q \in Actors : q # p => caller'[q] = caller[q] BY <2>1, <2>2, Mine
  <2>5. caller[p].op \notin {"register", "disconnect", "unregister"} \/ caller[p].pc \in {"disconnect", "spawned"}
    BY <2>1, <2>2 DEF CallerAt
  <2> QED BY <2>1, <2>2, <2>3, <2>4, <2>5, <1>LeakNone
<1>HandleLeak.
  ASSUME NEW p \in Actors, HandleFails(p) \/ \E i : SkipClient(p, i)
  PROVE  LInv'
  <2> USE <1>HandleLeak
  <2>1. CallerAt(caller[p]) BY DEF TInv, Calling
  <2>2. /\ UNCHANGED <<client, created, clients, closing>> /\ caller[p].pc = "handle"
        /\ \E d : caller' = [caller EXCEPT ![p] = d]
    BY DEF HandleFails, SkipClient, registration, delivery, counters
  <2>3. Lasting /\ Objs' = Objs BY <2>2, LastingNone DEF Objs
  <2>4. \A q \in Actors : q # p => caller'[q] = caller[q] BY <2>2, Mine
  <2>5. caller[p].op \notin {"register", "disconnect", "unregister"} BY <2>1, <2>2 DEF CallerAt
  <2> QED BY <2>2, <2>3, <2>4, <2>5, <1>LeakNone
<1>PushLeak.
  ASSUME NEW p \in Actors,
         PushCall(p) \/ PushFails(p) \/ CallSend(p) \/ (\E o : CallSent(p, o)) \/ ReplayNext(p) \/ ReplayLocked(p)
  PROVE  LInv'
  <2> USE <1>PushLeak
  <2> DEFINE c == caller[p]
  <2>1. /\ IsCaller(c) /\ CallerAt(c) /\ SafeAt(p, c) /\ c.pc \in {"push", "replay", "send", "sending", "backlog"}
        /\ UNCHANGED <<clients, closing>>
    BY DEF PushCall, PushFails, CallSend, CallSent, ReplayNext, ReplayLocked, TInv, Calling, SInv, registration,
       delivery
  <2>2. Lasting /\ Objs' = Objs
    <3>1. CASE PushCall(p) \/ PushFails(p) \/ ReplayNext(p)
      <4>1. UNCHANGED <<client, created>> BY <3>1 DEF PushCall, PushFails, ReplayNext, counters
      <4> QED BY <4>1, LastingNone DEF Objs
    <3>2. CASE CallSend(p) \/ (\E o : CallSent(p, o)) \/ ReplayLocked(p) BY <3>2, LastingCalls
    <3> QED BY <3>1, <3>2
  <2>3. \A h \in Objs : Deals(c, h) => Secured(h)' BY <2>1, <2>2, <1>InstalledSecured
  <2>4. \E d : caller' = [caller EXCEPT ![p] = d]
    <3>1. CASE CallSend(p)
      <4>1. caller' = [caller EXCEPT ![p] = [c EXCEPT !.pc = "sending", !.event = Attempted(@)]] \/
            \E d : caller' = [caller EXCEPT ![p] = d]
        BY <3>1 DEF CallSend
      <4> QED BY <4>1
    <3>2. CASE ReplayLocked(p)
      <4>1. caller' = [caller EXCEPT ![p] = [c EXCEPT !.pc = "removeSend", !.target = c.fresh]] \/ Return(p)
        BY <3>2 DEF ReplayLocked
      <4> QED BY <4>1 DEF Return
    <3>3. CASE PushCall(p) \/ PushFails(p) \/ (\E o : CallSent(p, o)) \/ ReplayNext(p)
      BY <3>3 DEF PushCall, PushFails, CallSent, ReplayNext, Return, Goto
    <3> QED BY <3>1, <3>2, <3>3
  <2> QED BY <2>1, <2>2, <2>3, <2>4, <1>LeakGoesOn
<1>QuietLeak.
  ASSUME Lasting, Objs' = Objs, UNCHANGED <<caller, clients>>, closing < ShutdownDone => closing' < ShutdownDone
  PROVE  LInv'
  BY <1>QuietLeak, <1>LeakKept, Goroutines
<1>WorkerLeak. ASSUME NEW w \in Workers, WorkerStep(w) PROVE LInv'
  <2> USE <1>WorkerLeak
  <2>1. Lasting /\ Objs' = Objs BY LastingWorkers
  <2>2. UNCHANGED <<clients, closing>>
    BY DEF WorkerStep, Pop, PopClosed, WaitForTurn, Attempt, SendBegin, SendEnd, AfterFailure, Exhaust,
       Schedule, RetryDue, others, calls
  <2>3. CASE UNCHANGED caller BY <2>1, <2>2, <2>3, <1>QuietLeak
  <2>4. CASE Exhaust(w) /\ IsActive(worker[w].event.client)
    <3> PICK g : g = worker[w].event.client OBVIOUS
    <3>1. g \in Objs /\ g \in Client /\ g \in Actors
      BY <2>4, AnObject DEF Exhaust, TInv, Working, WorkerAt, Made, Actors
    <3>2. caller[g].pc = "idle" /\ caller[g].op = "none"
      BY <2>4, <3>1 DEF SInv, SafeAt, IsActive, TInv, Calling, CallerAt
    <3>3. \E d : caller' = [caller EXCEPT ![g] = d] BY <2>4 DEF Exhaust, Spawn
    <3>4. \A q \in Actors : q # g => caller'[q] = caller[q] BY <3>1, <3>3, Mine
    <3> QED BY <2>1, <2>2, <3>1, <3>2, <3>4, <1>LeakNone
  <2>5. CASE Exhaust(w) /\ ~IsActive(worker[w].event.client) BY <2>3, <2>5 DEF Exhaust
  <2>6. CASE ~Exhaust(w)
    BY <2>3, <2>6 DEF WorkerStep, Pop, PopClosed, WaitForTurn, Attempt, SendBegin, SendEnd, AfterFailure,
       Schedule, RetryDue, others
  <2> QED BY <2>4, <2>5, <2>6
(* At the end of shutdown every registered client has been closed. *)
<1>ShutdownLeak. ASSUME ShutdownStep \/ CloseStep PROVE LInv'
  <2> USE <1>ShutdownLeak
  <2>1. Lasting /\ Objs' = Objs BY LastingShutdown
  <2>2. UNCHANGED <<clients, caller>>
    BY DEF ShutdownStep, CloseStep, Drain, FlushNext, FlushSend, FlushSent, RetireAll, RetireNext, RetireClose,
       FinishShutdown, background, calls
  <2>3. CASE FinishShutdown
    <3>1. /\ closing = Retiring /\ closer.pc = "idle" /\ closer.retire = {} /\ UNCHANGED <<client, created>>
          /\ closing' = ShutdownDone
      BY <2>3 DEF FinishShutdown, background, calls, counters
    <3>2. \A i \in ClientIDs : clients[i] # NoClient => client[clients[i]].connectionClosed
      BY <3>1, Stages DEF SInv, CloserSafe
    <3>3. ASSUME NEW h \in Objs, Accounted(h) PROVE Secured(h)'
      <4>1. CASE client[h].connectionClosed BY <2>1, <3>1, <4>1, <1>ClosedSecured
      <4>2. CASE clients[client[h].id] = h
        <5>1. client[h].id \in ClientIDs /\ h # NoClient
          BY ObjsClients, SMT DEF Client, NoClient, TInv, Identified
        <5>2. client[h].connectionClosed BY <3>2, <4>2, <5>1
        <5> QED BY <4>1, <5>2
      <4>3. ASSUME NEW q \in Actors, Deals(caller[q], h) PROVE Secured(h)'
        <5>1. Accounted(h)' BY <2>2, <4>3 DEF Accounted, Deals
        <5> QED BY <2>1, <5>1 DEF Secured
      <4> QED BY <3>3, <4>1, <4>2, <4>3 DEF Accounted
    <3> QED BY <2>1, <3>3, <1>LeakStep
  <2>4. CASE ~FinishShutdown
    <3>1. closing' < ShutdownDone \/ closing' = closing
      <4>1. CASE CloseStep BY <4>1, SMT DEF CloseStep, Stopped, ShutdownDone, TInv, Fixed, Open
      <4>2. CASE closing' \in {Flushing, Retiring} BY <4>2, SMT DEF Flushing, Retiring, ShutdownDone
      <4>3. CASE ~CloseStep
        <5>1. closing' = closing \/ closing' \in {Flushing, Retiring}
          BY <2>4, <4>3 DEF ShutdownStep, Drain, FlushNext, FlushSend, FlushSent, RetireAll, RetireNext, RetireClose
        <5> QED BY <4>2, <5>1
      <4> QED BY <4>1, <4>3
    <3>2. closing < ShutdownDone => closing' < ShutdownDone BY <3>1
    <3> QED BY <2>1, <2>2, <3>2, <1>QuietLeak
  <2> QED BY <2>3, <2>4
<1> SUFFICES ASSUME [Next]_vars PROVE LInv' OBVIOUS
<1>1. ASSUME UNCHANGED <<client, created, caller, clients, closing>> PROVE LInv'
  <2>1. Lasting /\ Objs' = Objs BY <1>1, LastingNone DEF Objs
  <2> QED BY <1>1, <2>1, <1>QuietLeak
<1>2. CASE UNCHANGED vars BY <1>1, <1>2 DEF vars, counters
<1>3. ASSUME NEW p \in Callers, StartCall(p) \/ TakeLock(p) \/ PushFails(p) \/ HandleFails(p) PROVE LInv'
  <2>1. p \in Actors BY DEF Actors
  <2>2. ASSUME NEW i \in ClientIDs, UnregisterCall(p, i) PROVE LInv'
    BY <2>1, <2>2, <1>UnregisterLeak DEF UnregisterCall
  <2>3. CASE StartCall(p) BY <2>2, <2>3, <1>RegisterLeak, <1>StartsLeak DEF StartCall
  <2>4. CASE TakeLock(p) BY <2>4, <1>StartsLeak DEF TakeLock
  <2> QED BY <1>3, <2>1, <2>3, <2>4, <1>PushLeak, <1>HandleLeak
<1>4. ASSUME NEW p \in Actors, ContinueCall(p) PROVE LInv'
  BY <1>4, <1>CloseConnectionLeak, <1>RemoveLeak, <1>InstallLeak, <1>PushLeak, <1>HandleLeak DEF ContinueCall
<1>5. ASSUME NEW g \in Client, Removal(g) PROVE LInv' BY <1>5, <1>RemovalLeak
<1>6. ASSUME NEW i \in ClientIDs, SetSubscribed(subs \cup {i}) \/ SetSubscribed(subs \ {i}) PROVE LInv'
  BY <1>1, <1>6 DEF SetSubscribed, delivery, counters
<1>7. ASSUME NEW w \in Workers, WorkerStep(w) PROVE LInv' BY <1>7, <1>WorkerLeak
<1>8. CASE SchedulerStep
  BY <1>1, <1>8 DEF SchedulerStep, PopDue, PushRetry, SchedulerReturns, others, calls, counters
<1>9. CASE ShutdownStep \/ CloseStep BY <1>9, <1>ShutdownLeak
<1> QED BY <1>2, <1>3, <1>4, <1>5, <1>6, <1>7, <1>8, <1>9 DEF Next, Rest, Actors

(* No connection is leaked: the bus has closed it, or a client object with  *)
(* that connection is registered or in the hands of a call that will        *)
(* install or close it (RegisterContext, Disconnect, unregister); after     *)
(* shutdown every connection that no call deals with is closed.             *)
THEOREM NoConnectionIsLeaked == Spec => []NoConnectionLeak
<1>1. Init => LInv
  <2>1. Init => Objs = {} BY SMT DEF Init, Objs
  <2> QED BY <2>1 DEF LInv
<1>2. ASSUME TInv, LInv PROVE NoConnectionLeak
  <2>1. ASSUME NEW g \in Objs
        PROVE  \/ ConnectionClosed(client[g].connection)
               \/ \E h \in Objs : /\ client[h].connection = client[g].connection
                                  /\ DealtWith(h) \/ (clients[client[h].id] = h /\ closing < ShutdownDone)
    <3>1. PICK h \in Objs : client[h].connection = client[g].connection /\ Accounted(h)
      BY <1>2, <2>1 DEF LInv, Secured
    <3>2. h \in Client BY <1>2, ObjsClients
    <3>3. CASE client[h].connectionClosed BY <3>1, <3>2, <3>3 DEF ConnectionClosed
    <3>4. CASE \E p \in Actors : Deals(caller[p], h)
      <4>1. DealtWith(h) BY <3>4 DEF DealtWith, Deals, Actors
      <4> QED BY <3>1, <4>1
    <3> QED BY <3>1, <3>3, <3>4 DEF Accounted
  <2> QED BY <2>1 DEF NoConnectionLeak, Objs
<1>3. TInv /\ LInv => NoConnectionLeak BY <1>2
<1> QED BY <1>1, <1>3, LeakInvariant, Safe, PTL DEF Spec

-----------------------------------------------------------------------------
(* Connections are shared by clients of one ID, and only the newest of them *)
(* is registered or removed, except while the registration that shares it   *)
(* replaces the one before.                                                 *)
SharedBy(g, h) == g < h /\ client[g].connection = client[h].connection
Retires(c) == c.op \in {"disconnect", "unregister"} /\ Holding(c)
Replaces(c, g, h) == PreInstall(c) /\ c.fresh = h /\ c.target = g
FreshIsNewest(c) == PreInstall(c) => \A h \in Objs : ~SharedBy(c.fresh, h)
OutOfUse(g, h) ==
  /\ clients[client[g].id] = g => \E p \in Actors : Replaces(caller[p], g, h)
  /\ \A p \in Actors : caller[p].target = g => ~Retires(caller[p])
OwnOrOlder == \A g \in Objs : client[g].connection <= g
SharedByID == \A g, h \in Objs : SharedBy(g, h) => client[g].id = client[h].id
FreshNewest == \A p \in Actors : FreshIsNewest(caller[p])
OnlyNewestUsed == closing = Open => \A g, h \in Objs : SharedBy(g, h) => OutOfUse(g, h)
Sharing == OwnOrOlder /\ SharedByID /\ FreshNewest /\ OnlyNewestUsed

(* A call goes on: it installs the same client in place of the same one,    *)
(* or removes the same one.                                                 *)
PlaceKept(c, d) ==
  /\ PreInstall(d) <=> PreInstall(c)
  /\ PreInstall(c) => d.fresh = c.fresh /\ d.target = c.target
  /\ Retires(d) => Retires(c) /\ d.target = c.target

(* The registration that replaces a client has the lock of its ID. *)
LEMMA Replacing ==
  ASSUME TInv, SInv, NEW p \in Actors, PreInstall(caller[p]), NEW g \in Objs, caller[p].target = g
  PROVE  clients[client[g].id] = g /\ lifecycle[client[g].id] = p /\ caller[p].id = client[g].id
<1> DEFINE c == caller[p]
<1>1. SafeAt(p, c) /\ c.id \in ClientIDs BY Referred DEF SInv, PreInstall
<1>2. Holding(c) BY DEF PreInstall, Holding
<1>3. g # NoClient BY ObjsClients, SMT DEF Client, NoClient
<1>4. clients[c.id] = g /\ lifecycle[c.id] = p BY <1>1, <1>2 DEF SafeAt
<1>5. client[g].id = c.id BY <1>1, <1>3, <1>4 DEF SInv, IDSafe
<1> QED BY <1>4, <1>5

LEMMA SharingInvariant == TInv /\ SInv /\ Sharing /\ [Next]_vars => Sharing'
<1> SUFFICES ASSUME TInv, SInv, Sharing PROVE [Next]_vars => Sharing' OBVIOUS
<1>SharedSame.
  ASSUME Lasting, NEW g \in Objs, NEW h \in Objs
  PROVE  SharedBy(g, h)' <=> SharedBy(g, h)
  BY <1>SharedSame DEF Lasting, Lasts, Grown, SharedBy
<1>SharingGoesOn.
  ASSUME Lasting, Objs' = Objs,
         \A q \in Actors : PreInstall(caller'[q]) => PreInstall(caller[q]) /\ caller'[q].fresh = caller[q].fresh,
         ASSUME closing' = Open, NEW g \in Objs, NEW h \in Objs, SharedBy(g, h) PROVE OutOfUse(g, h)'
  PROVE  Sharing'
  <2> USE <1>SharingGoesOn
  <2>1. \A g \in Objs : client'[g].id = client[g].id /\ client'[g].connection = client[g].connection
    BY DEF Lasting, Lasts, Grown
  <2>2. \A g, h \in Objs : SharedBy(g, h)' <=> SharedBy(g, h) BY <1>SharedSame
  <2>3. OwnOrOlder' BY <2>1 DEF Sharing, OwnOrOlder
  <2>4. SharedByID'
    <3>1. ASSUME NEW g \in Objs, NEW h \in Objs, SharedBy(g, h)' PROVE client'[g].id = client'[h].id
      <4>1. SharedBy(g, h) BY <2>2, <3>1
      <4>2. client[g].id = client[h].id BY <4>1 DEF Sharing, SharedByID
      <4> QED BY <2>1, <4>2
    <3> QED BY <3>1 DEF SharedByID
  <2>5. ASSUME NEW p \in Actors PROVE FreshIsNewest(caller[p])'
    <3> PICK f : f = caller'[p].fresh OBVIOUS
    <3>1. ASSUME PreInstall(caller'[p]), NEW h \in Objs PROVE ~SharedBy(f, h)'
      <4>1. PreInstall(caller[p]) /\ f = caller[p].fresh BY <3>1
      <4>2. f \in Objs /\ ~SharedBy(f, h) BY <4>1, Referred DEF Sharing, FreshNewest, FreshIsNewest
      <4> QED BY <2>2, <4>2
    <3> QED BY <3>1 DEF FreshIsNewest, SharedBy, PreInstall
  <2>6. ASSUME closing' = Open, NEW g \in Objs, NEW h \in Objs, SharedBy(g, h)' PROVE OutOfUse(g, h)'
    BY <2>2, <2>6
  <2> QED BY <2>3, <2>4, <2>5, <2>6 DEF Sharing, FreshNewest, OnlyNewestUsed
<1>SharingKept.
  ASSUME Lasting, Objs' = Objs, UNCHANGED clients, closing' = Open => closing = Open,
         \A q \in Actors : PlaceKept(caller[q], caller'[q])
  PROVE  Sharing'
  <2> USE <1>SharingKept
  <2>1. \A g \in Objs : client'[g].id = client[g].id BY DEF Lasting, Lasts, Grown
  <2>2. ASSUME closing' = Open, NEW g \in Objs, NEW h \in Objs, SharedBy(g, h) PROVE OutOfUse(g, h)'
    <3>1. OutOfUse(g, h) BY <2>2 DEF Sharing, OnlyNewestUsed
    <3>2. clients'[client'[g].id] = g => \E p \in Actors : Replaces(caller'[p], g, h)
      BY <2>1, <3>1 DEF OutOfUse, Replaces, PlaceKept
    <3>3. \A p \in Actors : caller'[p].target = g => ~Retires(caller'[p])
      BY <3>1 DEF OutOfUse, PlaceKept
    <3> QED BY <3>2, <3>3 DEF OutOfUse, Replaces, PreInstall, Retires, Holding
  <2>3. \A q \in Actors : PreInstall(caller'[q]) => PreInstall(caller[q]) /\ caller'[q].fresh = caller[q].fresh
    BY DEF PlaceKept
  <2> QED BY <2>2, <2>3, <1>SharingGoesOn
<1>CallKept.
  ASSUME Lasting, Objs' = Objs, UNCHANGED <<clients, closing>>, NEW p \in Actors, NEW d,
         caller' = [caller EXCEPT ![p] = d], PlaceKept(caller[p], d)
  PROVE  Sharing'
  <2> USE <1>CallKept
  <2>1. caller'[p] = d /\ \A q \in Actors : q # p => caller'[q] = caller[q] BY Mine
  <2>2. \A q \in Actors : PlaceKept(caller[q], caller[q]) BY DEF PlaceKept
  <2>3. \A q \in Actors : PlaceKept(caller[q], caller'[q]) BY <2>1, <2>2
  <2> QED BY <2>3, <1>SharingKept
<1>PlainKept.
  ASSUME NEW c, NEW d, ~PreInstall(c), ~PreInstall(d), ~Retires(d)
  PROVE  PlaceKept(c, d)
  BY <1>PlainKept DEF PlaceKept
(* The calls go on. *)
<1>RemoveShares.
  ASSUME NEW p \in Actors,
         SetInactive(p) \/ CloseConnection(p) \/ RemoveFromSend(p) \/ RemoveFromRetry(p)
  PROVE  Sharing'
  <2> USE <1>RemoveShares
  <2> DEFINE c == caller[p]
  <2>1. /\ IsCaller(c) /\ CallerAt(c) /\ SafeAt(p, c) /\ c.pc \in {"retire", "close", "removeSend", "removeRetry"}
        /\ UNCHANGED <<clients, closing, created>>
    BY DEF SetInactive, CloseConnection, RemoveFromSend, RemoveFromRetry, TInv, Calling, SInv, registration,
       delivery, counters
  <2>2. Lasting /\ Objs' = Objs
    <3>1. CASE SetInactive(p) \/ CloseConnection(p) BY <3>1, LastingCalls
    <3>2. CASE RemoveFromSend(p) \/ RemoveFromRetry(p)
      <4>1. UNCHANGED <<client, created>> BY <3>2 DEF RemoveFromSend, RemoveFromRetry, counters
      <4> QED BY <4>1, LastingNone DEF Objs
    <3> QED BY <3>1, <3>2
  <2>3. ASSUME NEW d, caller' = [caller EXCEPT ![p] = d], d.op = c.op, d.target = c.target, d.fresh = c.fresh,
               d.pc \in {"retire", "close", "removeSend", "removeRetry", "install", "backlog"},
               d.pc \in {"retire", "close", "install"} => (c.op = "register" => PreInstall(c)),
               d.pc = "backlog" => c.target = c.fresh /\ c.op \in {"register", "replay"} /\ c.pc = "removeRetry"
        PROVE  Sharing'
    <3>1. PreInstall(d) <=> PreInstall(c)
      <4>1. PreInstall(c) => c.target # c.fresh
        <5>1. PreInstall(c) => c.target < c.fresh /\ c.fresh \in Client BY <2>1, Referred DEF SafeAt
        <5> QED BY <5>1, SMT DEF Client
      <4> QED BY <2>1, <2>3, <4>1 DEF PreInstall
    <3>2. Retires(d) => Retires(c) BY <2>1, <2>3 DEF Retires, Holding
    <3>3. PlaceKept(c, d) BY <2>3, <3>1, <3>2 DEF PlaceKept
    <3> QED BY <2>1, <2>2, <2>3, <3>3, <1>CallKept
  <2>4. ASSUME NEW pc, caller' = [caller EXCEPT ![p].pc = pc],
               pc \in {"retire", "close", "removeSend", "removeRetry", "install"},
               pc \in {"retire", "close", "install"} => (c.op = "register" => PreInstall(c))
        PROVE  Sharing'
    <3> DEFINE d == [c EXCEPT !.pc = pc]
    <3>1. d.pc = pc /\ d.op = c.op /\ d.target = c.target /\ d.fresh = c.fresh BY <2>1 DEF IsCaller
    <3>2. caller' = [caller EXCEPT ![p] = d] BY <2>4
    <3> HIDE DEF d
    <3>3. d.pc \in {"retire", "close", "removeSend", "removeRetry", "install", "backlog"} /\ d.pc # "backlog"
      BY <2>4, <3>1
    <3> QED BY <2>3, <2>4, <3>1, <3>2, <3>3
  <2>5. ASSUME caller' = [caller EXCEPT ![p] = Idle], c.op \in {"disconnect", "unregister"} PROVE Sharing'
    <3>1. ~PreInstall(c) /\ ~PreInstall(Idle) /\ ~Retires(Idle)
      BY <2>5, IdleSafe DEF PreInstall, Retires, Idle
    <3> QED BY <2>1, <2>2, <2>5, <3>1, <1>PlainKept, <1>CallKept
  <2>6. CASE SetInactive(p)
    <3> PICK pc : pc = "close" OBVIOUS
    <3>1. caller' = [caller EXCEPT ![p].pc = pc] /\ (c.op = "register" => PreInstall(c))
      BY <2>6 DEF SetInactive, Goto, PreInstall
    <3> QED BY <2>4, <3>1
  <2>7. CASE CloseConnection(p)
    <3>1. CASE c.op = "unregister"
      <4>1. caller' = [caller EXCEPT ![p] = Idle] BY <2>7, <3>1 DEF CloseConnection, GotoOrReturn, Return
      <4> QED BY <2>5, <3>1, <4>1
    <3>2. CASE c.op # "unregister"
      <4> PICK pc : pc = "removeSend" OBVIOUS
      <4>1. caller' = [caller EXCEPT ![p].pc = pc] BY <2>7, <3>2 DEF CloseConnection, GotoOrReturn, Goto
      <4> QED BY <2>4, <4>1
    <3> QED BY <3>1, <3>2
  <2>8. CASE RemoveFromSend(p)
    <3> PICK pc : pc = "removeRetry" OBVIOUS
    <3>1. caller' = [caller EXCEPT ![p].pc = pc] BY <2>8 DEF RemoveFromSend, Goto
    <3> QED BY <2>4, <3>1
  <2>9. CASE RemoveFromRetry(p)
    <3> PICK place : place = AfterRemove(c) OBVIOUS
    <3>1. /\ place \in {"idle", "retire", "backlog", "install"} /\ (place = "idle" => c.op = "disconnect")
          /\ (place = "backlog" => c.target = c.fresh /\ c.op \in {"register", "replay"})
          /\ (place = "install" => ~(c.op \in {"register", "replay"} /\ c.target = c.fresh))
          /\ (place = "retire" => c.op = "unregister") /\ c.pc = "removeRetry"
      BY <2>9 DEF AfterRemove, RemoveFromRetry
    <3>2. CASE place = "idle"
      <4>1. caller' = [caller EXCEPT ![p] = Idle] BY <2>9, <3>2 DEF RemoveFromRetry, GotoOrReturn, Return
      <4> QED BY <2>5, <3>1, <3>2, <4>1
    <3>3. CASE place = "backlog"
      <4> DEFINE d == [c EXCEPT !.pc = "backlog", !.backlog = EventsSince(store[c.id], c.cursor)]
      <4>1. caller' = [caller EXCEPT ![p] = d] BY <2>9, <3>3 DEF RemoveFromRetry
      <4>2. d.pc = "backlog" /\ d.op = c.op /\ d.target = c.target /\ d.fresh = c.fresh BY <2>1 DEF IsCaller
      <4> HIDE DEF d
      <4>3. d.pc \in {"retire", "close", "removeSend", "removeRetry", "install", "backlog"}
            /\ d.pc \notin {"retire", "close", "install"}
        BY <4>2
      <4> QED BY <2>3, <3>1, <3>3, <4>1, <4>2, <4>3
    <3>4. CASE place \in {"retire", "install"}
      <4>1. caller' = [caller EXCEPT ![p].pc = place] BY <2>9, <3>4 DEF RemoveFromRetry, GotoOrReturn, Goto
      <4>2. c.op = "register" => PreInstall(c) BY <3>1, <3>4 DEF PreInstall
      <4>3. place \in {"retire", "close", "removeSend", "removeRetry", "install"} BY <3>4
      <4> QED BY <2>4, <4>1, <4>2, <4>3
    <3> QED BY <3>1, <3>2, <3>3, <3>4
  <2> QED BY <2>6, <2>7, <2>8, <2>9
<1>PlainShares.
  ASSUME Lasting, Objs' = Objs, UNCHANGED <<clients, closing>>, NEW p \in Actors, NEW d,
         caller' = [caller EXCEPT ![p] = d], ~PreInstall(caller[p]), ~PreInstall(d), ~Retires(d)
  PROVE  Sharing'
  <2> USE <1>PlainShares
  <2>1. PlaceKept(caller[p], d) BY <1>PlainKept
  <2> QED BY <2>1, <1>CallKept
<1>PushShares.
  ASSUME NEW p \in Actors,
         PushCall(p) \/ PushFails(p) \/ CallSend(p) \/ (\E o : CallSent(p, o)) \/ ReplayNext(p) \/ ReplayLocked(p)
  PROVE  Sharing'
  <2> USE <1>PushShares
  <2> DEFINE c == caller[p]
  <2>1. /\ IsCaller(c) /\ CallerAt(c) /\ c.pc \in {"push", "replay", "send", "sending", "backlog"}
        /\ UNCHANGED <<clients, closing>>
    BY DEF PushCall, PushFails, CallSend, CallSent, ReplayNext, ReplayLocked, TInv, Calling, registration,
       delivery
  <2>2. Lasting /\ Objs' = Objs
    <3>1. CASE PushCall(p) \/ PushFails(p) \/ ReplayNext(p)
      <4>1. UNCHANGED <<client, created>> BY <3>1 DEF PushCall, PushFails, ReplayNext, counters
      <4> QED BY <4>1, LastingNone DEF Objs
    <3>2. CASE CallSend(p) \/ (\E o : CallSent(p, o)) \/ ReplayLocked(p) BY <3>2, LastingCalls
    <3> QED BY <3>1, <3>2
  <2>3. ~PreInstall(c) /\ c.op \in {"register", "replay", "publish"} BY <2>1 DEF PreInstall, CallerAt
  <2>4. ASSUME NEW d, caller' = [caller EXCEPT ![p] = d],
               \/ d.pc \in {"idle", "handle"}
               \/ d.op = c.op /\ d.pc \in {"sending", "push", "send", "backlog"}
               \/ d.op = c.op /\ d.target = d.fresh /\ d.pc = "removeSend"
        PROVE  Sharing'
    <3>1. ~PreInstall(d) /\ ~Retires(d) BY <2>3, <2>4 DEF PreInstall, Retires, Holding
    <3> QED BY <2>1, <2>2, <2>3, <2>4, <3>1, <1>PlainShares
  <2>5. CASE caller' = [caller EXCEPT ![p] = Idle] BY <2>4, <2>5 DEF Idle
  <2>6. ASSUME NEW i, caller' = [caller EXCEPT ![p] = Handled(c, i)] PROVE Sharing'
    BY <2>4, <2>6, HandledLight
  <2>8. ASSUME NEW pc \in {"sending", "push", "send", "backlog"}, caller' = [caller EXCEPT ![p].pc = pc]
        PROVE  Sharing'
    <3> DEFINE d == [c EXCEPT !.pc = pc]
    <3>1. d.pc = pc /\ d.op = c.op /\ caller' = [caller EXCEPT ![p] = d] BY <2>1, <2>8 DEF IsCaller
    <3> HIDE DEF d
    <3> QED BY <2>4, <3>1
  <2>9. CASE PushFails(p) BY <2>5, <2>9 DEF PushFails, Return
  <2>10. CASE PushCall(p)
    <3> PICK pc \in {"backlog"} : TRUE OBVIOUS
    <3>1. caller' = [caller EXCEPT ![p] = Handled(c, c.id)] \/ caller' = [caller EXCEPT ![p].pc = pc]
      BY <2>10 DEF PushCall, Goto
    <3> QED BY <2>6, <2>8, <3>1
  <2>11. ASSUME caller' = [caller EXCEPT ![p] = IF c.op = "publish" THEN Handled(c, c.id) ELSE [c EXCEPT !.pc = "backlog"]]
         PROVE  Sharing'
    <3> PICK pc \in {"backlog"} : TRUE OBVIOUS
    <3>1. caller' = [caller EXCEPT ![p] = Handled(c, c.id)] \/ caller' = [caller EXCEPT ![p].pc = pc] BY <2>11
    <3> QED BY <2>6, <2>8, <3>1
  <2>12. CASE CallSend(p)
    <3>1. CASE MaySend(c.target)
      <4> DEFINE d == [c EXCEPT !.pc = "sending", !.event = Attempted(@)]
      <4>1. caller' = [caller EXCEPT ![p] = d] BY <2>12, <3>1 DEF CallSend
      <4>2. d.pc = "sending" /\ d.op = c.op BY <2>1 DEF IsCaller
      <4> HIDE DEF d
      <4> QED BY <2>4, <4>1, <4>2
    <3>2. CASE ~MaySend(c.target) BY <2>11, <2>12, <3>2 DEF CallSend
    <3> QED BY <3>1, <3>2
  <2>13. CASE \E o : CallSent(p, o) BY <2>11, <2>13 DEF CallSent
  <2>14. CASE ReplayNext(p)
    <3>1. CASE Return(p) BY <2>5, <3>1 DEF Return
    <3>2. CASE ~Return(p)
      <4> PICK pc, b, e : /\ pc \in {"backlog", "send", "push"} /\ UNCHANGED lifecycle
                          /\ caller' = [caller EXCEPT ![p] = [c EXCEPT !.backlog = b, !.pc = pc, !.event = e]]
        BY <2>14, <3>2 DEF ReplayNext
      <4> DEFINE d == [c EXCEPT !.backlog = b, !.pc = pc, !.event = e]
      <4>1. d.pc = pc /\ d.op = c.op /\ caller' = [caller EXCEPT ![p] = d] BY <2>1 DEF IsCaller
      <4> HIDE DEF d
      <4> QED BY <2>4, <4>1
    <3> QED BY <3>1, <3>2
  <2>15. CASE ReplayLocked(p)
    <3>1. CASE Return(p) BY <2>5, <3>1 DEF Return
    <3>2. CASE ~Return(p)
      <4> DEFINE d == [c EXCEPT !.pc = "removeSend", !.target = c.fresh]
      <4>1. caller' = [caller EXCEPT ![p] = d] BY <2>15, <3>2 DEF ReplayLocked
      <4>2. d.pc = "removeSend" /\ d.op = c.op /\ d.target = d.fresh BY <2>1 DEF IsCaller
      <4> HIDE DEF d
      <4> QED BY <2>4, <4>1, <4>2
    <3> QED BY <3>1, <3>2
  <2> QED BY <2>9, <2>10, <2>12, <2>13, <2>14, <2>15
<1>StartsShare.
  ASSUME NEW p \in Actors, NEW i, NEW ids, NEW b,
         \/ Disconnect(p, i) \/ Publish(p, ids, b) \/ ReplayMissedEvents(p, i, b)
         \/ ReplayEnter(p) \/ HandleClient(p, i) \/ HandleFails(p) \/ SkipClient(p, i)
  PROVE  Sharing'
  <2> USE <1>StartsShare
  <2> DEFINE c == caller[p]
  <2>1. /\ IsCaller(c) /\ CallerAt(c) /\ c.pc \in {"idle", "replayWait", "handle"}
        /\ UNCHANGED <<client, created, clients, closing>>
    BY DEF Disconnect, Publish, ReplayMissedEvents, ReplayEnter, HandleClient, HandleFails, SkipClient, TInv,
       Calling, registration, delivery, counters
  <2>2. Lasting /\ Objs' = Objs BY <2>1, LastingNone DEF Objs
  <2>3. ~PreInstall(c) BY <2>1 DEF PreInstall
  <2>4. ASSUME NEW d, caller' = [caller EXCEPT ![p] = d], d.pc \in {"idle", "handle", "disconnect", "replayWait"}
        PROVE  Sharing'
    <3>1. ~PreInstall(d) /\ ~Retires(d) BY <2>4 DEF PreInstall, Retires, Holding
    <3> QED BY <2>1, <2>2, <2>3, <2>4, <3>1, <1>PlainShares
  <2>5. ASSUME NEW d, caller' = [caller EXCEPT ![p] = d], d.op \in {"publish", "replay"} PROVE Sharing'
    <3>1. ~PreInstall(d) /\ ~Retires(d) BY <2>5 DEF PreInstall, Retires
    <3> QED BY <2>1, <2>2, <2>3, <2>5, <3>1, <1>PlainShares
  <2>6. CASE caller' = [caller EXCEPT ![p] = Idle] BY <2>4, <2>6 DEF Idle
  <2>7. CASE Disconnect(p, i)
    <3> DEFINE d == [Idle EXCEPT !.pc = "disconnect", !.op = "disconnect", !.id = i, !.target = clients[i]]
    <3>1. d.pc = "disconnect" /\ caller' = [caller EXCEPT ![p] = d] BY <2>7 DEF Disconnect, Idle
    <3> HIDE DEF d
    <3> QED BY <2>4, <3>1
  <2>8. CASE Publish(p, ids, b)
    <3> PICK e : caller' = [caller EXCEPT ![p] = [Idle EXCEPT !.pc = "handle", !.op = "publish", !.todo = ids, !.event = e]]
      BY <2>8 DEF Publish
    <3> DEFINE d == [Idle EXCEPT !.pc = "handle", !.op = "publish", !.todo = ids, !.event = e]
    <3>1. d.pc = "handle" /\ caller' = [caller EXCEPT ![p] = d] BY DEF Idle
    <3> HIDE DEF d
    <3> QED BY <2>4, <3>1
  <2>9. CASE ReplayMissedEvents(p, i, b)
    <3> DEFINE d == [Idle EXCEPT !.pc = "replayWait", !.op = "replay", !.id = i, !.replay = TRUE, !.cursor = b]
    <3>1. d.pc = "replayWait" /\ caller' = [caller EXCEPT ![p] = d] BY <2>9 DEF ReplayMissedEvents, Idle
    <3> HIDE DEF d
    <3> QED BY <2>4, <3>1
  <2>10. CASE ReplayEnter(p)
    <3> DEFINE d == [c EXCEPT !.pc = "replay", !.fresh = clients[c.id]]
    <3>1. d.op = "replay" BY <2>1, <2>10 DEF ReplayEnter, IsCaller, CallerAt
    <3>2. caller' = [caller EXCEPT ![p] = d] \/ caller' = [caller EXCEPT ![p] = Idle]
      BY <2>10 DEF ReplayEnter, Enter, Return
    <3> HIDE DEF d
    <3> QED BY <2>5, <2>6, <3>1, <3>2
  <2>11. ASSUME caller' = [caller EXCEPT ![p] = Handled(c, i)] PROVE Sharing' BY <2>4, <2>11, HandledLight
  <2>12. CASE HandleClient(p, i)
    <3>1. CASE ~IsActive(clients[i]) BY <2>11, <2>12, <3>1 DEF HandleClient
    <3>2. CASE IsActive(clients[i])
      <4> PICK pc, e : caller' = [caller EXCEPT ![p] = [c EXCEPT !.pc = pc, !.id = i, !.target = clients[i], !.event = e]]
        BY <2>12, <3>2 DEF HandleClient
      <4> DEFINE d == [c EXCEPT !.pc = pc, !.id = i, !.target = clients[i], !.event = e]
      <4>1. d.op = "publish" /\ caller' = [caller EXCEPT ![p] = d]
        BY <2>1, <2>12 DEF HandleClient, IsCaller, CallerAt
      <4> HIDE DEF d
      <4> QED BY <2>5, <4>1
    <3> QED BY <3>1, <3>2
  <2>13. CASE HandleFails(p) BY <2>6, <2>13 DEF HandleFails
  <2>14. CASE SkipClient(p, i) BY <2>11, <2>14 DEF SkipClient
  <2> QED BY <2>7, <2>8, <2>9, <2>10, <2>12, <2>13, <2>14
(* A call takes the lock of an ID to retire its client: no registration is  *)
(* about to replace it.                                                     *)
<1>RetireShares.
  ASSUME NEW p \in Actors, NEW i \in ClientIDs, NEW d, lifecycle[i] = Nobody,
         d.target = clients[i], caller' = [caller EXCEPT ![p] = d], ~PreInstall(caller[p]), ~PreInstall(d),
         \A j \in ClientIDs : clients'[j] \in {clients[j], NoClient}, UNCHANGED <<client, created, closing>>
  PROVE  Sharing'
  <2> USE <1>RetireShares
  <2>1. caller'[p] = d /\ \A q \in Actors : q # p => caller'[q] = caller[q] BY Mine
  <2>2. Lasting /\ Objs' = Objs BY LastingNone DEF Objs
  <2>3. \A q \in Actors : PreInstall(caller'[q]) => PreInstall(caller[q]) /\ caller'[q].fresh = caller[q].fresh
    BY <2>1
  <2>4. ASSUME closing' = Open, NEW g \in Objs, NEW h \in Objs, SharedBy(g, h) PROVE OutOfUse(g, h)'
    <3>1. OutOfUse(g, h) BY <2>4 DEF Sharing, OnlyNewestUsed
    <3>2. g # NoClient /\ client[g].id \in ClientIDs BY ObjsClients, SMT DEF Client, NoClient, TInv, Identified
    <3>3. ASSUME clients'[client'[g].id] = g PROVE \E q \in Actors : Replaces(caller'[q], g, h)
      <4>1. clients[client[g].id] = g BY <3>2, <3>3
      <4>2. PICK q \in Actors : Replaces(caller[q], g, h) BY <3>1, <4>1 DEF OutOfUse
      <4>3. q # p BY <4>2 DEF Replaces
      <4> QED BY <2>1, <4>2, <4>3
    <3>4. g # clients[i]
      <4>1. SUFFICES ASSUME g = clients[i] PROVE FALSE OBVIOUS
      <4>2. client[g].id = i BY <3>2, <4>1 DEF SInv, IDSafe
      <4>3. PICK q \in Actors : Replaces(caller[q], g, h) BY <3>1, <4>1, <4>2 DEF OutOfUse
      <4>4. lifecycle[i] = q BY <4>2, <4>3, Replacing DEF Replaces
      <4> QED BY <4>4, Goroutines
    <3>5. \A q \in Actors : caller'[q].target = g => ~Retires(caller'[q])
      BY <2>1, <3>1, <3>4 DEF OutOfUse
    <3> QED BY <3>3, <3>5 DEF OutOfUse, Replaces, PreInstall, Retires, Holding
  <2> QED BY <2>2, <2>3, <2>4, <1>SharingGoesOn
<1>DisconnectShares. ASSUME NEW p \in Actors, DisconnectLocked(p) PROVE Sharing'
  <2> USE <1>DisconnectShares
  <2> DEFINE c == caller[p]
             d == [c EXCEPT !.pc = "retire"]
  <2> PICK i : i = c.id OBVIOUS
  <2>1. /\ IsCaller(c) /\ CallerAt(c) /\ c.pc = "disconnect" /\ lifecycle[i] = Nobody
        /\ UNCHANGED <<client, created, clients, closing>>
    BY DEF DisconnectLocked, TInv, Calling, registration, delivery, counters
  <2>2. i \in ClientIDs /\ c.op = "disconnect" /\ ~PreInstall(c) BY <2>1 DEF CallerAt, PreInstall
  <2>3. CASE clients[i] = c.target
    <3>1. caller' = [caller EXCEPT ![p] = d] BY <2>3 DEF DisconnectLocked, Enter
    <3>2. d.target = clients[i] /\ d.op = "disconnect" BY <2>1, <2>2, <2>3 DEF IsCaller
    <3> HIDE DEF d
    <3>3. ~PreInstall(d) BY <3>2 DEF PreInstall
    <3>4. \A j \in ClientIDs : clients'[j] \in {clients[j], NoClient} BY <2>1
    <3> QED BY <2>1, <2>2, <3>1, <3>2, <3>3, <3>4, <1>RetireShares
  <2>4. CASE clients[i] # c.target
    <3>1. caller' = [caller EXCEPT ![p] = Idle] BY <2>4 DEF DisconnectLocked, Return
    <3>2. ~PreInstall(Idle) /\ ~Retires(Idle) BY DEF PreInstall, Retires, Idle
    <3>3. Lasting /\ Objs' = Objs BY <2>1, LastingNone DEF Objs
    <3> QED BY <2>1, <2>2, <3>1, <3>2, <3>3, <1>PlainShares
  <2> QED BY <2>3, <2>4
<1>UnregisterShares.
  ASSUME NEW p \in Actors, NEW i \in ClientIDs, Unregister(p, i),
         caller[p].pc \in {"idle", "spawned"}
  PROVE  Sharing'
  <2> USE <1>UnregisterShares
  <2> DEFINE d == [Idle EXCEPT !.pc = "removeSend", !.op = "unregister", !.id = i, !.target = clients[i]]
  <2>1. /\ caller' = [caller EXCEPT ![p] = d] /\ clients' = [clients EXCEPT ![i] = NoClient] /\ lifecycle[i] = Nobody
        /\ UNCHANGED <<client, created, closing>>
    BY DEF Unregister, Enter, delivery, counters
  <2>2. d.op = "unregister" /\ d.target = clients[i] BY DEF Idle
  <2> HIDE DEF d
  <2>3. ~PreInstall(caller[p]) /\ ~PreInstall(d) BY <2>2 DEF PreInstall
  <2>4. \A j \in ClientIDs : clients'[j] \in {clients[j], NoClient} BY <2>1 DEF TInv, Registered
  <2> QED BY <2>1, <2>2, <2>3, <2>4, <1>RetireShares
<1>RemovalShares. ASSUME NEW g \in Client, Removal(g) PROVE Sharing'
  <2> USE <1>RemovalShares
  <2>1. g \in Actors /\ caller[g].pc = "spawned" /\ client[g].id \in ClientIDs
    BY DEF Removal, Actors, SInv, SafeAt, TInv, Identified
  <2>2. CASE clients[client[g].id] = g
    <3>1. Unregister(g, client[g].id) BY <2>2 DEF Removal, RemoveExhausted
    <3> QED BY <2>1, <3>1, <1>UnregisterShares
  <2>3. CASE clients[client[g].id] # g
    <3>1. /\ caller' = [caller EXCEPT ![g] = Idle]
          /\ UNCHANGED <<client, created, clients, closing>>
      BY <2>3 DEF Removal, RemoveExhausted, Return, registration, delivery, counters
    <3>2. Lasting /\ Objs' = Objs BY <3>1, LastingNone DEF Objs
    <3>3. ~PreInstall(caller[g]) /\ ~PreInstall(Idle) /\ ~Retires(Idle) BY <2>1 DEF PreInstall, Retires, Idle
    <3> QED BY <2>1, <3>1, <3>2, <3>3, <1>PlainShares
  <2> QED BY <2>2, <2>3
(* The installed client is the newest with its connection. *)
<1>InstallShares. ASSUME NEW p \in Actors, Install(p) PROVE Sharing'
  <2> USE <1>InstallShares
  <2> DEFINE c == caller[p]
  <2> PICK f : f = c.fresh OBVIOUS
  <2> PICK i : i = c.id OBVIOUS
  <2>1. IsCaller(c) /\ CallerAt(c) /\ SafeAt(p, c) /\ c.pc = "install" BY DEF Install, TInv, Calling, SInv
  <2>2. c.op = "register" /\ PreInstall(c) /\ i \in ClientIDs /\ f \in Objs
    BY <2>1, Referred DEF CallerAt, PreInstall
  <2>3. Lasting /\ Objs' = Objs /\ UNCHANGED closing BY LastingCalls DEF Install, delivery
  <2>4. /\ ~PreInstall(caller'[p]) /\ ~Retires(caller'[p]) /\ \A q \in Actors : q # p => caller'[q] = caller[q]
    <3>1. ASSUME NEW d, caller' = [caller EXCEPT ![p] = d], d.pc = "idle" \/ (d.pc = "replay" /\ d.op = "register")
          PROVE  /\ ~PreInstall(caller'[p]) /\ ~Retires(caller'[p])
                 /\ \A q \in Actors : q # p => caller'[q] = caller[q]
      <4>1. caller'[p] = d /\ \A q \in Actors : q # p => caller'[q] = caller[q] BY <3>1, Mine
      <4>2. ~PreInstall(d) /\ ~Retires(d) BY <3>1 DEF PreInstall, Retires, Holding
      <4> QED BY <4>1, <4>2
    <3>2. CASE Return(p) BY <3>1, <3>2 DEF Return, Idle
    <3>3. CASE Goto(p, "replay")
      <4> DEFINE d == [c EXCEPT !.pc = "replay"]
      <4>1. d.pc = "replay" /\ d.op = "register" /\ caller' = [caller EXCEPT ![p] = d]
        BY <2>1, <2>2, <3>3 DEF IsCaller, Goto
      <4> HIDE DEF d
      <4> QED BY <3>1, <4>1
    <3> QED BY <3>2, <3>3 DEF Install, GotoOrReturn
  <2>5. ASSUME closing' = Open, NEW g \in Objs, NEW h \in Objs, SharedBy(g, h) PROVE OutOfUse(g, h)'
    <3>1. OutOfUse(g, h) BY <2>3, <2>5 DEF Sharing, OnlyNewestUsed
    <3>2. clients' = [clients EXCEPT ![i] = f]
      <4>1. ~ClosedMeanwhile BY <2>3, <2>5, SMT DEF ClosedMeanwhile, Open, BusClosed
      <4> QED BY <4>1 DEF Install
    <3>3. g # f BY <2>2, <2>5 DEF Sharing, FreshNewest, FreshIsNewest
    <3>4. client'[g].id = client[g].id /\ client[g].id \in ClientIDs BY <2>3 DEF Lasting, Lasts, Grown, TInv, Identified
    <3>5. ASSUME clients'[client'[g].id] = g PROVE \E q \in Actors : Replaces(caller'[q], g, h)
      <4>1. client[g].id # i /\ clients[client[g].id] = g BY <2>2, <3>2, <3>3, <3>4, <3>5 DEF TInv, Registered
      <4>2. PICK q \in Actors : Replaces(caller[q], g, h) BY <3>1, <4>1 DEF OutOfUse
      <4>3. caller[q].id = client[g].id BY <4>2, Replacing DEF Replaces
      <4>4. q # p BY <4>1, <4>3
      <4> QED BY <2>4, <4>2, <4>4
    <3>6. \A q \in Actors : caller'[q].target = g => ~Retires(caller'[q]) BY <2>4, <3>1 DEF OutOfUse
    <3> QED BY <3>5, <3>6 DEF OutOfUse, Replaces, PreInstall, Retires, Holding
  <2>6. \A q \in Actors : PreInstall(caller'[q]) => PreInstall(caller[q]) /\ caller'[q].fresh = caller[q].fresh
    BY <2>4
  <2> QED BY <2>3, <2>5, <2>6, <1>SharingGoesOn
(* A registration with the connection in use shares it with the client it   *)
(* replaces, and has the lock of its ID.                                    *)
<1>RegisterShares.
  ASSUME NEW p \in Callers, NEW i \in ClientIDs, NEW complete, NEW replay, NEW cursor,
         NEW k \in Connections(i), Register(p, i, complete, replay, cursor, k)
  PROVE  Sharing'
  <2> USE <1>RegisterShares
  <2> PICK f : f = created + 1 OBVIOUS
  <2> PICK t : t = clients[i] OBVIOUS
  <2> DEFINE d == [Idle EXCEPT !.pc = IF clients[i] = NoClient THEN "install" ELSE "retire",
                               !.op = "register", !.id = i, !.target = clients[i],
                               !.fresh = f, !.replay = replay, !.cursor = cursor]
  <2>1. /\ caller[p].pc = "idle" /\ caller' = [caller EXCEPT ![p] = d] /\ UNCHANGED <<clients, closing>>
        /\ created' = f /\ client' = [client EXCEPT ![f] = NewClient(i, complete, k)] /\ lifecycle[i] = Nobody
    BY DEF Register, Enter, registration, delivery
  <2>2. d.op = "register" /\ d.pc \in {"install", "retire"} /\ d.fresh = f /\ d.target = t BY DEF Idle
  <2> HIDE DEF d
  <2>3. PreInstall(d) /\ ~Retires(d) /\ ~PreInstall(caller[p]) BY <2>1, <2>2 DEF PreInstall, Retires
  <2>4. p \in Actors /\ caller'[p] = d /\ \A q \in Actors : q # p => caller'[q] = caller[q]
    BY <2>1, Mine DEF Actors
  <2>5. /\ Objs' = Objs \cup {f} /\ f \notin Objs /\ (\A h \in Objs : h < f) /\ f \in Client
        /\ \A h \in Objs' : ~(f < h)
    <3>1. created < options.registrations BY DEF Register
    <3> QED BY <2>1, <3>1, Options, BoundAssumption, SMT DEF TInv, Fixed, Objs, Client
  <2>6. \A h \in Objs : client'[h] = client[h]
    <3>1. \A h \in Objs : h \in Client /\ h # f BY <2>5, ObjsClients
    <3> QED BY <2>1, <3>1 DEF TInv, Identified
  <2>7. client'[f].id = i /\ client'[f].connection = k
    <3> DEFINE r == NewClient(i, complete, k)
    <3>1. r.id = i /\ r.connection = k BY DEF NewClient
    <3>2. client' = [client EXCEPT ![f] = r] BY <2>1
    <3> HIDE DEF r
    <3>3. client'[f] = r BY <2>5, <3>2 DEF TInv, Identified
    <3> QED BY <3>1, <3>3
  <2>8. t # NoClient => t \in Objs /\ client[t].id = i BY RegisteredObjs DEF SInv, IDSafe
  <2>9. k = f \/ (t # NoClient /\ k = client[t].connection)
    <3>1. CASE "reuse" \in Calls /\ clients[i] # NoClient BY <3>1 DEF Connections
    <3>2. CASE ~("reuse" \in Calls /\ clients[i] # NoClient) BY <3>2 DEF Connections
    <3> QED BY <3>1, <3>2
  <2>10. \A h \in Objs : client[h].connection \in Nat /\ client[h].connection <= h
    <3>1. ASSUME NEW h \in Objs PROVE client[h].connection \in Client
      <4>1. client[h] \in ClientType BY ObjsClients DEF TInv, Identified
      <4> QED BY <4>1 DEF ClientType
    <3> QED BY <3>1, SMT DEF Sharing, OwnOrOlder, Client
  <2>11. k <= f
    <3>1. CASE k = f BY <2>5, <3>1, SMT DEF Client
    <3>2. CASE t # NoClient /\ k = client[t].connection
      <4>1. t \in Objs /\ k \in Nat /\ k <= t /\ t < f BY <2>5, <2>8, <2>10, <3>2
      <4> QED BY <2>5, <4>1, SMT DEF Client, Objs
    <3> QED BY <2>9, <3>1, <3>2
  <2>12. OwnOrOlder'
    <3>1. \A g \in Objs : client'[g].connection <= g BY <2>6, <2>10
    <3> QED BY <2>5, <2>7, <2>11, <3>1 DEF OwnOrOlder
  (* Who shares the new client's connection has its ID. *)
  <2>13. ASSUME NEW g \in Objs, client[g].connection = k PROVE client[g].id = i
    <3>1. k # f
      <4>1. k \in Nat /\ k <= g /\ g < f BY <2>5, <2>10, <2>13
      <4> QED BY <2>5, <4>1, SMT DEF Client, Objs
    <3>2. t \in Objs /\ client[t].id = i /\ client[t].connection = client[g].connection
      BY <2>8, <2>9, <2>13, <3>1
    <3>3. g = t \/ g < t \/ t < g BY <3>2, SMT DEF Objs
    <3>4. g = t \/ SharedBy(g, t) \/ SharedBy(t, g) BY <3>2, <3>3 DEF SharedBy
    <3> QED BY <3>2, <3>4 DEF Sharing, SharedByID
  <2>14. \A g \in Objs, h \in Objs : SharedBy(g, h)' <=> SharedBy(g, h) BY <2>6 DEF SharedBy
  <2>15. \A h \in Objs' : ~SharedBy(f, h)' BY <2>5 DEF SharedBy
  <2>16. ASSUME NEW g \in Objs, SharedBy(g, f)' PROVE client[g].id = i
    BY <2>6, <2>7, <2>13, <2>16 DEF SharedBy
  <2>17. SharedByID'
    <3>1. ASSUME NEW g \in Objs', NEW h \in Objs', SharedBy(g, h)' PROVE client'[g].id = client'[h].id
      <4>1. g \in Objs BY <2>5, <2>15, <3>1
      <4>2. CASE h \in Objs
        <5>1. SharedBy(g, h) BY <2>14, <3>1, <4>1, <4>2
        <5>2. client[g].id = client[h].id BY <4>1, <4>2, <5>1 DEF Sharing, SharedByID
        <5> QED BY <2>6, <4>1, <4>2, <5>2
      <4>3. CASE h = f BY <2>6, <2>7, <2>16, <3>1, <4>1, <4>3
      <4> QED BY <2>5, <4>2, <4>3
    <3> QED BY <3>1 DEF SharedByID
  <2>18. ASSUME NEW q \in Actors, Holding(caller[q]) PROVE caller[q].id # i
    <3>1. lifecycle[caller[q].id] = q BY <2>18 DEF SInv, SafeAt
    <3> QED BY <2>1, <3>1, Goroutines
  <2>19. ASSUME NEW q \in Actors PROVE FreshIsNewest(caller[q])'
    <3>1. CASE q = p
      <4>1. caller'[q].fresh = f BY <2>2, <2>4, <3>1
      <4> QED BY <2>15, <4>1 DEF FreshIsNewest, SharedBy, PreInstall
    <3>2. CASE q # p
      <4> PICK x : x = caller[q].fresh OBVIOUS
      <4>1. caller'[q] = caller[q] BY <2>4, <3>2
      <4>2. ASSUME PreInstall(caller[q]), NEW h \in Objs' PROVE ~SharedBy(x, h)'
        <5>1. x \in Objs /\ client[x].id = caller[q].id BY <4>2, Referred DEF SInv, SafeAt
        <5>2. CASE h \in Objs
          <6>1. ~SharedBy(x, h) BY <4>2, <5>2 DEF Sharing, FreshNewest, FreshIsNewest
          <6> QED BY <2>14, <5>1, <5>2, <6>1
        <5>3. CASE h = f
          <6>1. client[x].id # i BY <2>18, <4>2, <5>1 DEF PreInstall, Holding
          <6> QED BY <2>16, <5>1, <5>3, <6>1
        <5> QED BY <2>5, <5>2, <5>3
      <4> QED BY <4>1, <4>2 DEF FreshIsNewest, SharedBy, PreInstall
    <3> QED BY <3>1, <3>2
  <2>20. ASSUME closing' = Open, NEW g \in Objs', NEW h \in Objs', SharedBy(g, h)' PROVE OutOfUse(g, h)'
    <3>1. g \in Objs /\ client'[g].id = client[g].id BY <2>5, <2>6, <2>15, <2>20
    <3>2. /\ clients'[client'[g].id] = g => \E q \in Actors : Replaces(caller'[q], g, h)
          /\ \A q \in Actors : caller'[q].target = g => ~Retires(caller'[q])
      <4>1. CASE h \in Objs
        <5>1. OutOfUse(g, h) BY <2>1, <2>14, <2>20, <3>1, <4>1 DEF Sharing, OnlyNewestUsed
        <5>2. ASSUME NEW q \in Actors, Replaces(caller[q], g, h) PROVE Replaces(caller'[q], g, h)
          BY <2>3, <2>4, <5>2 DEF Replaces
        <5>3. clients'[client'[g].id] = g => \E q \in Actors : Replaces(caller'[q], g, h)
          BY <2>1, <3>1, <5>1, <5>2 DEF OutOfUse
        <5>4. \A q \in Actors : caller'[q].target = g => ~Retires(caller'[q]) BY <2>3, <2>4, <5>1 DEF OutOfUse
        <5> QED BY <5>3, <5>4
      <4>2. CASE h = f
        <5>1. client[g].id = i BY <2>16, <2>20, <3>1, <4>2
        <5>2. clients'[client'[g].id] = g => Replaces(caller'[p], g, h)
          BY <2>1, <2>2, <2>3, <2>4, <3>1, <4>2, <5>1 DEF Replaces
        <5>3. ASSUME NEW q \in Actors, caller'[q].target = g PROVE ~Retires(caller'[q])
          <6>1. CASE q = p BY <2>3, <2>4, <6>1
          <6>2. CASE q # p
            <7>1. caller'[q] = caller[q] BY <2>4, <6>2
            <7>2. SafeAt(q, caller[q]) /\ caller[q].target = g BY <5>3, <7>1 DEF SInv
            <7>3. Retires(caller[q]) => client[g].id = caller[q].id BY <7>2 DEF Retires, SafeAt
            <7> QED BY <2>18, <5>1, <7>1, <7>3 DEF Retires
          <6> QED BY <6>1, <6>2
        <5> QED BY <2>4, <5>2, <5>3
      <4> QED BY <2>5, <4>1, <4>2
    <3> QED BY <3>2 DEF OutOfUse, Replaces, PreInstall, Retires, Holding
  <2> QED BY <2>12, <2>17, <2>19, <2>20 DEF Sharing, FreshNewest, OnlyNewestUsed
<1>QuietShares.
  ASSUME Lasting, Objs' = Objs, UNCHANGED <<clients, caller>>, closing' = Open => closing = Open
  PROVE  Sharing'
  <2> USE <1>QuietShares
  <2>1. \A q \in Actors : PlaceKept(caller[q], caller'[q]) BY DEF PlaceKept
  <2> QED BY <2>1, <1>SharingKept
<1>WorkerShares. ASSUME NEW w \in Workers, WorkerStep(w) PROVE Sharing'
  <2> USE <1>WorkerShares
  <2>1. Lasting /\ Objs' = Objs BY LastingWorkers
  <2>2. UNCHANGED <<clients, closing>>
    BY DEF WorkerStep, Pop, PopClosed, WaitForTurn, Attempt, SendBegin, SendEnd, AfterFailure, Exhaust,
       Schedule, RetryDue, others, calls
  <2>3. CASE UNCHANGED caller BY <2>1, <2>2, <2>3, <1>QuietShares
  <2>4. CASE Exhaust(w) /\ IsActive(worker[w].event.client)
    <3> PICK g : g = worker[w].event.client OBVIOUS
    <3> DEFINE d == [Idle EXCEPT !.pc = "spawned", !.op = "unregister", !.id = client[g].id]
    <3>1. g \in Objs /\ g \in Client /\ g \in Actors
      BY <2>4, AnObject DEF Exhaust, TInv, Working, WorkerAt, Made, Actors
    <3>2. caller[g].pc = "idle" BY <2>4, <3>1 DEF SInv, SafeAt, IsActive
    <3>3. caller' = [caller EXCEPT ![g] = d] BY <2>4 DEF Exhaust, Spawn
    <3>4. d.pc = "spawned" BY DEF Idle
    <3> HIDE DEF d
    <3>5. ~PreInstall(caller[g]) /\ ~PreInstall(d) /\ ~Retires(d)
      BY <3>2, <3>4 DEF PreInstall, Retires, Holding
    <3> QED BY <2>1, <2>2, <3>1, <3>3, <3>5, <1>PlainShares
  <2>5. CASE Exhaust(w) /\ ~IsActive(worker[w].event.client) BY <2>3, <2>5 DEF Exhaust
  <2>6. CASE ~Exhaust(w)
    BY <2>3, <2>6 DEF WorkerStep, Pop, PopClosed, WaitForTurn, Attempt, SendBegin, SendEnd, AfterFailure,
       Schedule, RetryDue, others
  <2> QED BY <2>4, <2>5, <2>6
<1>ShutdownShares. ASSUME ShutdownStep \/ CloseStep PROVE Sharing'
  <2> USE <1>ShutdownShares
  <2>1. Lasting /\ Objs' = Objs BY LastingShutdown
  <2>2. UNCHANGED <<clients, caller>>
    BY DEF ShutdownStep, CloseStep, Drain, FlushNext, FlushSend, FlushSent, RetireAll, RetireNext, RetireClose,
       FinishShutdown, background, calls
  <2>3. closing' = Open => closing = Open
    <3>1. CASE CloseStep BY <3>1, SMT DEF CloseStep, TInv, Fixed, Open, ShutdownDone
    <3>2. CASE closing' \in {Flushing, Retiring, ShutdownDone} BY <3>2, SMT DEF Flushing, Retiring, ShutdownDone, Open
    <3>3. CASE ~CloseStep
      <4>1. closing' = closing \/ closing' \in {Flushing, Retiring, ShutdownDone}
        BY <3>3 DEF ShutdownStep, Drain, FlushNext, FlushSend, FlushSent, RetireAll, RetireNext, RetireClose,
           FinishShutdown
      <4> QED BY <3>2, <4>1
    <3> QED BY <3>1, <3>3
  <2> QED BY <2>1, <2>2, <2>3, <1>QuietShares
<1> SUFFICES ASSUME [Next]_vars PROVE Sharing' OBVIOUS
<1>1. ASSUME UNCHANGED <<client, created, caller, clients, closing>> PROVE Sharing'
  <2>1. Lasting /\ Objs' = Objs BY <1>1, LastingNone DEF Objs
  <2> QED BY <1>1, <2>1, <1>QuietShares
<1>2. CASE UNCHANGED vars BY <1>1, <1>2 DEF vars, counters
<1>3. ASSUME NEW p \in Callers, StartCall(p) \/ TakeLock(p) \/ PushFails(p) \/ HandleFails(p) PROVE Sharing'
  <2>1. p \in Actors BY DEF Actors
  <2>2. ASSUME NEW i \in ClientIDs, UnregisterCall(p, i) PROVE Sharing'
    BY <2>1, <2>2, <1>UnregisterShares DEF UnregisterCall
  <2>3. CASE StartCall(p) BY <2>1, <2>2, <2>3, <1>RegisterShares, <1>StartsShare DEF StartCall
  <2>4. CASE TakeLock(p) BY <2>1, <2>4, <1>DisconnectShares, <1>StartsShare DEF TakeLock
  <2> QED BY <1>3, <2>1, <2>3, <2>4, <1>PushShares, <1>StartsShare
<1>4. ASSUME NEW p \in Actors, ContinueCall(p) PROVE Sharing'
  BY <1>4, <1>RemoveShares, <1>InstallShares, <1>PushShares, <1>StartsShare DEF ContinueCall
<1>5. ASSUME NEW g \in Client, Removal(g) PROVE Sharing' BY <1>5, <1>RemovalShares
<1>6. ASSUME NEW i \in ClientIDs, SetSubscribed(subs \cup {i}) \/ SetSubscribed(subs \ {i}) PROVE Sharing'
  BY <1>1, <1>6 DEF SetSubscribed, delivery, counters
<1>7. ASSUME NEW w \in Workers, WorkerStep(w) PROVE Sharing' BY <1>7, <1>WorkerShares
<1>8. CASE SchedulerStep
  BY <1>1, <1>8 DEF SchedulerStep, PopDue, PushRetry, SchedulerReturns, others, calls, counters
<1>9. CASE ShutdownStep \/ CloseStep BY <1>9, <1>ShutdownShares
<1> QED BY <1>2, <1>3, <1>4, <1>5, <1>6, <1>7, <1>8, <1>9 DEF Next, Rest, Actors

(* Who closes a connection, while the bus is open and nobody is sending to  *)
(* it.                                                                      *)
LEMMA ClosesOne ==
  ASSUME TInv, NEW h \in Client, NEW r, client' = [client EXCEPT ![h] = r], NEW g \in Client,
         client'[g].connectionClosed, ~client[g].connectionClosed
  PROVE  g = h /\ r.connectionClosed /\ ~client[h].connectionClosed
  BY ObjectChanged

LEMMA SendClosesNone ==
  ASSUME TInv, NEW e, NEW m, e.client \in Known, BeginSend(e.client, m) \/ \E o : EndSend(e, o), NEW g \in Client,
         client'[g].connectionClosed, ~client[g].connectionClosed
  PROVE  g = e.client /\ ~BeginSend(e.client, m)
<1> PICK h \in Client : h = e.client BY AnObject DEF TInv
<1>1. client[h] \in ClientType BY DEF TInv, Identified
<1>2. ~BeginSend(h, m)
  <2> SUFFICES ASSUME BeginSend(h, m) PROVE FALSE OBVIOUS
  <2> DEFINE r == [client[h] EXCEPT !.mu = m]
  <2>1. client' = [client EXCEPT ![h] = r] BY DEF BeginSend
  <2>2. r.connectionClosed = client[h].connectionClosed BY <1>1 DEF ClientType
  <2> HIDE DEF r
  <2> QED BY <2>1, <2>2, ClosesOne
<1>3. PICK o : EndSend(e, o) BY <1>2
<1> DEFINE ends == EndsConnection(h, o)
           r == [client[h] EXCEPT !.mu = Nobody, !.inactive = @ \/ ends, !.connectionClosed = @ \/ ends]
<1>4. client' = [client EXCEPT ![h] = r] BY <1>3 DEF EndSend
<1> HIDE DEF r
<1>5. g = h BY <1>4, ClosesOne
<1> QED BY <1>2, <1>5

LEMMA WhoCloses ==
  ASSUME TInv, SInv, [Next]_vars, closing = Open, NEW g \in Client, MuFree(g), ~client[g].connectionClosed,
         client'[g].connectionClosed
  PROVE  \E p \in Actors : caller[p].pc = "close" /\ caller[p].target = g /\ ~KeepsConnection(caller[p])
<1> SUFFICES ASSUME \A p \in Actors :
                      (caller[p].pc = "close" /\ caller[p].target = g) => KeepsConnection(caller[p])
             PROVE  FALSE
  OBVIOUS
<1>1. CASE UNCHANGED client BY <1>1
<1>2. ASSUME NEW h \in Client, NEW r, client' = [client EXCEPT ![h] = r], r.connectionClosed = client[h].connectionClosed
      PROVE  FALSE
  BY <1>2, ClosesOne
<1>3. ASSUME NEW h \in Client PROVE client[h] \in ClientType BY <1>3 DEF TInv, Identified
<1>4. ASSUME NEW p \in Callers, NEW i \in ClientIDs, NEW complete, NEW replay, NEW cursor, NEW k,
             Register(p, i, complete, replay, cursor, k)
      PROVE  FALSE
  <2> PICK f : f = created + 1 OBVIOUS
  <2> DEFINE r == NewClient(i, complete, k)
  <2>1. client' = [client EXCEPT ![f] = r] /\ created < options.registrations BY <1>4 DEF Register
  <2>2. f \in Client BY <2>1, Options, BoundAssumption, SMT DEF TInv, Fixed, Client
  <2>3. ~r.connectionClosed BY DEF NewClient
  <2> HIDE DEF r
  <2> QED BY <2>1, <2>2, <2>3, ClosesOne
<1>5. ASSUME NEW p \in Actors, SetInactive(p) PROVE FALSE
  <2> PICK h : h = caller[p].target OBVIOUS
  <2> DEFINE r == [client[h] EXCEPT !.inactive = TRUE]
  <2>1. h \in Client /\ client' = [client EXCEPT ![h] = r] BY <1>5, Referred DEF SetInactive
  <2>2. client[h] \in ClientType BY <1>3, <2>1
  <2>3. r.connectionClosed = client[h].connectionClosed BY <2>2 DEF ClientType
  <2> HIDE DEF r
  <2> QED BY <1>2, <2>1, <2>3
<1>6. ASSUME NEW p \in Actors, CloseConnection(p) PROVE FALSE
  <2> PICK h : h = caller[p].target OBVIOUS
  <2> DEFINE r == [client[h] EXCEPT !.connectionClosed = @ \/ ~KeepsConnection(caller[p])]
  <2>1. h \in Client /\ caller[p].pc = "close" /\ client' = [client EXCEPT ![h] = r]
    BY <1>6, Referred DEF CloseConnection
  <2>2. client[h] \in ClientType BY <1>3, <2>1
  <2>3. r.connectionClosed = (client[h].connectionClosed \/ ~KeepsConnection(caller[p])) BY <2>2 DEF ClientType
  <2> HIDE DEF r
  <2>4. g = h /\ r.connectionClosed /\ ~client[h].connectionClosed BY <2>1, ClosesOne
  <2> QED BY <2>1, <2>3, <2>4
<1>7. ASSUME NEW p \in Actors, Install(p) PROVE FALSE
  <2>1. ~ClosedMeanwhile BY SMT DEF ClosedMeanwhile, Open, BusClosed
  <2> QED BY <1>1, <1>7, <2>1 DEF Install
<1>8. ASSUME NEW p \in Actors, ReplayLocked(p) PROVE FALSE
  <2> PICK h : h = caller[p].fresh OBVIOUS
  <2> DEFINE r == [client[h] EXCEPT !.generation = NextGeneration(@)]
  <2>1. h \in Client /\ (client' = [client EXCEPT ![h] = r] \/ UNCHANGED client)
    BY <1>8, Referred DEF ReplayLocked
  <2>2. client[h] \in ClientType BY <1>3, <2>1
  <2>3. r.connectionClosed = client[h].connectionClosed BY <2>2 DEF ClientType
  <2> HIDE DEF r
  <2> QED BY <1>1, <1>2, <2>1, <2>3
<1>9. ASSUME NEW p \in Actors, CallSend(p) \/ \E o : CallSent(p, o) PROVE FALSE
  <2> PICK e : e = caller[p].event OBVIOUS
  <2>1. e.client = caller[p].target /\ e.client \in Known
    BY <1>9, Referred DEF CallSend, CallSent, TInv, Calling, CallerAt
  <2>2. CASE CallSend(p)
    <3>1. BeginSend(e.client, p) \/ UNCHANGED client BY <2>1, <2>2 DEF CallSend
    <3> QED BY <1>1, <2>1, <3>1, SendClosesNone
  <2>3. CASE \E o : CallSent(p, o)
    <3>1. caller[p].pc = "sending" /\ \E o : EndSend(e, o) BY <2>3 DEF CallSent
    <3>2. client[e.client].mu = p BY <2>1, <3>1, ZenonT(60) DEF SInv, SafeAt
    <3>3. g = e.client BY <2>1, <3>1, SendClosesNone
    <3> QED BY <3>2, <3>3, Goroutines DEF MuFree
  <2> QED BY <1>9, <2>2, <2>3
<1>10. ASSUME NEW w \in Workers, SendBegin(w) \/ \E o : SendEnd(w, o) PROVE FALSE
  <2> PICK e : e = worker[w].event OBVIOUS
  <2>1. e.client \in Known BY <1>10 DEF SendBegin, SendEnd, TInv, Working, WorkerAt, Made
  <2>2. CASE SendBegin(w)
    <3>1. BeginSend(e.client, w) \/ UNCHANGED client BY <2>2 DEF SendBegin
    <3> QED BY <1>1, <2>1, <3>1, SendClosesNone
  <2>3. CASE \E o : SendEnd(w, o)
    <3>1. worker[w].pc = "sending" /\ \E o : EndSend(e, o) BY <2>3 DEF SendEnd
    <3>2. client[e.client].mu = w BY <3>1 DEF SInv, Sending
    <3>3. g = e.client BY <2>1, <3>1, SendClosesNone
    <3> QED BY <3>2, <3>3, Goroutines DEF MuFree
  <2> QED BY <1>10, <2>2, <2>3
<1>11. ASSUME NEW w \in Workers, Exhaust(w) PROVE FALSE
  <2> PICK h : h = worker[w].event.client OBVIOUS
  <2> DEFINE r == [client[h] EXCEPT !.inactive = TRUE]
  <2>1. h \in Client /\ (client' = [client EXCEPT ![h] = r] \/ UNCHANGED client)
    BY <1>11, AnObject DEF Exhaust, TInv, Working, WorkerAt, Made
  <2>2. client[h] \in ClientType BY <1>3, <2>1
  <2>3. r.connectionClosed = client[h].connectionClosed BY <2>2 DEF ClientType
  <2> HIDE DEF r
  <2> QED BY <1>1, <1>2, <2>1, <2>3
<1>12. ASSUME NEW w \in Workers, WorkerStep(w) PROVE FALSE
  BY <1>1, <1>10, <1>11, <1>12 DEF WorkerStep, Pop, PopClosed, WaitForTurn, Attempt, AfterFailure, Schedule,
     RetryDue
<1>13. CASE ShutdownStep \/ CloseStep
  <2>1. Flushing # Open /\ Retiring # Open BY SMT DEF Flushing, Retiring, Open
  <2>2. closer.pc \notin {"send", "sending", "close"} BY <2>1 DEF SInv, CloserSafe
  <2> QED BY <1>1, <1>13, <2>1, <2>2 DEF ShutdownStep, CloseStep, Drain, FlushNext, FlushSend, FlushSent,
            RetireAll, RetireNext, RetireClose, FinishShutdown
<1>14. ASSUME NEW p \in Actors, ContinueCall(p) PROVE FALSE
  BY <1>1, <1>5, <1>6, <1>7, <1>8, <1>9, <1>14 DEF ContinueCall, RemoveFromSend, RemoveFromRetry, PushCall,
     PushFails, SkipClient, HandleFails, ReplayNext
<1>15. ASSUME NEW p \in Callers, StartCall(p) PROVE FALSE
  <2>1. ASSUME NEW i, NEW ids, NEW b, Disconnect(p, i) \/ UnregisterCall(p, i) \/ ReplayMissedEvents(p, i, b) \/ Publish(p, ids, b)
        PROVE  FALSE
    BY <1>1, <2>1 DEF Disconnect, UnregisterCall, Unregister, ReplayMissedEvents, Publish
  <2> QED BY <1>4, <1>15, <2>1 DEF StartCall
<1>16. ASSUME NEW p \in Callers, TakeLock(p) \/ PushFails(p) \/ HandleFails(p) PROVE FALSE
  BY <1>1, <1>16 DEF TakeLock, PushFails, HandleFails, DisconnectLocked, ReplayEnter, HandleClient
<1>17. ASSUME NEW h \in Client, Removal(h) PROVE FALSE
  BY <1>1, <1>17 DEF Removal, RemoveExhausted, Unregister
<1>18. ASSUME NEW ids, SetSubscribed(ids) PROVE FALSE BY <1>1, <1>18 DEF SetSubscribed
<1>19. CASE SchedulerStep BY <1>1, <1>19 DEF SchedulerStep, PopDue, PushRetry, SchedulerReturns
<1>20. CASE UNCHANGED vars BY <1>1, <1>20 DEF vars
<1> QED BY <1>12, <1>13, <1>14, <1>15, <1>16, <1>17, <1>18, <1>19, <1>20 DEF Next, Rest, Actors

(* Registering again with the connection in use does not close it           *)
(* (replaceWith, sameConnection): while the bus is open, the call that      *)
(* closes the connection of a client that is not being sent to belongs to   *)
(* the newest client object with that connection.                           *)
THEOREM ReusedStaysOpen == Spec => ReusedConnectionStaysOpen
<1>1. Init => Sharing
  <2> SUFFICES ASSUME Init PROVE Sharing OBVIOUS
  <2>1. created = 0 BY DEF Init
  <2>2. Objs = {} BY <2>1, SMT DEF Objs
  <2>3. \A p \in Actors : ~PreInstall(caller[p])
    BY IdleSafe DEF Init, Idle, PreInstall, Actors
  <2> QED BY <2>2, <2>3 DEF Sharing, OwnOrOlder, SharedByID, FreshNewest, FreshIsNewest, OnlyNewestUsed
<1>2. ASSUME TInv, SInv, Sharing, [Next]_vars, NEW g \in Client, closing = Open, MuFree(g),
             ~client[g].connectionClosed, client'[g].connectionClosed, NEW h \in g + 1 .. created,
             client[h].connection = client[g].connection
      PROVE  FALSE
  <2>1. PICK p \in Actors : caller[p].pc = "close" /\ caller[p].target = g /\ ~KeepsConnection(caller[p])
    BY <1>2, WhoCloses
  <2>2. g \in Objs /\ h \in Objs /\ g < h BY <1>2, SMT DEF Objs, Client, TInv, Fixed
  <2>3. SharedBy(g, h) BY <1>2, <2>2 DEF SharedBy
  <2>4. OutOfUse(g, h) BY <1>2, <2>2, <2>3 DEF Sharing, OnlyNewestUsed
  <2>5. caller[p].op = "register"
    <3>1. Holding(caller[p]) /\ caller[p].op \in {"register", "disconnect", "unregister"}
      BY <1>2, <2>1 DEF Holding, TInv, Calling, CallerAt
    <3> QED BY <2>1, <2>4, <3>1 DEF OutOfUse, Retires
  <2>6. PreInstall(caller[p]) BY <2>1, <2>5 DEF PreInstall
  <2>7. clients[client[g].id] = g /\ lifecycle[client[g].id] = p BY <1>2, <2>1, <2>2, <2>6, Replacing, SMT
  <2>8. PICK q \in Actors : Replaces(caller[q], g, h) BY <2>4, <2>7 DEF OutOfUse
  <2>9. q = p BY <1>2, <2>2, <2>7, <2>8, Replacing DEF Replaces
  <2>10. caller[p].fresh = h BY <2>8, <2>9 DEF Replaces
  <2> QED BY <1>2, <2>1, <2>5, <2>10 DEF KeepsConnection
<1>3. TInv /\ SInv /\ Sharing /\ [Next]_vars =>
        [\A g \in Client :
           (/\ closing = Open /\ MuFree(g)
            /\ ~client[g].connectionClosed /\ client'[g].connectionClosed) =>
              \A h \in g + 1 .. created : client[h].connection # client[g].connection]_vars
  BY <1>2
<1> QED BY <1>1, <1>3, Safe, SharingInvariant, PTL DEF Spec, ReusedConnectionStaysOpen
=============================================================================
