-------------------------- MODULE EventQueueProofs --------------------------
(***************************************************************************)
(* Proofs about the send queue of module EventQueue, for every number of   *)
(* producers, workers and clients and every capacity: the queue keeps its  *)
(* bound, no consumer misses a wake-up, and the events of one client are   *)
(* attempted one at a time in queue order, also when remove takes events   *)
(* out of the middle and shutdown drains the rest.                         *)
(***************************************************************************)
EXTENDS EventQueue, TurnOrderProofs, FiniteSetTheorems

(* A leaf is for Zenon unless it names another prover. *)
USE Zenon

(* Events F in flight agree with the tickets ts of the clients: the orders  *)
(* of a client's events are its live tickets, no two events share one, and  *)
(* tickets follow the order of arrival.  n events have arrived.             *)
Consistent(F, ts, n) ==
  /\ F \subseteq Event
  /\ \A c \in Clients : WellFormed(ts[c]) /\ OrdersOf(F, c) = Live(ts[c])
  /\ \A e \in F : e.at < n
  /\ \A e, f \in F : e.at = f.at => e = f
  /\ \A e, f \in F : (e.client = f.client /\ e.order = f.order) => e = f
  /\ \A e, f \in F : (e.client = f.client /\ e.order < f.order) => e.at < f.at

(* Every event is in one place: the queue, one worker, or the drained rest. *)
OnePlace ==
  /\ \A w, v \in Workers : (held[w] = held[v] /\ held[w] # NoEvent) => w = v
  /\ \A w \in Workers : held[w] \notin items \cup flush
  /\ items \cap flush = {}

(* Workers hold events that arrived before those still queued. *)
HeldFirst ==
  \A w \in Workers : held[w] # NoEvent => \A e \in items : held[w].at < e.at

(* The rest is drained after the workers have returned. *)
FlushLast == flush # {} => closed /\ items = {} /\ \A w \in Workers : worker[w] = "done"

(* A worker in an attempt has the turn. *)
SenderHasTurn ==
  \A w \in Workers : worker[w] = "send" => held[w].order = turns[held[w].client].nextTurn

IInv == /\ TypeOK /\ Consistent(InFlight, turns, arrivals)
        /\ OnePlace /\ HeldFirst /\ FlushLast /\ SenderHasTurn

-----------------------------------------------------------------------------
(* push: an event with the next ticket and the next arrival number. *)
LEMMA AppendConsistent ==
  ASSUME NEW F, NEW ts \in [Clients -> Turns], NEW n \in Nat, Consistent(F, ts, n),
         NEW c \in Clients, NEW e, e = [client |-> c, order |-> ts[c].nextOrder + 1, at |-> n]
  PROVE  Consistent(F \cup {e}, [ts EXCEPT ![c] = AssignOrder(ts[c])], n + 1)
<1> DEFINE r == AssignOrder(ts[c])
           us == [ts EXCEPT ![c] = r]
<1>1. ts[c].nextOrder \in Nat /\ WellFormed(ts[c])
  BY DEF Consistent, Turns
<1>2. e \in Event /\ e.client = c /\ e.order = ts[c].nextOrder + 1 /\ e.at = n
  BY <1>1, SMT DEF Event
<1>3. WellFormed(r) /\ Live(r) = Live(ts[c]) \cup {e.order}
  BY <1>1, <1>2, AssignAddsLive
<1> HIDE DEF r
<1>4. \A f \in F : f.client = c => f.order \in Nat /\ f.order < e.order
  <2> SUFFICES ASSUME NEW f \in F, f.client = c PROVE f.order \in Nat /\ f.order < e.order
    OBVIOUS
  <2>1. f.order \in Live(ts[c])
    BY SMT DEF Consistent, OrdersOf
  <2> QED
    BY <2>1, <1>1, <1>2, SMT DEF Live
<1>5. ASSUME NEW d \in Clients
      PROVE  WellFormed(us[d]) /\ OrdersOf(F \cup {e}, d) = Live(us[d])
  <2>1. CASE d = c
    <3>1. OrdersOf(F \cup {e}, d) = OrdersOf(F, d) \cup {e.order}
      BY <2>1, <1>2 DEF OrdersOf
    <3> QED
      BY <3>1, <2>1, <1>3 DEF Consistent
  <2>2. CASE d # c
    <3>1. OrdersOf(F \cup {e}, d) = OrdersOf(F, d)
      BY <2>2, <1>2 DEF OrdersOf
    <3> QED
      BY <3>1, <2>2 DEF Consistent
  <2> QED
    BY <2>1, <2>2
<1>6. \A f \in F : f \in Event /\ f.at \in Nat /\ f.order \in Nat /\ f.at < n
  BY DEF Consistent, Event
<1>7. \A f \in F \cup {e} : f.at < n + 1
  BY <1>2, <1>6, SMT
<1>8. \A f, g \in F \cup {e} : (f.client = g.client /\ f.order = g.order) => f = g
  BY <1>1, <1>2, <1>4, SMT DEF Consistent
<1>9. \A f, g \in F \cup {e} : (f.client = g.client /\ f.order < g.order) => f.at < g.at
  BY <1>1, <1>2, <1>4, <1>6, SMT DEF Consistent
<1>10. \A f, g \in F \cup {e} : f.at = g.at => f = g
  BY <1>2, <1>6, SMT DEF Consistent
<1> QED
  BY <1>2, <1>5, <1>7, <1>8, <1>9, <1>10 DEF Consistent, r

(* remove and finishTurn: events of a client leave with their tickets. *)
LEMMA DropConsistent ==
  ASSUME NEW F, NEW ts \in [Clients -> Turns], NEW n \in Nat, Consistent(F, ts, n),
         NEW c \in Clients, NEW gone \in SUBSET F, \A e \in gone : e.client = c,
         NEW r, WellFormed(r), Live(r) = Live(ts[c]) \ OrdersOf(gone, c)
  PROVE  Consistent(F \ gone, [ts EXCEPT ![c] = r], n)
<1> DEFINE us == [ts EXCEPT ![c] = r]
<1>1. ASSUME NEW d \in Clients
      PROVE  WellFormed(us[d]) /\ OrdersOf(F \ gone, d) = Live(us[d])
  <2>1. CASE d = c
    <3>1. OrdersOf(F \ gone, c) = OrdersOf(F, c) \ OrdersOf(gone, c)
      BY SMT DEF OrdersOf, Consistent
    <3> QED
      BY <3>1, <2>1 DEF Consistent
  <2>2. CASE d # c
    <3>1. OrdersOf(F \ gone, d) = OrdersOf(F, d)
      BY <2>2 DEF OrdersOf
    <3> QED
      BY <3>1, <2>2 DEF Consistent
  <2> QED
    BY <2>1, <2>2
<1> QED
  BY <1>1 DEF Consistent

(* An event in flight has a live ticket. *)
LEMMA TicketIsLive ==
  ASSUME IInv, NEW e \in InFlight
  PROVE  /\ e \in Event /\ e.client \in Clients /\ e.order \in Nat /\ e.at \in Nat
         /\ WellFormed(turns[e.client]) /\ turns[e.client] \in Turns
         /\ turns[e.client].nextTurn \in Nat
         /\ e.order \in Live(turns[e.client])
         /\ turns[e.client].nextTurn <= e.order
<1>1. e \in Event /\ e.client \in Clients /\ e.order \in Nat /\ e.at \in Nat
  BY DEF IInv, Consistent, Event
<1>2. WellFormed(turns[e.client]) /\ OrdersOf(InFlight, e.client) = Live(turns[e.client])
  BY <1>1 DEF IInv, Consistent
<1>3. e.order \in OrdersOf(InFlight, e.client)
  BY DEF OrdersOf
<1>4. turns[e.client] \in Turns /\ turns[e.client].nextTurn \in Nat
  BY <1>2 DEF WellFormed, Turns
<1> QED
  BY <1>1, <1>2, <1>3, <1>4 DEF Live

(* What a worker holds is in flight. *)
LEMMA HeldInFlight ==
  ASSUME IInv, NEW w \in Workers, worker[w] \in {"turn", "send"}
  PROVE  held[w] \in InFlight /\ held[w] # NoEvent
  BY DEF IInv, TypeOK, InFlight, Holding

(* Steps that leave the events and the tickets alone. *)
LEMMA Frame ==
  ASSUME IInv, TypeOK', UNCHANGED <<items, arrivals, turns, held, flush>>,
         FlushLast', SenderHasTurn'
  PROVE  IInv'
<1>1. InFlight' = InFlight
  BY DEF InFlight, Holding
<1>2. Consistent(InFlight, turns, arrivals)'
  BY <1>1 DEF IInv, Consistent, OrdersOf
<1>3. OnePlace' /\ HeldFirst'
  BY DEF IInv, OnePlace, HeldFirst
<1> QED
  BY <1>2, <1>3 DEF IInv

-----------------------------------------------------------------------------
(* The new queue satisfies the invariant. *)
LEMMA InitIInv == Init => IInv
<1> SUFFICES ASSUME Init PROVE IInv
  OBVIOUS
<1>1. \A c \in Clients : turns[c] = NewTurns
  BY DEF Init
<1>2. NewTurns \in Turns /\ WellFormed(NewTurns) /\ Live(NewTurns) = {}
  BY SMT DEF NewTurns, Turns, WellFormed, Live
<1>3. TypeOK
  <2>1. IsFiniteSet(items) /\ Cardinality(items) <= Capacity
    <3>1. items = {} /\ IsFiniteSet({}) /\ Cardinality({}) = 0
      BY FS_EmptySet DEF Init
    <3> QED
      BY <3>1, CapacityAssumption, SMT
  <2>2. turns \in [Clients -> Turns]
    BY <1>2 DEF Init
  <2> QED
    BY <2>1, <2>2 DEF Init, TypeOK
<1>4. InFlight = {}
  BY DEF Init, InFlight, Holding
<1>5. Consistent(InFlight, turns, arrivals)
  BY <1>1, <1>2, <1>4 DEF Consistent, OrdersOf
<1>6. OnePlace /\ HeldFirst /\ FlushLast /\ SenderHasTurn
  BY DEF Init, OnePlace, HeldFirst, FlushLast, SenderHasTurn
<1> QED
  BY <1>3, <1>5, <1>6 DEF IInv

(* push appends while there is space. *)
LEMMA AppendStep ==
  ASSUME IInv, NEW p \in Producers, NEW c \in Clients, PushAppend(p, c)
  PROVE  IInv'
<1> DEFINE e == [client |-> c, order |-> turns[c].nextOrder + 1, at |-> arrivals]
<1>1. /\ ~closed /\ HasSpace(items) /\ items' = items \cup {e} /\ arrivals' = arrivals + 1
      /\ turns' = [turns EXCEPT ![c] = AssignOrder(turns[c])]
      /\ held' = held /\ flush' = flush /\ worker' = worker /\ closed' = closed
  BY DEF PushAppend
<1>2. /\ turns \in [Clients -> Turns] /\ arrivals \in Nat /\ turns[c].nextOrder \in Nat
      /\ IsFiniteSet(items) /\ Cardinality(items) \in Nat
  BY FS_CardinalityType DEF IInv, TypeOK, Turns
<1>3. e \in Event /\ e.at = arrivals /\ e.client = c
  BY <1>2, SMT DEF Event
<1>4. flush = {}
  BY <1>1 DEF IInv, FlushLast
<1>5. InFlight' = InFlight \cup {e}
  BY <1>1 DEF InFlight, Holding
<1>6. Consistent(InFlight', turns', arrivals')
  BY <1>1, <1>2, <1>5, AppendConsistent DEF IInv
<1>7. \A f \in InFlight : f.at < arrivals /\ f # e
  BY <1>2, <1>3, SMT DEF IInv, Consistent
<1>8. TypeOK'
  <2>1. IsFiniteSet(items') /\ Cardinality(items') = Cardinality(items) + 1
    <3>1. e \notin items
      BY <1>7 DEF InFlight
    <3> QED
      BY <3>1, <1>1, <1>2, FS_AddElement
  <2>2. Cardinality(items') <= Capacity
    BY <2>1, <1>1, <1>2, CapacityAssumption, SMT DEF HasSpace
  <2>3. turns' \in [Clients -> Turns]
    BY <1>1, <1>2, SMT DEF AssignOrder, Turns
  <2>4. itemReady' \in BOOLEAN /\ spaceReady' \in BOOLEAN
    BY DEF PushAppend, PassSpaceOn, HasSpace, IInv, TypeOK
  <2> QED
    BY <1>1, <1>2, <1>3, <2>1, <2>2, <2>3, <2>4, SMT DEF PushAppend, IInv, TypeOK
<1>9. OnePlace' /\ HeldFirst'
  <2>1. \A w \in Workers : held[w] # NoEvent => held[w] \in InFlight
    BY DEF InFlight, Holding
  <2>2. e # NoEvent
    BY <1>3, NoEventAssumption
  <2> QED
    BY <1>1, <1>3, <1>4, <1>7, <2>1, <2>2, SMT DEF IInv, OnePlace, HeldFirst
<1>10. FlushLast'
  BY <1>1, <1>4 DEF FlushLast
<1>11. SenderHasTurn'
  <2> SUFFICES ASSUME NEW w \in Workers, worker[w] = "send"
               PROVE  turns'[held[w].client].nextTurn = turns[held[w].client].nextTurn
    BY <1>1 DEF IInv, SenderHasTurn
  <2>1. held[w] \in InFlight
    BY HeldInFlight
  <2>2. turns[held[w].client].nextTurn # 0 /\ held[w].client \in Clients
    BY <2>1, TicketIsLive, SMT DEF IInv, SenderHasTurn, Live
  <2> QED
    BY <2>2, <1>1, <1>2 DEF AssignOrder
<1> QED
  BY <1>6, <1>8, <1>9, <1>10, <1>11 DEF IInv

(* pop takes the head: the event moves to the worker, ahead of the rest. *)
LEMMA PopTakeStep ==
  ASSUME IInv, NEW w \in Workers, PopTake(w)
  PROVE  IInv'
<1>1. PICK e \in items : /\ IsHead(e, items) /\ items' = items \ {e}
                         /\ held' = [held EXCEPT ![w] = e]
  BY DEF PopTake
<1>2. /\ worker[w] = "pop" /\ ~closed /\ worker' = [worker EXCEPT ![w] = "turn"]
      /\ arrivals' = arrivals /\ closed' = closed /\ turns' = turns /\ flush' = flush
  BY DEF PopTake
<1>3. held[w] = NoEvent /\ e \in Event /\ e # NoEvent /\ held \in [Workers -> Event \cup {NoEvent}]
  BY <1>2, NoEventAssumption DEF IInv, TypeOK
<1>4. InFlight' = InFlight
  <2>1. Holding' = Holding \cup {e}
    BY <1>1, <1>3 DEF Holding
  <2> QED
    BY <2>1, <1>1, <1>2 DEF InFlight
<1>5. Consistent(InFlight, turns, arrivals)'
  BY <1>2, <1>4 DEF IInv, Consistent, OrdersOf
<1>6. TypeOK'
  <2>1. IsFiniteSet(items') /\ Cardinality(items') <= Capacity
    <3>1. /\ IsFiniteSet(items) /\ Cardinality(items) \in Nat /\ Cardinality(items) <= Capacity
      BY FS_CardinalityType DEF IInv, TypeOK
    <3>2. IsFiniteSet(items') /\ Cardinality(items') = Cardinality(items) - 1
      BY <1>1, <3>1, FS_RemoveElement
    <3> QED
      BY <3>1, <3>2, CapacityAssumption, SMT
  <2>2. itemReady' \in BOOLEAN /\ spaceReady' \in BOOLEAN
    BY DEF PopTake, PassItemOn, IInv, TypeOK
  <2>3. /\ held' \in [Workers -> Event \cup {NoEvent}]
        /\ worker' \in [Workers -> {"pop", "wait", "turn", "send", "done"}]
        /\ \A v \in Workers : worker'[v] \in {"turn", "send"} <=> held'[v] # NoEvent
    BY <1>1, <1>2, <1>3 DEF IInv, TypeOK
  <2> QED
    BY <1>1, <1>2, <2>1, <2>2, <2>3 DEF PopTake, IInv, TypeOK
<1>7. flush = {}
  BY <1>2 DEF IInv, FlushLast
<1>8. OnePlace'
  BY <1>1, <1>2, <1>3, <1>7, SMT DEF IInv, OnePlace, TypeOK
<1>9. HeldFirst'
  <2>1. \A f \in items \ {e} : e.at < f.at
    <3>1. \A f \in items : f \in InFlight /\ f.at \in Nat
      BY DEF InFlight, IInv, TypeOK, Event
    <3> QED
      BY <1>1, <3>1, SMT DEF IsHead, IInv, Consistent
  <2> QED
    BY <1>1, <1>3, <2>1 DEF IInv, HeldFirst
<1>10. FlushLast'
  BY <1>2, <1>7 DEF FlushLast
<1>11. SenderHasTurn'
  BY <1>1, <1>2, <1>3 DEF IInv, SenderHasTurn, TypeOK
<1> QED
  BY <1>5, <1>6, <1>8, <1>9, <1>10, <1>11 DEF IInv

(* waitForTurn returns true: a ticket in flight is never past. *)
LEMMA WaitStep ==
  ASSUME IInv, NEW w \in Workers, WaitForTurn(w)
  PROVE  IInv' /\ worker'[w] = "send"
<1>1. held[w] \in InFlight /\ held[w] # NoEvent
  BY HeldInFlight DEF WaitForTurn
<1>2. held[w].order = turns[held[w].client].nextTurn
  BY <1>1, TicketIsLive, SMT DEF WaitForTurn
<1>3. held \in [Workers -> Event \cup {NoEvent}]
  BY DEF IInv, TypeOK
<1>4. /\ worker[w] = "turn" /\ worker' = [worker EXCEPT ![w] = "send"]
      /\ held' = [held EXCEPT ![w] = held[w]]
      /\ UNCHANGED <<items, arrivals, itemReady, spaceReady, closed, turns, producer,
                     canceled, flush>>
  BY <1>2 DEF WaitForTurn
<1>5. held' = held
  BY <1>3, <1>4
<1>6. TypeOK' /\ worker'[w] = "send"
  BY <1>4, <1>5 DEF IInv, TypeOK
<1>7. FlushLast'
  BY <1>4 DEF IInv, FlushLast
<1>8. SenderHasTurn'
  BY <1>2, <1>4, <1>5 DEF IInv, SenderHasTurn, TypeOK
<1> QED
  BY <1>4, <1>5, <1>6, <1>7, <1>8, Frame

(* finishTurn after an attempt: the event is done with and its ticket       *)
(* served; nobody else was in an attempt for the client.                    *)
LEMMA FinishStep ==
  ASSUME IInv, NEW w \in Workers, FinishSend(w)
  PROVE  IInv'
<1> DEFINE e == held[w]
           r == FinishTurn(turns[e.client], e.order)
<1>1. /\ worker[w] = "send" /\ worker' = [worker EXCEPT ![w] = "pop"]
      /\ held' = [held EXCEPT ![w] = NoEvent] /\ turns' = [turns EXCEPT ![e.client] = r]
      /\ UNCHANGED <<items, arrivals, itemReady, spaceReady, closed, producer, canceled, flush>>
  BY DEF FinishSend
<1>2. e \in InFlight /\ e # NoEvent
  BY <1>1, HeldInFlight
<1>3. /\ turns \in [Clients -> Turns] /\ arrivals \in Nat
      /\ held \in [Workers -> Event \cup {NoEvent}]
  BY DEF IInv, TypeOK
<1>4. e.client \in Clients /\ e.order = turns[e.client].nextTurn
  BY <1>1, <1>2, TicketIsLive DEF IInv, SenderHasTurn
<1>5. WellFormed(r) /\ Live(r) = Live(turns[e.client]) \ {e.order}
  BY <1>2, <1>4, TicketIsLive, FinishServesOne
<1> HIDE DEF r
<1>6. InFlight' = InFlight \ {e}
  <2>1. Holding' = Holding \ {e}
    BY <1>1, <1>2, <1>3 DEF Holding, IInv, OnePlace
  <2>2. e \notin items \cup flush
    BY DEF IInv, OnePlace
  <2> QED
    BY <2>1, <2>2, <1>1 DEF InFlight
<1>7. Consistent(InFlight', turns', arrivals')
  <2>1. OrdersOf({e}, e.client) = {e.order}
    BY DEF OrdersOf
  <2> QED
    BY <2>1, <1>1, <1>2, <1>3, <1>4, <1>5, <1>6, DropConsistent DEF IInv
<1>8. TypeOK'
  <2>1. turns' \in [Clients -> Turns]
    BY <1>1, <1>3, <1>5 DEF WellFormed
  <2> QED
    BY <1>1, <2>1 DEF IInv, TypeOK
<1>9. OnePlace' /\ HeldFirst'
  BY <1>1, <1>3, NoEventAssumption DEF IInv, TypeOK, OnePlace, HeldFirst
<1>10. FlushLast'
  BY <1>1 DEF IInv, FlushLast
<1>11. SenderHasTurn'
  <2> SUFFICES ASSUME NEW v \in Workers, worker'[v] = "send"
               PROVE  (held[v].order = turns[held[v].client].nextTurn)'
    BY DEF SenderHasTurn
  <2>1. v # w /\ worker[v] = "send" /\ held'[v] = held[v]
    BY <1>1, <1>3 DEF IInv, TypeOK
  <2>2. held[v] \in InFlight /\ held[v] # NoEvent /\ held[v].client \in Clients
        /\ held[v].order = turns[held[v].client].nextTurn
    BY <2>1, HeldInFlight, TicketIsLive DEF IInv, SenderHasTurn
  <2>3. held[v].client # e.client
    BY <2>1, <2>2, <1>2, <1>4 DEF IInv, OnePlace, Consistent
  <2> QED
    BY <2>1, <2>2, <2>3, <1>1, <1>3
<1> QED
  BY <1>7, <1>8, <1>9, <1>10, <1>11 DEF IInv

(* remove gives up the tickets of the events it drops.  The turn of a       *)
(* client in an attempt stays where it is.                                  *)
LEMMA RemoveStep ==
  ASSUME IInv, NEW c \in Clients, NEW gone \in SUBSET {e \in items : e.client = c},
         Remove(c, gone)
  PROVE  IInv'
<1> DEFINE orders == OrdersOf(gone, c)
           r == CancelTurns(turns[c], orders)
<1>1. /\ items' = items \ gone /\ turns' = [turns EXCEPT ![c] = r] /\ spaceReady' = TRUE
      /\ UNCHANGED <<arrivals, itemReady, closed, producer, canceled, worker, held, flush>>
  BY DEF Remove
<1>2. turns \in [Clients -> Turns] /\ arrivals \in Nat
  BY DEF IInv, TypeOK
<1>3. gone \subseteq InFlight /\ \A e \in gone : e.client = c
  BY DEF InFlight
<1>4. orders \subseteq Live(turns[c]) /\ WellFormed(turns[c])
  BY <1>3, SMT DEF IInv, Consistent, OrdersOf
<1>5. WellFormed(r) /\ Live(r) = Live(turns[c]) \ orders
  BY <1>4, CancelGivesUp
<1>6. InFlight' = InFlight \ gone
  BY <1>1, SMT DEF InFlight, Holding, IInv, OnePlace
<1>7. Consistent(InFlight', turns', arrivals')
  <2> HIDE DEF r
  <2> QED
    BY <1>1, <1>2, <1>3, <1>5, <1>6, DropConsistent DEF IInv
<1>8. TypeOK'
  <2>1. IsFiniteSet(items') /\ Cardinality(items') <= Capacity
    <3>1. IsFiniteSet(items) /\ Cardinality(items) \in Nat /\ Cardinality(items) <= Capacity
      BY FS_CardinalityType DEF IInv, TypeOK
    <3>2. IsFiniteSet(items') /\ Cardinality(items') <= Cardinality(items)
      BY <1>1, <3>1, FS_Subset
    <3>3. Cardinality(items') \in Nat
      BY <3>2, FS_CardinalityType
    <3> QED
      BY <3>1, <3>2, <3>3, CapacityAssumption, SMT
  <2>2. turns' \in [Clients -> Turns]
    <3> HIDE DEF r
    <3> QED
      BY <1>1, <1>2, <1>5 DEF WellFormed
  <2> QED
    BY <1>1, <2>1, <2>2 DEF IInv, TypeOK
<1>9. OnePlace' /\ HeldFirst' /\ FlushLast'
  BY <1>1 DEF IInv, OnePlace, HeldFirst, FlushLast
<1>10. SenderHasTurn'
  <2> SUFFICES ASSUME NEW w \in Workers, worker[w] = "send"
               PROVE  held[w].order = turns'[held[w].client].nextTurn
    BY <1>1 DEF SenderHasTurn
  <2>1. held[w] \in InFlight /\ held[w].client \in Clients
        /\ held[w].order = turns[held[w].client].nextTurn
    BY HeldInFlight, TicketIsLive DEF IInv, SenderHasTurn
  <2>2. CASE held[w].client # c
    BY <2>1, <2>2, <1>1, <1>2
  <2>3. CASE held[w].client = c
    <3>1. turns[c].nextTurn \notin orders
      <4> SUFFICES ASSUME NEW e \in gone, e.order = held[w].order PROVE FALSE
        BY <2>1, <2>3 DEF OrdersOf
      <4>1. e = held[w]
        BY <1>3, <2>1, <2>3 DEF IInv, Consistent
      <4> QED
        BY <4>1 DEF IInv, OnePlace
    <3>2. r.nextTurn = turns[c].nextTurn
      BY <3>1, <1>2 DEF CancelTurns, Turns
    <3> QED
      BY <3>2, <2>1, <2>3, <1>1, <1>2
  <2> QED
    BY <2>2, <2>3
<1> QED
  BY <1>7, <1>8, <1>9, <1>10 DEF IInv

(* drain, after the workers returned: the rest of the queue moves as it is. *)
LEMMA DrainStep ==
  ASSUME IInv, Drain
  PROVE  IInv'
<1>1. /\ closed /\ \A w \in Workers : worker[w] = "done"
      /\ items # {} /\ flush' = items /\ items' = {} /\ spaceReady' = TRUE
      /\ UNCHANGED <<arrivals, itemReady, closed, turns, producer, canceled, worker, held>>
  BY DEF Drain
<1>2. flush = {}
  BY <1>1 DEF IInv, FlushLast
<1>3. InFlight' = InFlight
  BY <1>1, <1>2 DEF InFlight, Holding
<1>4. Consistent(InFlight, turns, arrivals)'
  BY <1>1, <1>3 DEF IInv, Consistent, OrdersOf
<1>5. TypeOK'
  <2>1. IsFiniteSet({}) /\ Cardinality({}) = 0 /\ 0 <= Capacity
    BY FS_EmptySet, CapacityAssumption, SMT
  <2> QED
    BY <1>1, <2>1 DEF IInv, TypeOK
<1>6. OnePlace' /\ HeldFirst' /\ FlushLast' /\ SenderHasTurn'
  BY <1>1, <1>2 DEF IInv, OnePlace, HeldFirst, FlushLast, SenderHasTurn
<1> QED
  BY <1>4, <1>5, <1>6 DEF IInv

(* The flush of Close handles one drained event: its turn has come. *)
LEMMA FlushStep ==
  ASSUME IInv, FlushHead
  PROVE  IInv'
<1>1. PICK e \in flush :
        /\ e.order <= turns[e.client].nextTurn /\ flush' = flush \ {e}
        /\ turns' = [turns EXCEPT ![e.client] = FinishTurn(turns[e.client], e.order)]
        /\ UNCHANGED <<items, arrivals, itemReady, spaceReady, closed, producer, canceled,
                       worker, held>>
  BY DEF FlushHead
<1> DEFINE r == FinishTurn(turns[e.client], e.order)
<1>2. e \in InFlight
  BY DEF InFlight
<1>3. turns \in [Clients -> Turns] /\ arrivals \in Nat
  BY DEF IInv, TypeOK
<1>4. e.client \in Clients /\ e.order = turns[e.client].nextTurn
  BY <1>1, <1>2, TicketIsLive, SMT
<1>5. WellFormed(r) /\ Live(r) = Live(turns[e.client]) \ {e.order}
  BY <1>2, <1>4, TicketIsLive, FinishServesOne
<1>6. turns' = [turns EXCEPT ![e.client] = r] /\ arrivals' = arrivals
  BY <1>1
<1> HIDE DEF r
<1>7. InFlight' = InFlight \ {e}
  <2>1. e \notin items \cup Holding
    BY DEF IInv, OnePlace, Holding
  <2>2. Holding' = Holding
    BY <1>1 DEF Holding
  <2> QED
    BY <2>1, <2>2, <1>1 DEF InFlight
<1>8. Consistent(InFlight', turns', arrivals')
  <2>1. OrdersOf({e}, e.client) = {e.order}
    BY DEF OrdersOf
  <2>2. Consistent(InFlight \ {e}, [turns EXCEPT ![e.client] = r], arrivals)
    BY <2>1, <1>2, <1>3, <1>4, <1>5, DropConsistent DEF IInv
  <2> QED
    BY <2>2, <1>6, <1>7
<1>9. TypeOK'
  <2>1. turns' \in [Clients -> Turns]
    BY <1>3, <1>5, <1>6 DEF WellFormed
  <2> QED
    BY <1>1, <2>1 DEF IInv, TypeOK
<1>10. OnePlace' /\ HeldFirst' /\ FlushLast' /\ SenderHasTurn'
  BY <1>1 DEF IInv, OnePlace, HeldFirst, FlushLast, SenderHasTurn
<1> QED
  BY <1>8, <1>9, <1>10 DEF IInv

-----------------------------------------------------------------------------
(* Every step of push, pop, remove, close, drain and the flush keeps the    *)
(* invariant.                                                               *)
LEMMA NextIInv == IInv /\ [Next]_vars => IInv'
<1> SUFFICES ASSUME IInv, [Next]_vars PROVE IInv'
  OBVIOUS
<1>1. CASE UNCHANGED vars
  <2>1. TypeOK' /\ FlushLast' /\ SenderHasTurn'
    BY <1>1 DEF vars, IInv, TypeOK, FlushLast, SenderHasTurn
  <2> QED
    BY <1>1, <2>1, Frame DEF vars
<1>2. ASSUME NEW p \in Producers, PushStart(p) \/ PushBlock(p) \/ PushWake(p) \/ PushFail(p) \/ Cancel(p)
      PROVE  IInv'
  <2>1. TypeOK'
    BY <1>2, CancelableAssumption
       DEF PushStart, PushBlock, PushWake, PushFail, Cancel, IInv, TypeOK
  <2>2. /\ UNCHANGED <<items, arrivals, turns, held, flush>>
        /\ FlushLast' /\ SenderHasTurn'
    BY <1>2 DEF PushStart, PushBlock, PushWake, PushFail, Cancel, IInv, FlushLast, SenderHasTurn
  <2> QED
    BY <2>1, <2>2, Frame
<1>3. ASSUME NEW p \in Producers, NEW c \in Clients, PushAppend(p, c) PROVE IInv'
  BY <1>3, AppendStep
<1>4. ASSUME NEW w \in Workers, PopTake(w) PROVE IInv'
  BY <1>4, PopTakeStep
<1>5. ASSUME NEW w \in Workers, PopBlock(w) \/ PopWake(w) \/ PopClosed(w) PROVE IInv'
  <2>1. TypeOK'
    BY <1>5 DEF PopBlock, PopWake, PopClosed, IInv, TypeOK
  <2>2. UNCHANGED <<items, arrivals, turns, held, flush>>
    BY <1>5 DEF PopBlock, PopWake, PopClosed
  <2>3. FlushLast' /\ SenderHasTurn'
    BY <1>5 DEF PopBlock, PopWake, PopClosed, IInv, TypeOK, FlushLast, SenderHasTurn
  <2> QED
    BY <2>1, <2>2, <2>3, Frame
<1>6. ASSUME NEW w \in Workers, WaitForTurn(w) PROVE IInv'
  BY <1>6, WaitStep
<1>7. ASSUME NEW w \in Workers, FinishSend(w) PROVE IInv'
  BY <1>7, FinishStep
<1>8. CASE RemoveSome
  BY <1>8, RemoveStep DEF RemoveSome
<1>9. CASE Close
  <2>1. TypeOK' /\ FlushLast' /\ SenderHasTurn'
    BY <1>9 DEF Close, IInv, TypeOK, FlushLast, SenderHasTurn
  <2> QED
    BY <1>9, <2>1, Frame DEF Close
<1>10. CASE Drain
  BY <1>10, DrainStep
<1>11. CASE FlushHead
  BY <1>11, FlushStep
<1> QED
  BY <1>1, <1>2, <1>3, <1>4, <1>5, <1>6, <1>7, <1>8, <1>9, <1>10, <1>11
     DEF Next, PushStep, WorkerStep

(* The invariant holds in every state of the queue and its users. *)
THEOREM Invariant == Spec => []IInv
  BY InitIInv, NextIInv, PTL DEF Spec

(* Type correctness and the bound: push never grows the queue beyond its    *)
(* capacity, however producers, workers and remove interleave.              *)
THEOREM QueueBounded == Spec => []TypeOK
<1>1. IInv => TypeOK
  BY DEF IInv
<1> QED
  BY <1>1, Invariant, PTL

(* No ticket is lost or used twice between push, pop, remove and drain, so  *)
(* no waitForTurn waits for a ticket nobody will finish.                    *)
THEOREM TicketsConserved == Spec => []TurnsConserved
<1>1. IInv => TurnsConserved
  <2> SUFFICES ASSUME IInv, NEW c \in Clients
               PROVE  LET t == turns[c] IN
                      /\ OrdersOf(InFlight, c) \cap t.canceled = {}
                      /\ OrdersOf(InFlight, c) \cup t.canceled
                           = {n \in 1 .. t.nextOrder : n >= t.nextTurn}
    BY DEF TurnsConserved
  <2>1. WellFormed(turns[c]) /\ OrdersOf(InFlight, c) = Live(turns[c])
    BY DEF IInv, Consistent
  <2>2. /\ turns[c].nextOrder \in Nat /\ turns[c].nextTurn \in Nat
        /\ \A n \in turns[c].canceled : n \in Nat /\ turns[c].nextTurn < n /\ n <= turns[c].nextOrder
    BY <2>1 DEF WellFormed, Turns
  <2> QED
    BY <2>1, <2>2, SMT DEF Live
<1> QED
  BY <1>1, Invariant, PTL

(* A worker waits for its turn only while another worker has the turn: the  *)
(* workers cannot all be blocked in waitForTurn by a queued event.          *)
THEOREM TurnIsHeld == Spec => []TurnHolderIsAWorker
<1>1. IInv => TurnHolderIsAWorker
  <2> SUFFICES ASSUME IInv, NEW w \in Workers, worker[w] = "turn",
                      held[w].order # turns[held[w].client].nextTurn
               PROVE  \E v \in Workers :
                         /\ worker[v] \in {"turn", "send"}
                         /\ held[v].client = held[w].client
                         /\ held[v].order = turns[held[w].client].nextTurn
    BY DEF TurnHolderIsAWorker
  <2> DEFINE c == held[w].client
             t == turns[c]
  <2>1. held[w] \in InFlight /\ held[w] # NoEvent
    BY HeldInFlight
  <2>2. /\ c \in Clients /\ WellFormed(t) /\ held[w].order \in Live(t) /\ held[w].order \in Nat
        /\ t.nextTurn \in Nat /\ t.nextTurn < held[w].order /\ held[w].at \in Nat
    <3>1. /\ c \in Clients /\ WellFormed(t) /\ held[w].order \in Live(t) /\ held[w].order \in Nat
          /\ t.nextTurn \in Nat /\ t.nextTurn <= held[w].order /\ held[w].at \in Nat
      BY <2>1, TicketIsLive, Zenon
    <3>2. t.nextTurn # held[w].order OBVIOUS
    <3> HIDE DEF t
    <3>3. t.nextTurn < held[w].order BY <3>1, <3>2, SMT
    <3> QED BY <3>1, <3>3
  <2>3. t.nextTurn \in Live(t)
    BY <2>2, TurnIsLive, Zenon
  <2>4. PICK e \in InFlight : e.client = c /\ e.order = t.nextTurn
    <3>1. OrdersOf(InFlight, c) = Live(t) BY <2>2 DEF IInv, Consistent
    <3> QED BY <2>3, <3>1, Zenon DEF OrdersOf
  <2>5. e.at < held[w].at /\ e.at \in Nat
    BY <2>1, <2>2, <2>4, TicketIsLive DEF IInv, Consistent
  <2>6. e \notin items
    BY <2>1, <2>2, <2>5, SMT DEF IInv, HeldFirst
  <2>7. e \notin flush
    BY DEF IInv, FlushLast
  <2>8. PICK v \in Workers : held[v] = e /\ e # NoEvent
    BY <2>4, <2>6, <2>7 DEF InFlight, Holding
  <2> QED
    BY <2>4, <2>8 DEF IInv, TypeOK
<1> QED
  BY <1>1, Invariant, PTL

(* Attempts for one client are serialized in queue order: the attempt under *)
(* way is for the oldest event of the client in the pipeline.               *)
THEOREM Serialized == Spec => []SerializedInQueueOrder
<1>1. IInv => SerializedInQueueOrder
  <2> SUFFICES ASSUME IInv, NEW w \in Workers, worker[w] = "send",
                      NEW e \in InFlight \ {held[w]}, e.client = held[w].client
               PROVE  e.at > held[w].at
    BY DEF SerializedInQueueOrder
  <2>1. held[w] \in InFlight /\ held[w].order = turns[e.client].nextTurn
    BY HeldInFlight DEF IInv, SenderHasTurn
  <2>2. e.order \in Nat /\ e.at \in Nat /\ turns[e.client].nextTurn <= e.order
    BY TicketIsLive
  <2>3. held[w].order \in Nat /\ held[w].at \in Nat
    BY <2>1, TicketIsLive
  <2>4. held[w].order < e.order
    BY <2>1, <2>2, <2>3, SMT DEF IInv, Consistent
  <2> QED
    BY <2>1, <2>2, <2>3, <2>4 DEF IInv, Consistent
<1> QED
  BY <1>1, Invariant, PTL

-----------------------------------------------------------------------------
(* One-slot channels lose no wake-up of a worker blocked in pop: push and   *)
(* pop signal whenever they leave an event in the queue.                    *)
THEOREM ItemWakeups == Spec => []NoLostItemWakeup
<1>1. Init => NoLostItemWakeup
  BY DEF Init, NoLostItemWakeup
<1>2. TypeOK /\ NoLostItemWakeup /\ [Next]_vars => NoLostItemWakeup'
  <2> SUFFICES ASSUME TypeOK, NoLostItemWakeup, [Next]_vars PROVE NoLostItemWakeup'
    OBVIOUS
  <2> USE DEF NoLostItemWakeup
  <2>1. CASE UNCHANGED vars
    BY <2>1 DEF vars
  <2>2. ASSUME NEW p \in Producers, PushStart(p) \/ PushBlock(p) \/ PushWake(p) \/ PushFail(p) \/ Cancel(p)
        PROVE  NoLostItemWakeup'
    BY <2>2 DEF PushStart, PushBlock, PushWake, PushFail, Cancel
  <2>3. ASSUME NEW p \in Producers, NEW c \in Clients, PushAppend(p, c) PROVE NoLostItemWakeup'
    BY <2>3 DEF PushAppend
  <2>4. ASSUME NEW w \in Workers, PopTake(w) PROVE NoLostItemWakeup'
    BY <2>4 DEF PopTake, PassItemOn
  <2>5. ASSUME NEW w \in Workers, PopBlock(w) \/ PopClosed(w) PROVE NoLostItemWakeup'
    BY <2>5, SMT DEF PopBlock, PopClosed
  <2>6. ASSUME NEW w \in Workers, PopWake(w) PROVE NoLostItemWakeup'
    BY <2>6 DEF PopWake, TypeOK
  <2>7. ASSUME NEW w \in Workers, WaitForTurn(w) \/ FinishSend(w) PROVE NoLostItemWakeup'
    BY <2>7 DEF WaitForTurn, FinishSend, TypeOK
  <2>8. CASE RemoveSome
    BY <2>8, SMT DEF RemoveSome, Remove
  <2>9. CASE Close \/ Drain \/ FlushHead
    BY <2>9 DEF Close, Drain, FlushHead
  <2> QED
    BY <2>1, <2>2, <2>3, <2>4, <2>5, <2>6, <2>7, <2>8, <2>9 DEF Next, PushStep, WorkerStep
<1> QED
  BY <1>1, <1>2, QueueBounded, PTL DEF Spec

(* If no context is ever cancelled, one-slot channels lose no wake-up of a  *)
(* producer blocked in push either: the notification is passed on while     *)
(* slots are left.  With cancellation this fails (EventQueueLostWakeup).    *)
THEOREM SpaceWakeups ==
  ASSUME Cancelable = {}
  PROVE  Spec => []NoLostSpaceWakeup
<1>1. Init => NoLostSpaceWakeup
  BY DEF Init, NoLostSpaceWakeup
<1>2. TypeOK /\ NoLostSpaceWakeup /\ [Next]_vars => NoLostSpaceWakeup'
  <2> SUFFICES ASSUME TypeOK, NoLostSpaceWakeup, [Next]_vars PROVE NoLostSpaceWakeup'
    OBVIOUS
  <2> USE DEF NoLostSpaceWakeup
  <2>0. canceled = {}
    BY DEF TypeOK
  <2>1. CASE UNCHANGED vars
    BY <2>1 DEF vars, HasSpace
  <2>2. ASSUME NEW p \in Producers, PushStart(p) PROVE NoLostSpaceWakeup'
    BY <2>2 DEF PushStart, HasSpace, TypeOK
  <2>3. ASSUME NEW p \in Producers, NEW c \in Clients, PushAppend(p, c) PROVE NoLostSpaceWakeup'
    BY <2>3 DEF PushAppend, PassSpaceOn, HasSpace
  <2>4. ASSUME NEW p \in Producers, PushBlock(p) PROVE NoLostSpaceWakeup'
    BY <2>4 DEF PushBlock, HasSpace
  <2>5. ASSUME NEW p \in Producers, PushWake(p) PROVE NoLostSpaceWakeup'
    BY <2>5, <2>0 DEF PushWake, TypeOK
  <2>6. ASSUME NEW p \in Producers, PushFail(p) \/ Cancel(p) PROVE NoLostSpaceWakeup'
    BY <2>6, <2>0, SMT DEF PushFail, Cancel
  <2>7. ASSUME NEW w \in Workers, PopTake(w) PROVE NoLostSpaceWakeup'
    BY <2>7 DEF PopTake
  <2>8. ASSUME NEW w \in Workers,
               PopBlock(w) \/ PopWake(w) \/ PopClosed(w) \/ WaitForTurn(w) \/ FinishSend(w)
        PROVE  NoLostSpaceWakeup'
    BY <2>8 DEF PopBlock, PopWake, PopClosed, WaitForTurn, FinishSend, HasSpace
  <2>9. CASE RemoveSome \/ Drain
    BY <2>9 DEF RemoveSome, Remove, Drain
  <2>10. CASE Close \/ FlushHead
    BY <2>10 DEF Close, FlushHead, HasSpace
  <2> QED
    BY <2>1, <2>2, <2>3, <2>4, <2>5, <2>6, <2>7, <2>8, <2>9, <2>10
       DEF Next, PushStep, WorkerStep
<1> QED
  BY <1>1, <1>2, QueueBounded, PTL DEF Spec
=============================================================================
