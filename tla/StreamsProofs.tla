--------------------------- MODULE StreamsProofs ----------------------------
(***************************************************************************)
(* Theorems about the HTTP streams of a client for any number of requests, *)
(* any messages and any behaviour of the peers.                            *)
(***************************************************************************)
EXTENDS Streams, TLAPS

(* A leaf is for Zenon unless it names another prover. *)
USE Zenon

Control ==
  pc \in [Procs -> Places] /\ then \in [Procs -> Places] /\ at \in [Procs -> Requests \union {None}]

LEMMA TypeInit == Init => TypeOK
<1> SUFFICES ASSUME Init PROVE TypeOK OBVIOUS
<1>1. {"start", "idle", "serving"} \subseteq Places BY DEF Places
<1>2. Control BY <1>1 DEF Init, Control
<1>3. clock \in 0..scenario.time /\ frames \in 0..scenario.frames
  BY ScenariosAssumption, SMT DEF Init
<1>4. cutoff \in -Expiration..(clock - Expiration) BY ExpirationAssumption, SMT DEF Init
<1>5. lastTransfer \in [Requests -> 0..clock] BY SMT DEF Init
<1> QED BY <1>2, <1>3, <1>4, <1>5 DEF Init, TypeOK, Control

LEMMA TypeStep == TypeOK /\ [Next]_vars => TypeOK'
<1> SUFFICES ASSUME TypeOK PROVE [Next]_vars => TypeOK' OBVIOUS
<1>GotoType.
  ASSUME Control, NEW g \in Procs, NEW place \in Places, Goto(g, place)
  PROVE  Control'
  BY <1>GotoType DEF Control, Goto
<1>CallType.
  ASSUME Control, NEW g \in Procs, NEW place \in Places, NEW back \in Places,
         NEW k \in Requests \union {None}, Call(g, place, k, back)
  PROVE  Control'
  BY <1>CallType DEF Control, Call
<1>ReturnType.
  ASSUME Control, NEW g \in Procs, Return(g)
  PROVE  Control'
  <2> USE <1>ReturnType
  <2>1. "idle" \in Places BY DEF Places
  <2> QED BY <2>1 DEF Control, Return
<1>StartSendType.
  ASSUME NEW g \in Senders, NEW m, StartSend(g, m)
  PROVE  TypeOK'
  <2> USE <1>StartSendType
  <2>1. g \in Procs BY DEF Senders, Procs, Loops
  <2>2. "send" \in Places BY DEF Places
  <2>3. registered \in Requests BY DEF TypeOK, StartSend
  <2>4. Control' BY <2>1, <2>2, <2>3 DEF TypeOK, Control, StartSend
  <2>5. frames' \in 0..scenario.frames
    BY ScenariosAssumption, SMT DEF TypeOK, StartSend
  <2> QED BY <2>4, <2>5 DEF TypeOK, Control, StartSend, locks, clients, streams
<1>RetiringType.
  ASSUME NEW g \in Procs, Retiring(g)
  PROVE  TypeOK'
  <2> USE <1>RetiringType
  <2>0. Control /\ {"surrender", "close"} \subseteq Places BY DEF TypeOK, Control, Places
  <2>1. CASE Retire(g)
    <3>1. Control' BY <2>0, <2>1, <1>GotoType DEF Retire
    <3> QED BY <2>1, <3>1 DEF TypeOK, Control, Retire, shared, locks, streams
  <2>2. CASE Surrender(g)
    <3>1. Control' BY <2>0, <2>2, <1>GotoType, <1>ReturnType DEF Surrender
    <3>2. lifecycle' \in Procs \union {None} /\ UNCHANGED <<table, clientMu, connMu>>
      BY <2>2 DEF TypeOK, Surrender, Unlock, locks
    <3> QED BY <2>2, <3>1, <3>2 DEF TypeOK, Control, Surrender, shared, streams
  <2>3. CASE CloseConnection(g)
    <3>1. Control' BY <2>0, <2>3, <1>ReturnType DEF CloseConnection
    <3>2. lifecycle' \in Procs \union {None} BY <2>3 DEF TypeOK, CloseConnection, Unlock
    <3> QED BY <2>3, <3>1, <3>2 DEF TypeOK, Control, CloseConnection, shared, clients
  <2> QED BY <2>1, <2>2, <2>3 DEF Retiring
<1>ServeType.
  ASSUME NEW r \in Requests, ServeDone(r) \/ OpenStream(r) \/ Serve(r) \/ RequestEnds(r)
  PROVE  TypeOK'
  <2> USE <1>ServeType
  <2>0. /\ Control /\ r \in Procs
        /\ {"lock", "replace", "install", "wait", "result", "cleanup", "lookup", "relock",
            "returned", "retire"} \subseteq Places
    BY DEF TypeOK, Control, Places, Procs
  <2>1. CASE ServeDone(r)
    <3>1. Control' BY <2>0, <2>1, <1>GotoType DEF ServeDone
    <3> QED BY <2>1, <3>1 DEF TypeOK, Control, ServeDone, locks, clients, streams
  <2>2. CASE OpenStream(r)
    <3>1. PICK o \in Outcomes(Opening) :
            WriteFrame(r, Opening, o.n, o.ok) /\ Goto(r, IF o.ok THEN "lock" ELSE "cleanup")
      BY <2>2 DEF OpenStream
    <3>2. o.ok \in BOOLEAN BY DEF Outcomes
    <3>3. Control' BY <2>0, <3>1, <1>GotoType
    <3>4. connClosed' \in [Requests -> BOOLEAN] /\ connErr' \in [Requests -> BOOLEAN]
      BY <3>1, <3>2 DEF TypeOK, WriteFrame
    <3> QED BY <2>2, <3>3, <3>4 DEF TypeOK, Control, OpenStream, shared, locks, clients
  <2>3. CASE Abandon(r) \/ Wake(r) \/ Result(r)
    <3>1. Control' BY <2>0, <2>3, <1>GotoType DEF Abandon, Wake, Result
    <3>2. UNCHANGED <<shared, locks, clients, streams>> BY <2>3 DEF Abandon, Wake, Result
    <3> QED BY <3>1, <3>2 DEF TypeOK, Control, shared, locks, clients, streams
  <2>4. CASE Lock(r)
    <3>1. Control' BY <2>0, <2>4, <1>GotoType DEF Lock
    <3> QED BY <2>0, <2>4, <3>1 DEF TypeOK, Control, Lock, shared, clients, streams
  <2>5. CASE Replace(r)
    <3>1. Control' BY <2>0, <2>5, <1>GotoType, <1>CallType DEF Replace, TypeOK
    <3>2. clock \in 0..clock BY ScenariosAssumption, SMT DEF TypeOK
    <3>3. lastTransfer' \in [Requests -> 0..clock] /\ lifecycle' \in Procs \union {None}
      BY <2>5, <3>2 DEF Replace, TypeOK
    <3> QED BY <2>5, <3>1, <3>3 DEF TypeOK, Control, Replace, shared, streams
  <2>6. CASE Install(r)
    <3>1. Control' BY <2>0, <2>6, <1>GotoType, <1>CallType DEF Install
    <3>2. registered' \in Requests \union {None} /\ lifecycle' \in Procs \union {None}
      BY <2>6 DEF Install, TypeOK
    <3> QED BY <2>6, <3>1, <3>2 DEF TypeOK, Control, Install, clients, streams
  <2>7. CASE Cleanup(r)
    <3>1. Control' BY <2>0, <2>7, <1>GotoType DEF Cleanup
    <3> QED BY <2>7, <3>1 DEF TypeOK, Control, Cleanup, shared, locks, clients
  <2>8. CASE Lookup(r)
    <3>1. Control' BY <2>0, <2>8, <1>GotoType, <1>CallType DEF Lookup
    <3> QED BY <2>8, <3>1 DEF TypeOK, Control, Lookup, shared, locks, clients, streams
  <2>9. CASE Relock(r)
    <3>1. Control' BY <2>0, <2>9, <1>GotoType, <1>ReturnType DEF Relock
    <3> QED BY <2>0, <2>9, <3>1 DEF TypeOK, Control, Relock, shared, clients, streams
  <2>10. CASE RequestEnds(r)
    BY <2>10 DEF TypeOK, RequestEnds, locks, clients, streams, control
  <2> QED BY <2>1, <2>2, <2>3, <2>4, <2>5, <2>6, <2>7, <2>8, <2>9, <2>10 DEF Serve
<1>SendingType.
  ASSUME NEW g \in Senders, Sending(g)
  PROVE  TypeOK'
  <2> USE <1>SendingType
  <2>0. /\ Control /\ g \in Procs
        /\ {"connection", "refused", "write", "sent", "close"} \subseteq Places
    BY DEF TypeOK, Control, Places, Senders, Procs, Loops
  <2>1. CASE Send(g)
    <3>1. Control' BY <2>0, <2>1, <1>GotoType, <1>ReturnType DEF Send
    <3> QED BY <2>0, <2>1, <3>1 DEF TypeOK, Control, Send, shared, clients, streams
  <2>2. CASE ConnectionSend(g)
    <3>1. Control' BY <2>0, <2>2, <1>GotoType DEF ConnectionSend
    <3> QED BY <2>0, <2>2, <3>1 DEF TypeOK, Control, ConnectionSend, shared, clients, streams
  <2>3. CASE Write(g)
    <3>1. PICK o \in Outcomes(Frame(msg[g])) :
            /\ WriteFrame(at[g], Frame(msg[g]), o.n, o.ok)
            /\ Goto(g, IF o.ok THEN "sent" ELSE "refused")
      BY <2>3 DEF Write
    <3>2. o.ok \in BOOLEAN BY DEF Outcomes
    <3>3. Control' BY <2>0, <3>1, <1>GotoType
    <3>4. connClosed' \in [Requests -> BOOLEAN] /\ connErr' \in [Requests -> BOOLEAN]
      BY <3>1, <3>2 DEF TypeOK, WriteFrame
    <3> QED BY <2>3, <3>3, <3>4 DEF TypeOK, Control, Write, shared, clients
  <2>4. CASE SendReturns(g)
    <3>1. Control' BY <2>0, <2>4, <1>GotoType, <1>ReturnType DEF SendReturns
    <3>2. clock \in 0..clock BY ScenariosAssumption, SMT DEF TypeOK
    <3>3. lastTransfer' \in [Requests -> 0..clock] BY <2>4, <3>2 DEF SendReturns, TypeOK
    <3>4. inactive' \in [Requests -> BOOLEAN] /\ surrendered' \in [Requests -> BOOLEAN]
      BY <2>4 DEF SendReturns, TypeOK
    <3> QED BY <2>4, <3>1, <3>3, <3>4 DEF TypeOK, Control, SendReturns, shared, streams
  <2> QED BY <2>1, <2>2, <2>3, <2>4 DEF Sending
<1>ReapingType.
  ASSUME Tick \/ Reaping
  PROVE  TypeOK'
  <2> USE <1>ReapingType
  <2>0. /\ Control /\ "reaper" \in Procs
        /\ {"ticked", "scan", "expire", "idle", "recheck", "retire"} \subseteq Places
    BY DEF TypeOK, Control, Places, Procs, Loops
  <2>1. CASE Tick
    <3>1. Control' BY <2>0, <2>1, <1>GotoType DEF Tick
    <3>2. cutoff' \in -Expiration..(clock - Expiration)
      BY <2>1, ScenariosAssumption, ExpirationAssumption, SMT DEF TypeOK, Tick
    <3> QED BY <2>1, <3>1, <3>2 DEF TypeOK, Control, Tick, locks, clients, streams
  <2>2. CASE ScanBegins
    <3>1. Control' BY <2>0, <2>2, <1>GotoType DEF ScanBegins
    <3> QED BY <2>2, <3>1 DEF TypeOK, Control, ScanBegins, shared, clients, streams
  <2>3. CASE Scan
    <3>1. Control' BY <2>0, <2>3, <1>GotoType DEF Scan
    <3> QED BY <2>3, <3>1 DEF TypeOK, Control, Scan, shared, clients, streams
  <2>4. CASE Expire
    <3>1. Control' BY <2>0, <2>4, <1>GotoType DEF Expire
    <3> QED BY <2>0, <2>4, <3>1 DEF TypeOK, Control, Expire, shared, clients, streams
  <2>5. CASE Remove
    <3>1. Control' BY <2>0, <2>5, <1>GotoType, <1>CallType DEF Remove, TypeOK
    <3>2. registered' \in Requests \union {None} /\ lifecycle' \in Procs \union {None}
      BY <2>5 DEF Remove, TypeOK
    <3> QED BY <2>5, <3>1, <3>2 DEF TypeOK, Control, Remove, clients, streams
  <2> QED BY <2>1, <2>2, <2>3, <2>4, <2>5 DEF Reaping
<1> SUFFICES ASSUME [Next]_vars PROVE TypeOK' OBVIOUS
<1>0. /\ Control /\ "closer" \in Procs /\ Loops \subseteq Procs
      /\ {"draining", "stopped", "done", "retire"} \subseteq Places
  BY DEF TypeOK, Control, Places, Procs
<1>1. ASSUME NEW g \in Senders, NEW m, StartSend(g, m) PROVE TypeOK'
  BY <1>1, <1>StartSendType
<1>2. CASE Deliver \/ Beat \/ Drain BY <1>1, <1>2 DEF Deliver, Beat, Drain, Senders
<1>3. CASE CloseBus
  <2>1. Control' BY <1>0, <1>3, <1>GotoType DEF CloseBus
  <2> QED BY <1>3, <2>1 DEF TypeOK, Control, CloseBus, locks, clients, streams
<1>4. ASSUME NEW g \in Loops, Stop(g) PROVE TypeOK'
  <2>1. Control' BY <1>0, <1>4, <1>GotoType DEF Stop
  <2> QED BY <1>4, <2>1 DEF TypeOK, Control, Stop, shared, locks, clients, streams
<1>5. CASE CloseClients
  <2>1. Control' BY <1>0, <1>5, <1>GotoType, <1>CallType DEF CloseClients, TypeOK
  <2> QED BY <1>5, <2>1 DEF TypeOK, Control, CloseClients, shared, locks, clients, streams
<1>6. CASE Advance
  <2>1. clock \in Nat /\ clock' = clock + 1 /\ clock' \in 0..scenario.time
    BY <1>6, ScenariosAssumption, SMT DEF TypeOK, Advance
  <2>2. 0..clock \subseteq 0..clock' /\ cutoff \in -Expiration..(clock' - Expiration)
    BY <2>1, ExpirationAssumption, SMT DEF TypeOK
  <2>3. lastTransfer \in [Requests -> 0..clock'] BY <2>2 DEF TypeOK
  <2> QED BY <1>6, <2>1, <2>2, <2>3 DEF TypeOK, Advance, locks, clients, streams, control
<1>7. CASE UNCHANGED vars
  BY <1>7 DEF TypeOK, vars, shared, locks, clients, streams, control
<1> QED BY <1>2, <1>3, <1>4, <1>5, <1>6, <1>7, <1>RetiringType, <1>ServeType, <1>SendingType,
           <1>ReapingType DEF Next

(* The state keeps the types that the structs of the code give it. *)
THEOREM TypeCorrect == Spec => []TypeOK
<1> QED BY TypeInit, TypeStep, PTL DEF Spec

LEMMA Shapes ==
  ASSUME TypeOK
  PROVE  /\ Control /\ Requests \subseteq Procs /\ None \notin Requests
         /\ registered \in Requests \union {None}
         /\ inactive \in [Requests -> BOOLEAN] /\ connClosed \in [Requests -> BOOLEAN]
         /\ requestDone \in [Requests -> BOOLEAN] /\ DOMAIN connMu = Requests
  BY ProcsAssumption DEF TypeOK, Control, Procs

(* Only a client that had no transfer for longer than the expiration time   *)
(* leaves the table: unregister compares lastTransfer with the cutoff again *)
(* in the write lock of the table, and the cutoff only falls behind.        *)
THEOREM OnlySilentOnesExpire == Spec => ExpiresOnlySilent
<1> DEFINE Silent == \A r \in Requests : registered = r /\ registered' = None
                        => lastTransfer[r] < clock - Expiration
<1>1. TypeOK /\ [Next]_vars => [Silent]_vars
  <2> SUFFICES ASSUME TypeOK, Next, NEW r \in Requests, registered = r, registered' = None
               PROVE  lastTransfer[r] < clock - Expiration
    OBVIOUS
  <2>0. registered' # registered BY Shapes
  <2>1. CASE Remove
    <3>1. lastTransfer[r] < cutoff BY <2>0, <2>1 DEF Remove
    <3>2. clock \in Nat /\ cutoff \in Int /\ cutoff <= clock - Expiration /\ lastTransfer[r] \in Nat
      BY ScenariosAssumption, ExpirationAssumption, SMT DEF TypeOK
    <3> QED BY <3>1, <3>2, ExpirationAssumption, SMT
  <2>2. ASSUME NEW q \in Requests, Install(q) PROVE FALSE
    BY <2>0, <2>2, Shapes DEF Install
  <2>3. ASSUME NEW q \in Requests, ServeDone(q) \/ OpenStream(q) \/ Serve(q) \/ RequestEnds(q)
        PROVE  FALSE
    BY <2>0, <2>2, <2>3 DEF ServeDone, OpenStream, Serve, Abandon, Lock, Replace, Wake, Result,
       Cleanup, Lookup, Relock, RequestEnds, shared
  <2>4. ASSUME NEW g \in Procs, Retiring(g) PROVE FALSE
    BY <2>0, <2>4 DEF Retiring, Retire, Surrender, CloseConnection, shared
  <2>5. ASSUME NEW g \in Senders, Sending(g) PROVE FALSE
    BY <2>0, <2>5 DEF Sending, Send, ConnectionSend, Write, SendReturns, shared
  <2>6. CASE Deliver \/ Beat \/ Drain
    BY <2>0, <2>6 DEF Deliver, Beat, Drain, StartSend
  <2>7. CASE Tick \/ ScanBegins \/ Scan \/ Expire \/ (\E g \in Loops : Stop(g)) \/ CloseBus
             \/ CloseClients \/ Advance
    BY <2>0, <2>7 DEF Tick, ScanBegins, Scan, Expire, Stop, CloseBus, CloseClients, Advance, shared
  <2> QED BY <2>1, <2>3, <2>4, <2>5, <2>6, <2>7 DEF Next, Reaping
<1> QED BY <1>1, TypeCorrect, PTL DEF Spec, ExpiresOnlySilent

-----------------------------------------------------------------------------

(* The inductive invariant.  A process goes back only to where it was       *)
(* called from; only a request that has begun has a client; a writer has    *)
(* the connection's lock; and what holds of a request between its cleanup   *)
(* and its return.                                                          *)
Backs ==
  \A g \in Procs : then[g] \in {"idle", "install", "cleanup", "returned", "draining", "done"}

Begun ==
  /\ registered # None => pc[registered] # "start"
  /\ \A g \in Procs : at[g] # None => pc[at[g]] # "start"

Writers ==
  \A g \in Procs :
    /\ pc[g] \in {"send", "connection", "write"} => at[g] \in Requests
    /\ pc[g] = "write" => connMu[at[g]] = g

InRetire(r) == pc[r] \in {"retire", "surrender", "close"} /\ then[r] = "returned"
After(r) == pc[r] \in {"lookup", "relock", "returned"} \/ InRetire(r)

Over ==
  \A r \in Requests : After(r) =>
    /\ connClosed[r] \/ requestDone[r]
    /\ \A g \in Procs : pc[g] = "write" => at[g] # r

Gone ==
  \A r \in Requests :
    /\ pc[r] = "lookup" => connClosed[r]
    /\ pc[r] = "relock" => connClosed[r] /\ at[r] = r /\ then[r] = "returned"
    /\ InRetire(r) => connClosed[r] /\ at[r] = r /\ (pc[r] = "retire" \/ inactive[r])
    /\ pc[r] = "returned" /\ registered = r => inactive[r] /\ connClosed[r]

IInv == Backs /\ Begun /\ Writers /\ Over /\ Gone

LEMMA InvInit == Init => IInv
<1> SUFFICES ASSUME Init PROVE IInv OBVIOUS
<1>1. /\ \A g \in Procs : pc[g] \in {"start", "idle", "serving"} /\ then[g] = "idle" /\ at[g] = None
      /\ registered = None
  BY DEF Init
<1>2. Requests \subseteq Procs BY DEF Procs
<1> QED BY <1>1, <1>2 DEF IInv, Backs, Begun, Writers, Over, Gone, After, InRetire

(* What IInv says of the connections and the table does not change. *)
Steady == UNCHANGED <<registered, requestDone, connClosed, inactive, connMu>>

LEMMA InvStep == TypeOK /\ IInv /\ [Next]_vars => IInv'
<1> SUFFICES ASSUME TypeOK, IInv PROVE [Next]_vars => IInv' OBVIOUS
(* A process goes on to a place that IInv does not mention. *)
<1>GoesOn.
  ASSUME Steady, NEW g \in Procs, NEW place, Goto(g, place),
         place \notin {"start", "lookup", "relock", "returned", "retire", "surrender", "close",
                       "send", "connection", "write"}
  PROVE  IInv'
  BY <1>GoesOn, Shapes, SMT DEF IInv, Backs, Begun, Writers, Over, Gone, After, InRetire, Control, Goto, Steady
(* It calls retire or starts a send, to come back elsewhere than at the end *)
(* of Serve.                                                                *)
<1>CallsOut.
  ASSUME Steady, NEW g \in Procs,
         NEW place \in {"retire", "send"}, NEW k \in Requests, pc[k] # "start",
         NEW back \in {"idle", "install", "cleanup", "draining", "done"},
         pc' = [pc EXCEPT ![g] = place], at' = [at EXCEPT ![g] = k],
         then' = [then EXCEPT ![g] = back]
  PROVE  IInv'
  BY <1>CallsOut, Shapes, SMT DEF IInv, Backs, Begun, Writers, Over, Gone, After, InRetire, Control, Steady
(* It returns from a send, from retire or from the end of Disconnect. *)
<1>ReturnsBack.
  ASSUME Steady, NEW g \in Procs, Return(g),
         then[g] = "returned" => g \notin Requests \/ registered # g \/ (inactive[g] /\ connClosed[g]),
         then[g] = "returned" => g \notin Requests \/ After(g)
  PROVE  IInv'
  BY <1>ReturnsBack, Shapes, SMT DEF IInv, Backs, Begun, Writers, Over, Gone, After, InRetire, Control, Return, Steady
<1>RetiringInv.
  ASSUME NEW g \in Procs, Retiring(g)
  PROVE  IInv'
  <2> USE <1>RetiringInv
  <2>0. (g \in Requests /\ then[g] = "returned" /\ pc[g] # "retire") =>
          (pc[g] \in {"surrender", "close"} => After(g) /\ inactive[g] /\ connClosed[g])
    BY DEF IInv, Gone, After, InRetire
  <2>1. CASE Retire(g)
    BY <2>1, Shapes, SMT DEF IInv, Backs, Begun, Writers, Over, Gone, After, InRetire, Control,
       Retire, Goto, shared, locks, streams
  <2>2. CASE Surrender(g)
    <3>1. Steady BY <2>2 DEF Surrender, Steady, shared, locks, streams
    <3>2. CASE Goto(g, "close") /\ pc[g] = "surrender"
      BY <3>1, <3>2, Shapes, SMT DEF IInv, Backs, Begun, Writers, Over, Gone, After, InRetire,
         Control, Goto, Steady
    <3>3. CASE Return(g) /\ pc[g] = "surrender" BY <2>0, <3>1, <3>3, <1>ReturnsBack
    <3> QED BY <2>2, <3>2, <3>3 DEF Surrender
  <2>3. CASE CloseConnection(g)
    BY <2>3, Shapes, SMT DEF IInv, Backs, Begun, Writers, Over, Gone, After, InRetire, Control,
       CloseConnection, Return, shared, clients
  <2> QED BY <2>1, <2>2, <2>3 DEF Retiring
<1>ServeInv.
  ASSUME NEW r \in Requests,
         ServeDone(r) \/ OpenStream(r) \/ Serve(r) \/ RequestEnds(r)
  PROVE  IInv'
  <2> USE <1>ServeInv
  <2>0. r \in Procs /\ r # None BY Shapes
  <2>1. CASE ServeDone(r)
    <3>1. \A g \in Procs : at[g] # r BY <2>0, <2>1 DEF IInv, Begun, ServeDone
    <3>2. registered # r BY <2>0, <2>1 DEF IInv, Begun, ServeDone
    <3>3. UNCHANGED <<registered, connClosed, inactive, connMu>>
      BY <2>1 DEF ServeDone, locks, clients, streams
    <3> QED BY <2>0, <2>1, <3>1, <3>2, <3>3, Shapes, SMT DEF IInv, Backs, Begun, Writers, Over, Gone,
               After, InRetire, Control, Goto, ServeDone
  <2>2. CASE OpenStream(r)
    <3>1. PICK o \in Outcomes(Opening) :
            WriteFrame(r, Opening, o.n, o.ok) /\ Goto(r, IF o.ok THEN "lock" ELSE "cleanup")
      BY <2>2 DEF OpenStream
    <3>2. UNCHANGED <<registered, requestDone, inactive, connMu>>
      BY <2>2 DEF OpenStream, shared, locks, clients
    <3>3. \A q \in Requests : connClosed[q] => connClosed'[q] BY <3>1, Shapes DEF WriteFrame
    <3>4. PICK place \in {"lock", "cleanup"} : Goto(r, place) BY <3>1
    <3> QED BY <2>0, <3>2, <3>3, <3>4, Shapes, SMT DEF IInv, Backs, Begun, Writers, Over, Gone, After,
               InRetire, Control, Goto
  <2>3. CASE Abandon(r) \/ Lock(r) \/ Wake(r) \/ Result(r)
    <3>1. Steady BY <2>3 DEF Abandon, Lock, Wake, Result, Steady, shared, locks, clients, streams
    <3> QED BY <2>0, <2>3, <3>1, <1>GoesOn DEF Abandon, Lock, Wake, Result
  <2>4. CASE Replace(r)
    <3>1. Steady BY <2>4 DEF Replace, Steady, shared, streams
    <3>2. CASE Goto(r, "cleanup") \/ Goto(r, "install") BY <2>0, <3>1, <3>2, <1>GoesOn
    <3>3. CASE registered # None /\ Call(r, "retire", registered, "install")
      BY <2>0, <3>1, <3>3, <1>CallsOut, Shapes DEF Call, IInv, Begun
    <3> QED BY <2>4, <3>2, <3>3 DEF Replace
  <2>5. CASE Install(r)
    <3>1. UNCHANGED <<requestDone, connClosed, inactive, connMu>>
      BY <2>5 DEF Install, clients, streams
    <3>2. CASE Call(r, "retire", r, "cleanup") /\ UNCHANGED registered
      BY <2>0, <2>5, <3>1, <3>2, <1>CallsOut DEF Call, Steady, Install
    <3>3. CASE Goto(r, "wait") /\ registered' = r
      BY <2>0, <3>1, <3>3, Shapes, SMT DEF IInv, Backs, Begun, Writers, Over, Gone, After, InRetire,
         Control, Goto
    <3> QED BY <2>5, <3>2, <3>3 DEF Install
  <2>6. CASE Cleanup(r)
    <3>1. \A g \in Procs : pc[g] = "write" => at[g] # r
      BY <2>6, ProcsAssumption DEF IInv, Writers, Cleanup
    <3>2. UNCHANGED <<registered, requestDone, inactive, connMu>>
      BY <2>6 DEF Cleanup, shared, locks, clients
    <3> QED BY <2>0, <2>6, <3>1, <3>2, Shapes, SMT DEF IInv, Backs, Begun, Writers, Over, Gone, After,
               InRetire, Control, Goto, Cleanup
  <2>7. CASE Lookup(r)
    <3>1. Steady BY <2>7 DEF Lookup, Steady, shared, locks, clients, streams
    <3>2. CASE registered = r
      <4>1. Call(r, "relock", r, "returned") /\ pc[r] = "lookup" BY <2>7, <3>2 DEF Lookup
      <4>2. /\ pc'[r] = "relock" /\ at'[r] = r /\ then'[r] = "returned"
            /\ \A g \in Procs : g # r => pc'[g] = pc[g] /\ at'[g] = at[g] /\ then'[g] = then[g]
        BY <2>0, <4>1, Shapes DEF Control, Call
      <4>3. Backs' BY <4>2 DEF IInv, Backs
      <4>4. Begun'
        <5>1. \A k \in Requests : pc[k] # "start" => pc'[k] # "start" BY <2>0, <4>2, Shapes
        <5>2. \A g \in Procs : at'[g] # None => at'[g] \in Requests /\ pc[at'[g]] # "start"
          BY <2>0, <4>1, <4>2, Shapes, SMT DEF IInv, Begun, Control
        <5> QED BY <3>1, <5>1, <5>2, Shapes DEF IInv, Begun, Steady
      <4>5. Writers' BY <2>0, <3>1, <4>2 DEF IInv, Writers, Steady
      <4>6. Over' /\ Gone'
        BY <2>0, <3>1, <4>1, <4>2, Shapes, SMT DEF IInv, Over, Gone, After, InRetire, Steady
      <4> QED BY <4>3, <4>4, <4>5, <4>6 DEF IInv
    <3>3. CASE registered # r
      <4>1. Goto(r, "returned") /\ pc[r] = "lookup" BY <2>7, <3>3 DEF Lookup
      <4> QED BY <2>0, <3>1, <3>3, <4>1, Shapes, SMT DEF IInv, Backs, Begun, Writers, Over, Gone, After,
                 InRetire, Control, Goto, Steady
    <3> QED BY <3>2, <3>3
  <2>8. CASE Relock(r)
    <3>1. Steady BY <2>8 DEF Relock, Steady, shared, clients, streams
    <3>2. at[r] = r /\ then[r] = "returned" /\ connClosed[r] /\ After(r)
      BY <2>8 DEF Relock, IInv, Gone, After
    <3>3. CASE registered = r
      <4>1. Goto(r, "retire") /\ pc[r] = "relock" BY <2>8, <3>2, <3>3 DEF Relock
      <4> QED BY <2>0, <3>1, <3>2, <4>1, Shapes, SMT DEF IInv, Backs, Begun, Writers, Over, Gone, After,
                 InRetire, Control, Goto, Steady
    <3>4. CASE registered # r
      <4>1. Return(r) BY <2>8, <3>2, <3>4 DEF Relock
      <4> QED BY <2>0, <3>1, <3>2, <3>4, <4>1, <1>ReturnsBack
    <3> QED BY <3>3, <3>4
  <2>9. CASE RequestEnds(r)
    <3>1. UNCHANGED <<registered, connClosed, inactive, connMu, pc, at, then>>
      BY <2>9 DEF RequestEnds, locks, clients, streams, control
    <3> QED BY <2>9, <3>1, Shapes, SMT DEF IInv, Backs, Begun, Writers, Over, Gone, After, InRetire,
               RequestEnds
  <2> QED BY <2>1, <2>2, <2>3, <2>4, <2>5, <2>6, <2>7, <2>8, <2>9 DEF Serve
<1>SendingInv.
  ASSUME NEW g \in Senders, Sending(g)
  PROVE  IInv'
  <2> USE <1>SendingInv
  <2>0. g \in Procs /\ g \notin Requests
    BY ProcsAssumption DEF Senders, Procs, Loops
  <2>1. CASE Send(g)
    <3>1. Steady BY <2>1 DEF Send, Steady, shared, clients, streams
    <3>2. CASE Return(g) BY <2>0, <3>1, <3>2, <1>ReturnsBack
    <3>3. CASE pc[g] = "send" /\ Goto(g, "connection")
      BY <2>0, <3>1, <3>3, Shapes, SMT DEF IInv, Backs, Begun, Writers, Over, Gone, After, InRetire,
         Control, Goto, Steady
    <3> QED BY <2>1, <3>2, <3>3 DEF Send
  <2>2. CASE ConnectionSend(g)
    <3>1. UNCHANGED <<registered, requestDone, connClosed, inactive>>
      BY <2>2 DEF ConnectionSend, shared, clients, streams
    <3>2. CASE Goto(g, "refused") /\ UNCHANGED connMu
      BY <2>0, <3>1, <3>2, <1>GoesOn DEF Steady
    <3>3. CASE ~(connClosed[at[g]] \/ requestDone[at[g]])
      <4>1. /\ Goto(g, "write") /\ connMu[at[g]] = None
            /\ connMu' = [connMu EXCEPT ![at[g]] = g]
        BY <2>2, <3>3 DEF ConnectionSend
      <4>2. at[g] \in Requests
        BY <2>0, <2>2 DEF ConnectionSend, IInv, Writers
      <4>3. ~After(at[g]) BY <3>3, <4>2 DEF IInv, Over
      <4>4. \A h \in Procs : pc[h] = "write" => at[h] # at[g]
        BY <4>1, ProcsAssumption DEF IInv, Writers
      <4> QED BY <2>0, <3>1, <4>1, <4>2, <4>3, <4>4, Shapes, SMT DEF IInv, Backs, Begun, Writers, Over,
                 Gone, After, InRetire, Control, Goto
    <3> QED BY <2>2, <3>2, <3>3 DEF ConnectionSend
  <2>3. CASE Write(g)
    <3>1. PICK o \in Outcomes(Frame(msg[g])) :
            /\ WriteFrame(at[g], Frame(msg[g]), o.n, o.ok)
            /\ Goto(g, IF o.ok THEN "sent" ELSE "refused")
      BY <2>3 DEF Write
    <3>2. UNCHANGED <<registered, requestDone, inactive>> BY <2>3 DEF Write, shared, clients
    <3>3. \A q \in Requests : connClosed[q] => connClosed'[q] BY <3>1, Shapes DEF WriteFrame
    <3>4. PICK place \in {"sent", "refused"} : Goto(g, place) BY <3>1
    <3>5. at[g] \in Requests /\ connMu[at[g]] = g /\ connMu' = [connMu EXCEPT ![at[g]] = None]
      BY <2>0, <2>3 DEF Write, IInv, Writers
    <3> QED BY <2>0, <3>2, <3>3, <3>4, <3>5, Shapes, SMT DEF IInv, Backs, Begun, Writers, Over, Gone,
               After, InRetire, Control, Goto
  <2>4. CASE SendReturns(g)
    <3>1. UNCHANGED <<registered, requestDone, connClosed, connMu>>
      BY <2>4 DEF SendReturns, shared, streams
    <3>2. \A q \in Requests : inactive[q] => inactive'[q] BY <2>4, Shapes DEF SendReturns
    <3>3. CASE Goto(g, "close")
      BY <2>0, <3>1, <3>2, <3>3, Shapes, SMT DEF IInv, Backs, Begun, Writers, Over, Gone, After,
         InRetire, Control, Goto
    <3>4. CASE Return(g)
      BY <2>0, <3>1, <3>2, <3>4, Shapes, SMT DEF IInv, Backs, Begun, Writers, Over, Gone, After,
         InRetire, Control, Return
    <3> QED BY <2>4, <3>3, <3>4 DEF SendReturns
  <2> QED BY <2>1, <2>2, <2>3, <2>4 DEF Sending
<1> SUFFICES ASSUME [Next]_vars PROVE IInv' OBVIOUS
<1>0. Senders \subseteq Procs /\ Loops \subseteq Procs /\ {"closer", "reaper"} \subseteq Procs
  BY DEF Senders, Procs, Loops
<1>1. ASSUME NEW g \in Senders, NEW m, StartSend(g, m), pc[g] \in {"idle", "draining"}
      PROVE  IInv'
  <2>1. Steady BY <1>1 DEF StartSend, Steady, locks, clients, streams
  <2> QED BY <1>0, <1>1, <2>1, <1>CallsOut, Shapes DEF StartSend, IInv, Begun
<1>2. CASE Deliver \/ Beat \/ Drain BY <1>1, <1>2 DEF Deliver, Beat, Drain, Senders
<1>3. CASE Tick \/ ScanBegins \/ Scan \/ Expire \/ CloseBus
  <2>1. Steady
    BY <1>3 DEF Tick, ScanBegins, Scan, Expire, CloseBus, Steady, shared, locks, clients, streams
  <2> QED BY <1>0, <1>3, <2>1, <1>GoesOn DEF Tick, ScanBegins, Scan, Expire, CloseBus
<1>4. CASE Remove
  <2>1. UNCHANGED <<requestDone, connClosed, inactive, connMu>>
    BY <1>4 DEF Remove, clients, streams
  <2>2. CASE Goto("reaper", "idle") /\ registered' = registered
    BY <1>0, <2>1, <2>2, <1>GoesOn DEF Steady
  <2>3. CASE /\ registered # None /\ registered' = None
             /\ Call("reaper", "retire", registered, "idle")
    BY <1>0, <2>1, <2>3, Shapes, ProcsAssumption, SMT DEF IInv, Backs, Begun, Writers, Over, Gone,
       After, InRetire, Control, Call, Loops
  <2> QED BY <1>4, <2>2, <2>3 DEF Remove
<1>5. ASSUME NEW g \in Loops, Stop(g) PROVE IInv'
  <2>1. Steady BY <1>5 DEF Stop, Steady, shared, locks, clients, streams
  <2> QED BY <1>0, <1>5, <2>1, <1>GoesOn DEF Stop
<1>6. CASE CloseClients
  <2>1. Steady BY <1>6 DEF CloseClients, Steady, shared, locks, clients, streams
  <2>2. CASE registered = None BY <1>0, <1>6, <2>1, <2>2, <1>GoesOn DEF CloseClients
  <2>3. CASE registered # None
    BY <1>0, <1>6, <2>1, <2>3, <1>CallsOut, Shapes DEF CloseClients, Call, IInv, Begun
  <2> QED BY <2>2, <2>3
<1>7. CASE Advance \/ UNCHANGED vars
  <2>1. Steady /\ UNCHANGED <<pc, at, then>>
    BY <1>7 DEF Advance, Steady, vars, shared, locks, clients, streams, control
  <2> QED BY <2>1, SMT DEF IInv, Backs, Begun, Writers, Over, Gone, After, InRetire, Steady
<1> QED BY <1>2, <1>3, <1>4, <1>5, <1>6, <1>7, <1>RetiringInv, <1>ServeInv, <1>SendingInv
        DEF Next, Reaping

LEMMA Invariant == Spec => []IInv
<1> QED BY InvInit, InvStep, TypeCorrect, PTL DEF Spec

(* Once a handler has returned, a client of its that is still in the table  *)
(* is offline: Disconnect retired it or another request took its ID over.   *)
THEOREM NoGhosts == Spec => []NoGhostSession
<1>1. IInv => NoGhostSession BY DEF IInv, Gone, NoGhostSession
<1> QED BY <1>1, Invariant, PTL

(* A response is never written to after its handler returned, however many  *)
(* requests, workers and heartbeats there are for the client: Serve closes  *)
(* the connection under its mutex, Send looks at closed under the same one. *)
THEOREM ResponsesAreLeftAlone == Spec => NoWriteAfterReturn
<1>1. TypeOK /\ IInv /\ [Next]_vars => [LeavesReturnedAlone]_vars
  <2> SUFFICES ASSUME TypeOK, IInv, Next, NEW r \in Requests, pc[r] = "returned"
               PROVE  wire'[r] = wire[r]
    BY DEF LeavesReturnedAlone
  <2>1. ASSUME NEW q \in Requests, OpenStream(q) PROVE wire'[r] = wire[r]
    BY <2>1, SMT DEF OpenStream, WriteFrame
  <2>2. ASSUME NEW g \in Senders, Write(g) PROVE wire'[r] = wire[r]
    <3>1. g \in Procs BY DEF Senders, Procs, Loops
    <3>2. at[g] # r BY <2>2, <3>1 DEF IInv, Over, After, Write
    <3> QED BY <2>2, <3>2, SMT DEF Write, WriteFrame
  <2>3. ASSUME NEW q \in Requests, ServeDone(q) \/ Serve(q) \/ RequestEnds(q)
        PROVE  UNCHANGED wire
    BY <2>3 DEF ServeDone, Serve, Abandon, Lock, Replace, Install, Wake, Result, Cleanup,
       Lookup, Relock, RequestEnds, streams
  <2>4. ASSUME NEW g \in Procs, Retiring(g) PROVE UNCHANGED wire
    BY <2>4 DEF Retiring, Retire, Surrender, CloseConnection, streams
  <2>5. ASSUME NEW g \in Senders, Send(g) \/ ConnectionSend(g) \/ SendReturns(g)
        PROVE  UNCHANGED wire
    BY <2>5 DEF Send, ConnectionSend, SendReturns, streams
  <2>6. CASE Deliver \/ Beat \/ Drain
    BY <2>6 DEF Deliver, Beat, Drain, StartSend, streams
  <2>7. CASE Tick \/ Reaping \/ (\E g \in Loops : Stop(g)) \/ CloseBus \/ CloseClients \/ Advance
    BY <2>7 DEF Tick, Reaping, ScanBegins, Scan, Expire, Remove, Stop, CloseBus, CloseClients,
       Advance, streams
  <2> QED BY <2>1, <2>2, <2>3, <2>4, <2>5, <2>6, <2>7 DEF Next, Sending
<1> QED BY <1>1, Invariant, TypeCorrect, PTL DEF Spec, NoWriteAfterReturn

(* What a client may be retired for, from where its retirer was called:     *)
(* those that replace, remove or disconnect a client have the lifecycle     *)
(* lock, and the expiration loop has taken it out of the table before.      *)
Owning == {"replace", "install", "recheck", "retire", "surrender", "close"}
Owners == Requests \union {"reaper"}
Cause(g) ==
  /\ g \in Owners /\ pc[g] \in Owning => lifecycle = g
  /\ g = "reaper" => then[g] = "idle" /\ (pc[g] = "retire" => registered = None)
  /\ g = "closer" => pc[g] = "serving" \/ closed
  /\ pc[g] = "retire" =>
       /\ g \notin {"worker", "heart"}
       /\ g \in Requests => then[g] \in {"install", "returned"} \/ closed
  /\ pc[g] = "refused" => at[g] \in Requests /\ (requestDone[at[g]] \/ connClosed[at[g]])

(* What other processes rely on while one of them takes a step. *)
Undisturbed(g) ==
  /\ \A h \in Procs \ {g} : pc'[h] = pc[h] /\ at'[h] = at[h] /\ then'[h] = then[h]
  /\ \A h \in Procs \ {g} : lifecycle = h => lifecycle' = h
  /\ closed => closed'
  /\ \A r \in Requests : (requestDone[r] => requestDone'[r]) /\ (connClosed[r] => connClosed'[r])
  /\ g # "reaper" /\ lifecycle = "reaper" => registered' = registered

LEMMA OthersKeepCause ==
  ASSUME NEW g \in Procs, \A h \in Procs : Cause(h), Undisturbed(g), Cause(g)'
  PROVE  \A h \in Procs : Cause(h)'
<1> SUFFICES ASSUME NEW h \in Procs, h # g PROVE Cause(h)' OBVIOUS
<1>1. Cause(h) /\ pc'[h] = pc[h] /\ at'[h] = at[h] /\ then'[h] = then[h] BY DEF Undisturbed
<1>2. lifecycle = h => lifecycle' = h BY DEF Undisturbed
<1>3. h = "reaper" /\ pc[h] = "retire" => registered' = None
  BY <1>1 DEF Cause, Undisturbed, Owners, Owning
<1>4. pc[h] = "refused" => at[h] \in Requests /\ (requestDone'[at[h]] \/ connClosed'[at[h]])
  BY <1>1 DEF Cause, Undisturbed
<1>5. closed => closed' BY DEF Undisturbed
<1> QED BY <1>1, <1>2, <1>3, <1>4, <1>5 DEF Cause

(* The variables that Cause reads and most steps leave alone. *)
Calm == UNCHANGED <<lifecycle, closed, requestDone, connClosed, registered>>

LEMMA StaysUndisturbed ==
  ASSUME TypeOK, NEW g \in Procs,
         \/ \E place : Goto(g, place)
         \/ Return(g)
         \/ \E place, k, back : Call(g, place, k, back)
         \/ \E m : StartSend(g, m)
  PROVE  /\ \A h \in Procs \ {g} : pc'[h] = pc[h] /\ at'[h] = at[h] /\ then'[h] = then[h]
         /\ Calm => Undisturbed(g)
<1>1. \A h \in Procs \ {g} : pc'[h] = pc[h] /\ at'[h] = at[h] /\ then'[h] = then[h]
  BY Shapes DEF Goto, Return, Call, StartSend, Control
<1>2. Calm => Undisturbed(g)
  <2> SUFFICES ASSUME Calm PROVE Undisturbed(g) OBVIOUS
  <2> QED BY <1>1 DEF Undisturbed, Calm
<1> QED BY <1>1, <1>2

(* A step to a place that no cause is asked for. *)
LEMMA GoesOnCalmly ==
  ASSUME TypeOK, \A h \in Procs : Cause(h), NEW g \in Procs \ {"closer"}, NEW place, Goto(g, place),
         place \notin Owning \union {"refused"}, Undisturbed(g)
  PROVE  \A h \in Procs : Cause(h)'
<1>1. pc'[g] = place /\ then'[g] = then[g] BY Shapes DEF Goto, Control
<1>2. Cause(g) OBVIOUS
<1>3. Cause(g)' BY <1>1, <1>2 DEF Cause, Owning
<1> QED BY <1>3, OthersKeepCause

LEMMA RetiringCause ==
  ASSUME TypeOK, IInv, \A h \in Procs : Cause(h), NEW g \in Procs, Retiring(g)
  PROVE  \A h \in Procs : Cause(h)'
<1>1. Cause(g) /\ then[g] \in {"idle", "install", "cleanup", "returned", "draining", "done"}
  BY DEF IInv, Backs
<1>2. ASSUME NEW place \in {"surrender", "close"}, Goto(g, place), Calm,
             pc[g] \in {"retire", "surrender"}
      PROVE  \A h \in Procs : Cause(h)'
  <2>1. Undisturbed(g) BY <1>2, StaysUndisturbed
  <2>2. pc'[g] = place /\ then'[g] = then[g] BY <1>2, Shapes DEF Goto, Control
  <2>3. Cause(g)' BY <1>1, <1>2, <2>2 DEF Cause, Owning, Calm
  <2> QED BY <2>1, <2>3, OthersKeepCause
<1>3. ASSUME Return(g), Unlock(g), UNCHANGED <<closed, requestDone, registered>>,
             \A r \in Requests : connClosed[r] => connClosed'[r], pc[g] \in {"surrender", "close"}
      PROVE  \A h \in Procs : Cause(h)'
  <2>1. pc'[g] = then[g] /\ then'[g] = "idle" BY <1>3, Shapes DEF Return, Control
  <2>2. \A h \in Procs \ {g} : lifecycle = h => lifecycle' = h BY <1>3 DEF Unlock
  <2>3. \A h \in Procs \ {g} : pc'[h] = pc[h] /\ at'[h] = at[h] /\ then'[h] = then[h]
    BY <1>3, StaysUndisturbed
  <2>4. Undisturbed(g) BY <1>3, <2>2, <2>3 DEF Undisturbed
  <2>5. then[g] = "install" => lifecycle' = lifecycle BY <1>3 DEF Unlock
  <2>6. Cause(g)' BY <1>1, <1>3, <2>1, <2>5 DEF Cause, Owning
  <2> QED BY <2>4, <2>6, OthersKeepCause
<1>4. CASE Retire(g)
  <2>1. Calm BY <1>4 DEF Retire, Calm, shared, locks, streams
  <2> QED BY <1>2, <1>4, <2>1 DEF Retire
<1>5. CASE Surrender(g)
  <2>1. UNCHANGED <<closed, requestDone, registered, connClosed>>
    BY <1>5 DEF Surrender, shared, streams
  <2>2. CASE surrendered[at[g]] BY <1>3, <1>5, <2>1, <2>2 DEF Surrender
  <2>3. CASE ~surrendered[at[g]]
    <3>1. Calm BY <1>5, <2>1, <2>3 DEF Surrender, Calm, locks
    <3> QED BY <1>2, <1>5, <2>3, <3>1 DEF Surrender
  <2> QED BY <2>2, <2>3
<1>6. CASE CloseConnection(g)
  <2>1. UNCHANGED <<closed, requestDone, registered>> /\ Return(g) /\ Unlock(g) /\ pc[g] = "close"
    BY <1>6 DEF CloseConnection, shared
  <2>2. \A r \in Requests : connClosed[r] => connClosed'[r] BY <1>6, Shapes DEF CloseConnection
  <2> QED BY <1>3, <2>1, <2>2
<1> QED BY <1>4, <1>5, <1>6 DEF Retiring

LEMMA ServeCause ==
  ASSUME TypeOK, IInv, \A h \in Procs : Cause(h), NEW r \in Requests,
         ServeDone(r) \/ OpenStream(r) \/ Serve(r) \/ RequestEnds(r)
  PROVE  \A h \in Procs : Cause(h)'
<1>0. /\ r \in Procs /\ r \in Owners /\ r \notin {"closer", "reaper", "worker", "heart"}
      /\ Cause(r)
  BY Shapes, ProcsAssumption DEF Owners, Loops
<1>1. CASE ServeDone(r)
  <2>1. Goto(r, "returned") /\ UNCHANGED <<lifecycle, closed, connClosed, registered>>
    BY <1>1 DEF ServeDone, locks, streams
  <2>2. \A q \in Requests : requestDone[q] => requestDone'[q] BY <1>1, Shapes DEF ServeDone
  <2>3. Undisturbed(r) BY <1>0, <2>1, <2>2, StaysUndisturbed DEF Undisturbed
  <2> QED BY <1>0, <2>1, <2>3, GoesOnCalmly DEF Owning
<1>2. CASE OpenStream(r)
  <2>1. PICK o \in Outcomes(Opening) :
          WriteFrame(r, Opening, o.n, o.ok) /\ Goto(r, IF o.ok THEN "lock" ELSE "cleanup")
    BY <1>2 DEF OpenStream
  <2>2. UNCHANGED <<lifecycle, closed, requestDone, registered>> BY <1>2 DEF OpenStream, shared, locks
  <2>3. \A q \in Requests : connClosed[q] => connClosed'[q] BY <2>1, Shapes DEF WriteFrame
  <2>4. PICK place \in {"lock", "cleanup"} : Goto(r, place) BY <2>1
  <2>5. Undisturbed(r) BY <1>0, <2>2, <2>3, <2>4, StaysUndisturbed DEF Undisturbed
  <2> QED BY <1>0, <2>4, <2>5, GoesOnCalmly DEF Owning
<1>3. CASE Abandon(r) \/ Wake(r) \/ Result(r)
  <2>1. PICK place \in {"cleanup", "result"} : Goto(r, place) BY <1>3 DEF Abandon, Wake, Result
  <2>2. Calm BY <1>3 DEF Abandon, Wake, Result, Calm, shared, locks, streams
  <2> QED BY <1>0, <2>1, <2>2, StaysUndisturbed, GoesOnCalmly DEF Owning
<1>4. ASSUME NEW place \in {"replace", "retire"}, Goto(r, place), lifecycle = None, lifecycle' = r,
             place = "retire" => then[r] = "returned",
             UNCHANGED <<closed, requestDone, connClosed, registered>>
      PROVE  \A h \in Procs : Cause(h)'
  <2>1. Undisturbed(r)
    BY <1>0, <1>4, StaysUndisturbed, ProcsAssumption DEF Undisturbed
  <2>2. pc'[r] = place /\ then'[r] = then[r] BY <1>0, <1>4, Shapes DEF Goto, Control
  <2>3. Cause(r)' BY <1>0, <1>4, <2>2 DEF Cause
  <2> QED BY <1>0, <2>1, <2>3, OthersKeepCause
<1>5. CASE Lock(r)
  BY <1>4, <1>5 DEF Lock, shared, streams
<1>6. CASE Replace(r)
  <2>1. UNCHANGED <<closed, requestDone, connClosed, registered>> /\ lifecycle = r
    BY <1>0, <1>6 DEF Replace, shared, streams, Cause, Owning
  <2>2. CASE closed
    <3>1. Undisturbed(r)
      BY <1>0, <1>6, <2>1, <2>2, StaysUndisturbed DEF Replace, Undisturbed
    <3> QED BY <1>0, <1>6, <2>2, <3>1, GoesOnCalmly DEF Replace, Owning
  <2>3. CASE ~closed
    <3>1. Calm /\ (Goto(r, "install") \/ Call(r, "retire", registered, "install"))
      BY <1>6, <2>1, <2>3 DEF Replace, Calm
    <3>2. Undisturbed(r) BY <1>0, <3>1, StaysUndisturbed
    <3>3. \/ pc'[r] = "install"
          \/ pc'[r] = "retire" /\ then'[r] = "install"
      BY <1>0, <3>1, Shapes DEF Goto, Call, Control
    <3>4. Cause(r)' BY <1>0, <2>1, <3>1, <3>3 DEF Cause, Calm
    <3> QED BY <1>0, <3>2, <3>4, OthersKeepCause
  <2> QED BY <2>2, <2>3
<1>7. CASE Install(r)
  <2>1. UNCHANGED <<closed, requestDone, connClosed>> /\ lifecycle = r
    BY <1>0, <1>7 DEF Install, streams, Cause, Owning
  <2>2. CASE closed
    <3>1. Calm /\ Call(r, "retire", r, "cleanup") BY <1>7, <2>1, <2>2 DEF Install, Calm
    <3>2. Undisturbed(r) BY <1>0, <3>1, StaysUndisturbed
    <3>3. pc'[r] = "retire" BY <1>0, <3>1, Shapes DEF Call, Control
    <3>4. Cause(r)' BY <1>0, <2>1, <2>2, <3>1, <3>3, SMT DEF Cause, Calm
    <3> QED BY <1>0, <3>2, <3>4, OthersKeepCause
  <2>3. CASE ~closed
    <3>1. Goto(r, "wait") /\ lifecycle' = None BY <1>7, <2>3 DEF Install
    <3>2. Undisturbed(r) BY <1>0, <2>1, <3>1, StaysUndisturbed DEF Undisturbed
    <3> QED BY <1>0, <3>1, <3>2, GoesOnCalmly DEF Owning
  <2> QED BY <2>2, <2>3
<1>8. CASE Cleanup(r)
  <2>1. Goto(r, "lookup") /\ UNCHANGED <<lifecycle, closed, requestDone, registered>>
    BY <1>8 DEF Cleanup, shared, locks
  <2>2. \A q \in Requests : connClosed[q] => connClosed'[q] BY <1>8, Shapes DEF Cleanup
  <2>3. Undisturbed(r) BY <1>0, <2>1, <2>2, StaysUndisturbed DEF Undisturbed
  <2> QED BY <1>0, <2>1, <2>3, GoesOnCalmly DEF Owning
<1>9. CASE Lookup(r)
  <2>1. Calm /\ (Goto(r, "returned") \/ Call(r, "relock", registered, "returned"))
    BY <1>9 DEF Lookup, Calm, shared, locks, streams
  <2>2. Undisturbed(r) BY <1>0, <2>1, StaysUndisturbed
  <2>3. pc'[r] \in {"returned", "relock"} BY <1>0, <2>1, Shapes DEF Goto, Call, Control
  <2>4. Cause(r)' BY <1>0, <2>3 DEF Cause, Owning
  <2> QED BY <1>0, <2>2, <2>4, OthersKeepCause
<1>10. CASE Relock(r)
  <2>1. UNCHANGED <<closed, requestDone, connClosed, registered>> /\ then[r] = "returned"
    BY <1>10 DEF Relock, shared, streams, IInv, Gone
  <2>2. CASE registered = at[r] BY <1>4, <1>10, <2>1, <2>2 DEF Relock
  <2>3. CASE registered # at[r]
    <3>1. Calm /\ Return(r) BY <1>10, <2>1, <2>3 DEF Relock, Calm
    <3>2. Undisturbed(r) BY <1>0, <3>1, StaysUndisturbed
    <3>3. pc'[r] = "returned" BY <1>0, <2>1, <3>1, Shapes DEF Return, Control
    <3>4. Cause(r)' BY <1>0, <3>3 DEF Cause, Owning
    <3> QED BY <1>0, <3>2, <3>4, OthersKeepCause
  <2> QED BY <2>2, <2>3
<1>11. CASE RequestEnds(r)
  <2>1. UNCHANGED <<lifecycle, closed, connClosed, registered, pc, at, then>>
    BY <1>11 DEF RequestEnds, locks, streams, control
  <2>2. \A q \in Requests : requestDone[q] => requestDone'[q] BY <1>11, Shapes DEF RequestEnds
  <2>3. Undisturbed(r) BY <2>1, <2>2 DEF Undisturbed
  <2>4. Cause(r)' BY <1>0, <2>1, <2>2 DEF Cause
  <2> QED BY <1>0, <2>3, <2>4, OthersKeepCause
<1> QED BY <1>1, <1>2, <1>3, <1>5, <1>6, <1>7, <1>8, <1>9, <1>10, <1>11 DEF Serve

LEMMA SendingCause ==
  ASSUME TypeOK, IInv, \A h \in Procs : Cause(h), NEW g \in Senders, Sending(g)
  PROVE  \A h \in Procs : Cause(h)'
<1>0. /\ g \in Procs /\ g \notin Owners /\ g # "reaper" /\ Cause(g)
      /\ then[g] \in {"idle", "install", "cleanup", "returned", "draining", "done"}
  BY ProcsAssumption DEF Senders, Procs, Loops, Owners, IInv, Backs
<1>1. ASSUME Undisturbed(g), pc[g] # "serving", pc'[g] \notin {"retire", "refused"}
      PROVE  \A h \in Procs : Cause(h)'
  <2>1. Cause(g)' BY <1>0, <1>1 DEF Cause, Undisturbed
  <2> QED BY <1>0, <1>1, <2>1, OthersKeepCause
<1>2. Return(g) => pc'[g] \notin {"retire", "refused"} BY <1>0, Shapes DEF Return, Control
<1>3. CASE Send(g)
  <2>1. Calm BY <1>3 DEF Send, Calm, shared, streams
  <2>2. Goto(g, "connection") \/ Return(g) BY <1>3 DEF Send
  <2>3. Undisturbed(g) BY <1>0, <2>1, <2>2, StaysUndisturbed
  <2>4. Goto(g, "connection") => pc'[g] = "connection" BY <1>0, Shapes DEF Goto, Control
  <2> QED BY <1>1, <1>2, <1>3, <2>2, <2>3, <2>4 DEF Send
<1>4. CASE ConnectionSend(g)
  <2>1. Calm /\ at[g] \in Requests
    BY <1>0, <1>4 DEF ConnectionSend, Calm, shared, streams, IInv, Writers
  <2>2. CASE connClosed[at[g]] \/ requestDone[at[g]]
    <3>1. Goto(g, "refused") BY <1>4, <2>2 DEF ConnectionSend
    <3>2. Undisturbed(g) BY <1>0, <2>1, <3>1, StaysUndisturbed
    <3>3. pc'[g] = "refused" /\ at'[g] = at[g] BY <1>0, <3>1, Shapes DEF Goto, Control
    <3>4. Cause(g)' BY <1>0, <1>4, <2>1, <2>2, <3>3 DEF Cause, Calm, ConnectionSend
    <3> QED BY <1>0, <3>2, <3>4, OthersKeepCause
  <2>3. CASE ~(connClosed[at[g]] \/ requestDone[at[g]])
    <3>1. Goto(g, "write") /\ pc[g] = "connection" BY <1>4, <2>3 DEF ConnectionSend
    <3>2. Undisturbed(g) BY <1>0, <2>1, <3>1, StaysUndisturbed
    <3>3. pc'[g] = "write" BY <1>0, <3>1, Shapes DEF Goto, Control
    <3> QED BY <1>1, <3>1, <3>2, <3>3
  <2> QED BY <2>2, <2>3
<1>5. CASE Write(g)
  <2>1. PICK o \in Outcomes(Frame(msg[g])) :
          /\ WriteFrame(at[g], Frame(msg[g]), o.n, o.ok)
          /\ Goto(g, IF o.ok THEN "sent" ELSE "refused")
    BY <1>5 DEF Write
  <2>2. at[g] \in Requests /\ UNCHANGED <<lifecycle, closed, requestDone, registered>>
    BY <1>0, <1>5 DEF Write, shared, IInv, Writers
  <2>3. \A q \in Requests : connClosed[q] => connClosed'[q] BY <2>1, Shapes DEF WriteFrame
  <2>4. PICK place : Goto(g, place) BY <2>1
  <2>5. Undisturbed(g) BY <1>0, <2>2, <2>3, <2>4, StaysUndisturbed DEF Undisturbed
  <2>6. CASE o.ok
    <3>1. pc'[g] = "sent" BY <1>0, <2>1, <2>6, Shapes DEF Goto, Control
    <3> QED BY <1>1, <1>5, <2>5, <3>1 DEF Write
  <2>7. CASE ~o.ok
    <3>1. pc'[g] = "refused" /\ at'[g] = at[g] BY <1>0, <2>1, <2>7, Shapes DEF Goto, Control
    <3>2. connClosed'[at[g]] BY <2>1, <2>2, <2>7, Shapes DEF WriteFrame
    <3>3. Cause(g)' BY <1>0, <1>5, <2>2, <3>1, <3>2 DEF Cause, Write
    <3> QED BY <1>0, <2>5, <3>3, OthersKeepCause
  <2> QED BY <2>6, <2>7
<1>6. CASE SendReturns(g)
  <2>1. Calm BY <1>6 DEF SendReturns, Calm, shared, streams
  <2>2. Goto(g, "close") \/ Return(g) BY <1>6 DEF SendReturns
  <2>3. Undisturbed(g) BY <1>0, <2>1, <2>2, StaysUndisturbed
  <2>4. Goto(g, "close") => pc'[g] = "close" BY <1>0, Shapes DEF Goto, Control
  <2>5. pc[g] # "serving" BY <1>6 DEF SendReturns
  <2> QED BY <1>1, <1>2, <2>2, <2>3, <2>4, <2>5
<1> QED BY <1>3, <1>4, <1>5, <1>6 DEF Sending

LEMMA ReapingCause ==
  ASSUME TypeOK, IInv, \A h \in Procs : Cause(h), Tick \/ Reaping
  PROVE  \A h \in Procs : Cause(h)'
<1>0. /\ "reaper" \in Procs \ {"closer"} /\ "reaper" \in Owners /\ Cause("reaper")
      /\ "reaper" \notin Requests
  BY ProcsAssumption DEF Procs, Loops, Owners
<1>1. CASE Tick \/ ScanBegins \/ Scan
  <2>1. Calm BY <1>1 DEF Tick, ScanBegins, Scan, Calm, shared, locks, streams
  <2>2. PICK place \in {"ticked", "scan", "expire", "idle"} : Goto("reaper", place)
    BY <1>1 DEF Tick, ScanBegins, Scan
  <2> QED BY <1>0, <2>1, <2>2, StaysUndisturbed, GoesOnCalmly DEF Owning
<1>2. CASE Expire
  <2>1. /\ Goto("reaper", "recheck") /\ lifecycle = None /\ lifecycle' = "reaper"
        /\ UNCHANGED <<closed, requestDone, connClosed, registered>>
    BY <1>2 DEF Expire, shared, streams
  <2>2. Undisturbed("reaper") BY <1>0, <2>1, StaysUndisturbed, ProcsAssumption DEF Undisturbed
  <2>3. pc'["reaper"] = "recheck" /\ then'["reaper"] = then["reaper"]
    BY <1>0, <2>1, Shapes DEF Goto, Control
  <2>4. Cause("reaper")' BY <1>0, <2>1, <2>3 DEF Cause
  <2> QED BY <1>0, <2>2, <2>4, OthersKeepCause
<1>3. CASE Remove
  <2>1. UNCHANGED <<closed, requestDone, connClosed>> /\ lifecycle = "reaper"
    BY <1>0, <1>3 DEF Remove, streams, Cause, Owning
  <2>2. CASE registered # None /\ lastTransfer[registered] < cutoff
    <3>1. /\ Call("reaper", "retire", registered, "idle") /\ registered' = None
          /\ UNCHANGED lifecycle
      BY <1>3, <2>2 DEF Remove
    <3>2. Undisturbed("reaper") BY <1>0, <2>1, <3>1, StaysUndisturbed DEF Undisturbed
    <3>3. pc'["reaper"] = "retire" /\ then'["reaper"] = "idle"
      BY <1>0, <3>1, Shapes DEF Call, Control
    <3>4. Cause("reaper")' BY <1>0, <2>1, <3>1, <3>3 DEF Cause
    <3> QED BY <1>0, <3>2, <3>4, OthersKeepCause
  <2>3. CASE ~(registered # None /\ lastTransfer[registered] < cutoff)
    <3>1. Goto("reaper", "idle") /\ registered' = registered /\ lifecycle' = None
      BY <1>3, <2>3 DEF Remove
    <3>2. Undisturbed("reaper") BY <1>0, <2>1, <3>1, StaysUndisturbed DEF Undisturbed
    <3> QED BY <1>0, <3>1, <3>2, GoesOnCalmly DEF Owning
  <2> QED BY <2>2, <2>3
<1> QED BY <1>1, <1>2, <1>3 DEF Reaping

LEMMA CauseStep ==
  ASSUME TypeOK, IInv, \A h \in Procs : Cause(h), [Next]_vars
  PROVE  \A h \in Procs : Cause(h)'
<1>0. /\ Senders \subseteq Procs /\ Loops \subseteq Procs /\ "closer" \in Procs
      /\ Senders \cap Owners = {} /\ "closer" \notin Loops /\ "closer" \notin Owners
      /\ "reaper" \notin Senders
  BY ProcsAssumption DEF Senders, Procs, Loops, Owners
<1>1. ASSUME NEW g \in Senders, NEW m, StartSend(g, m), pc[g] \in {"idle", "draining"}
      PROVE  \A h \in Procs : Cause(h)'
  <2>1. Calm BY <1>1 DEF StartSend, Calm, locks, streams
  <2>2. Undisturbed(g) BY <1>0, <1>1, <2>1, StaysUndisturbed
  <2>3. pc'[g] = "send" BY <1>0, <1>1, Shapes DEF StartSend, Control
  <2>4. Cause(g)' BY <1>0, <1>1, <2>1, <2>3 DEF Cause, Calm
  <2> QED BY <1>0, <2>2, <2>4, OthersKeepCause
<1>2. CASE Deliver \/ Beat \/ Drain BY <1>1, <1>2 DEF Deliver, Beat, Drain, Senders
<1>3. ASSUME NEW place \in {"draining", "done", "retire"}, pc'["closer"] = place,
             Undisturbed("closer"), closed'
      PROVE  \A h \in Procs : Cause(h)'
  <2>1. "closer" \notin Requests BY <1>0 DEF Owners
  <2>2. Cause("closer")' BY <1>0, <1>3, <2>1 DEF Cause
  <2> QED BY <1>0, <1>3, <2>2, OthersKeepCause
<1>4. CASE CloseBus
  <2>1. Goto("closer", "draining") /\ UNCHANGED <<lifecycle, requestDone, connClosed, registered>>
        /\ closed'
    BY <1>4 DEF CloseBus, locks, streams
  <2>2. Undisturbed("closer") BY <1>0, <2>1, StaysUndisturbed DEF Undisturbed
  <2>3. pc'["closer"] = "draining" BY <1>0, <2>1, Shapes DEF Goto, Control
  <2> QED BY <1>3, <2>1, <2>2, <2>3
<1>5. CASE CloseClients
  <2>1. Calm /\ (Goto("closer", "done") \/ Call("closer", "retire", registered, "done"))
    BY <1>5 DEF CloseClients, Calm, shared, locks, streams
  <2>2. Undisturbed("closer") BY <1>0, <2>1, StaysUndisturbed
  <2>3. pc'["closer"] \in {"done", "retire"} BY <1>0, <2>1, Shapes DEF Goto, Call, Control
  <2>4. closed' BY <1>0, <1>5, <2>1 DEF Calm, Cause, CloseClients
  <2> QED BY <1>3, <2>2, <2>3, <2>4
<1>6. ASSUME NEW g \in Loops, Stop(g) PROVE \A h \in Procs : Cause(h)'
  <2>1. Calm /\ Goto(g, "stopped") BY <1>6 DEF Stop, Calm, shared, locks, streams
  <2> QED BY <1>0, <2>1, StaysUndisturbed, GoesOnCalmly DEF Owning
<1>7. CASE Advance \/ UNCHANGED vars
  <2>1. Calm /\ UNCHANGED <<pc, at, then>>
    BY <1>7 DEF Advance, Calm, vars, shared, locks, streams, control
  <2> QED BY <2>1 DEF Calm, Cause
<1> QED BY <1>2, <1>4, <1>5, <1>6, <1>7, RetiringCause, ServeCause, SendingCause, ReapingCause
        DEF Next

(* A client is only ever retired for a cause: its own request ended or its  *)
(* stream broke, it completed, the bus closed, the expiration loop has      *)
(* taken it out of the table, or another request is registering in its      *)
(* place.  The cleanup of an old stream never hits its successor.           *)
THEOREM RetiredOnlyForCause == Spec => RetiredForCause
<1> DEFINE CInv == \A g \in Procs : Cause(g)
           Caused == \A r \in Requests : ~inactive[r] /\ inactive'[r] =>
                       \/ requestDone[r] \/ connClosed[r] \/ closed \/ r \in Complete
                       \/ registered # r
                       \/ \E s \in Requests : lifecycle = s /\ then[s] = "install"
<1>1. Init => CInv
  <2> SUFFICES ASSUME Init, NEW g \in Procs PROVE Cause(g) OBVIOUS
  <2>1. pc[g] \in {"start", "idle", "serving"} /\ then[g] = "idle" /\ (g = "closer" => pc[g] = "serving")
    BY ProcsAssumption DEF Init, Loops
  <2> QED BY <2>1 DEF Cause, Owning
<1>2. TypeOK /\ IInv /\ CInv /\ [Next]_vars => CInv' BY CauseStep
<1>3. TypeOK /\ IInv /\ CInv /\ [Next]_vars => [Caused]_vars
  <2> SUFFICES ASSUME TypeOK, IInv, CInv, Next, NEW r \in Requests, ~inactive[r], inactive'[r],
                      ~requestDone[r], ~connClosed[r], ~closed, r \notin Complete, registered = r
               PROVE  \E s \in Requests : lifecycle = s /\ then[s] = "install"
    OBVIOUS
  <2>1. ASSUME NEW g \in Procs, Retire(g)
        PROVE  \E s \in Requests : lifecycle = s /\ then[s] = "install"
    <3>1. at[g] = r /\ pc[g] = "retire" /\ Cause(g) BY <2>1, Shapes DEF Retire
    <3>2. g # "closer" /\ g \notin {"worker", "heart"} BY <3>1 DEF Cause
    <3>3. g # "reaper" BY <3>1, Shapes, SMT DEF Cause
    <3>4. g \in Requests BY <3>2, <3>3 DEF Procs, Loops
    <3>5. then[g] \in {"install", "returned"} /\ lifecycle = g
      BY <3>1, <3>4 DEF Cause, Owners, Owning
    <3>6. then[g] # "returned" BY <3>1, <3>4 DEF IInv, Gone, InRetire
    <3> QED BY <3>4, <3>5, <3>6
  <2>2. ASSUME NEW g \in Senders, SendReturns(g) PROVE FALSE
    <3>1. g \in Procs BY DEF Senders, Procs, Loops
    <3>2. at[g] = r /\ pc[g] = "refused" BY <2>2, Shapes DEF SendReturns
    <3> QED BY <3>1, <3>2 DEF Cause
  <2>3. ASSUME NEW q \in Requests, ServeDone(q) \/ OpenStream(q) \/ Serve(q) \/ RequestEnds(q)
        PROVE  FALSE
    <3>1. UNCHANGED inactive
      BY <2>3 DEF ServeDone, OpenStream, Serve, Abandon, Lock, Replace, Install, Wake, Result,
         Cleanup, Lookup, Relock, RequestEnds, clients
    <3> QED BY <3>1
  <2>4. ASSUME NEW g \in Procs, Surrender(g) \/ CloseConnection(g) PROVE FALSE
    BY <2>4 DEF Surrender, CloseConnection, clients
  <2>5. ASSUME NEW g \in Senders, Send(g) \/ ConnectionSend(g) \/ Write(g) PROVE FALSE
    <3>1. UNCHANGED inactive BY <2>5 DEF Send, ConnectionSend, Write, clients
    <3> QED BY <3>1
  <2>6. CASE Deliver \/ Beat \/ Drain BY <2>6 DEF Deliver, Beat, Drain, StartSend, clients
  <2>7. CASE Tick \/ Reaping \/ (\E g \in Loops : Stop(g)) \/ CloseBus \/ CloseClients \/ Advance
    BY <2>7 DEF Tick, Reaping, ScanBegins, Scan, Expire, Remove, Stop, CloseBus, CloseClients,
       Advance, clients
  <2> QED BY <2>1, <2>2, <2>3, <2>4, <2>5, <2>6, <2>7 DEF Next, Retiring, Sending
<1> QED BY <1>1, <1>2, <1>3, Invariant, TypeCorrect, PTL DEF Spec, RetiredForCause
=============================================================================
