------------------------------- MODULE Streams -------------------------------
(***************************************************************************)
(* The HTTP streams of one logical client: Serve (httpadapter/http.go),    *)
(* which registers a connection with the bus and cleans up after it, the   *)
(* connection's own lock, and the parts of the bus that write to it or     *)
(* take it away: a worker, the heartbeat loop, the expiration loop and     *)
(* Close (bus.go).                                                         *)
(*                                                                         *)
(* Every request has a connection and, once registered, a client object    *)
(* of its own, so both are indexed by the request.  Locks, in the order    *)
(* the code takes them: the lifecycle lock of the client ID, b.mu (which   *)
(* only the expiration loop holds while it waits for another lock), the    *)
(* client's mu and the connection's mu.                                    *)
(***************************************************************************)
EXTENDS Integers, FiniteSets, Sequences, SSEFrame

CONSTANTS
  Requests,     \* the HTTP requests of the client
  Complete,     \* those registered with CompleteAfterMessage
  Expiration,   \* WithClientExpiration
  None,         \* no request, no process
  Scenarios     \* what the environment may do, and bounds on it

Loops == {"worker", "heart", "reaper"}
Procs == Requests \union Loops \union {"closer"}

ASSUME ProcsAssumption ==
  /\ Requests \cap (Loops \union {"closer"}) = {}
  /\ None \notin Procs
  /\ Complete \subseteq Requests

ASSUME ExpirationAssumption == Expiration \in Nat \ {0}

(* A scenario: the requests that arrive, the messages published, how many   *)
(* messages and heartbeats are tried, how far the clock goes (clients do    *)
(* not expire if it stands still), whether the bus may be closed, and       *)
(* whether a write may fail halfway.  validateEvent lets no name or ID with *)
(* a line break into the bus.                                               *)
ASSUME ScenariosAssumption ==
  \A s \in Scenarios :
    /\ s.arrive \subseteq Requests /\ s.frames \in Nat /\ s.time \in Nat
    /\ s.closes \in BOOLEAN /\ s.cuts \in BOOLEAN
    /\ \A m \in s.messages : Valid(m)

(* The heartbeat is a message with a comment only. *)
Heartbeat == [comment |-> <<"x">>, event |-> <<>>, id |-> <<>>, hasData |-> FALSE, data |-> <<>>]

VARIABLES
  scenario,     \* fixed
  clock,
  closed,       \* b.closed; close(b.stop) follows at once
  registered,   \* the request whose client object is in b.clients, or None
  lifecycle,    \* holder of the lifecycle lock of the client ID
  table,        \* b.mu as the expiration loop holds it: "free", "read", "write"
  clientMu,     \* holder of each client's mu
  inactive,     \* client.inactive
  surrendered,  \* client.connectionClosed: someone has taken over closing
  lastTransfer, \* client.lastTransfer
  connMu,       \* holder of each connection's mu
  connClosed,   \* connection.closed, and done closed
  connErr,      \* connection.err # nil
  requestDone,  \* the request's context is done: cancelled or timed out
  wire,         \* the lines written to the response
  written,      \* the messages whose frames were written whole
  pc, at, msg,  \* per process: its place, the client it works on, its message
  then,         \* where a process goes on after a send or after retire
  cutoff,       \* the expiration loop's cutoff
  frames        \* number of messages and heartbeats tried

shared == <<scenario, clock, closed, registered, requestDone, cutoff, frames>>
locks == <<lifecycle, table, clientMu, connMu>>
clients == <<inactive, surrendered, lastTransfer>>
streams == <<connClosed, connErr, wire, written>>
control == <<pc, at, msg, then>>
vars == <<shared, locks, clients, streams, control>>

Places ==
  {"start", "open", "lock", "replace", "install", "wait", "result", "cleanup",
   "lookup", "relock", "returned",                          \* Serve
   "idle", "send", "connection", "write", "sent", "refused", \* senders
   "ticked", "scan", "expire", "recheck", "stopped",        \* the reaper
   "serving", "draining", "done",                           \* Close
   "retire", "surrender", "close"}                          \* retire

(* One type invariant: every variable has the type the structs give it. *)
TypeOK ==
  /\ scenario \in Scenarios /\ clock \in 0..scenario.time /\ closed \in BOOLEAN
  /\ registered \in Requests \union {None}
  /\ lifecycle \in Procs \union {None} /\ table \in {"free", "read", "write"}
  /\ clientMu \in [Requests -> Procs \union {None}]
  /\ connMu \in [Requests -> Procs \union {None}]
  /\ inactive \in [Requests -> BOOLEAN] /\ surrendered \in [Requests -> BOOLEAN]
  /\ lastTransfer \in [Requests -> 0..clock]
  /\ connClosed \in [Requests -> BOOLEAN] /\ connErr \in [Requests -> BOOLEAN]
  /\ requestDone \in [Requests -> BOOLEAN]
  /\ pc \in [Procs -> Places] /\ then \in [Procs -> Places]
  /\ at \in [Procs -> Requests \union {None}]
  /\ cutoff \in -Expiration..(clock - Expiration) /\ frames \in 0..scenario.frames

Init ==
  /\ scenario \in Scenarios
  /\ clock = 0 /\ closed = FALSE /\ registered = None
  /\ lifecycle = None /\ table = "free"
  /\ clientMu = [r \in Requests |-> None] /\ connMu = [r \in Requests |-> None]
  /\ inactive = [r \in Requests |-> FALSE]
  /\ surrendered = [r \in Requests |-> FALSE]
  /\ lastTransfer = [r \in Requests |-> 0]
  /\ connClosed = [r \in Requests |-> FALSE] /\ connErr = [r \in Requests |-> FALSE]
  /\ requestDone = [r \in Requests |-> FALSE]
  /\ wire = [r \in Requests |-> <<>>] /\ written = [r \in Requests |-> <<>>]
  /\ pc = [g \in Procs |-> IF g \in Requests THEN "start"
                           ELSE IF g \in Loops THEN "idle" ELSE "serving"]
  /\ at = [g \in Procs |-> None] /\ msg = [g \in Procs |-> Heartbeat]
  /\ then = [g \in Procs |-> "idle"]
  /\ cutoff = -Expiration /\ frames = 0

Goto(g, place) == pc' = [pc EXCEPT ![g] = place] /\ UNCHANGED <<at, msg, then>>

(* A send or a retire ends: what the process worked on no longer matters. *)
Return(g) ==
  /\ pc' = [pc EXCEPT ![g] = then[g]]
  /\ at' = [at EXCEPT ![g] = None]
  /\ msg' = [msg EXCEPT ![g] = Heartbeat]
  /\ then' = [then EXCEPT ![g] = "idle"]

Call(g, place, k, back) ==
  /\ pc' = [pc EXCEPT ![g] = place]
  /\ at' = [at EXCEPT ![g] = k]
  /\ then' = [then EXCEPT ![g] = back]
  /\ UNCHANGED msg

-----------------------------------------------------------------------------
(* client.retire and client.replaceWith, in the lifecycle lock.  The client *)
(* is inactive at once.  Closing the connection waits for a send under way  *)
(* and is done by whoever takes it over first.  The caller's unlock follows *)
(* unless it goes on to install a client.                                   *)
Retire(g) ==
  /\ pc[g] = "retire"
  /\ inactive' = [inactive EXCEPT ![at[g]] = TRUE]
  /\ Goto(g, "surrender")
  /\ UNCHANGED <<shared, locks, surrendered, lastTransfer, streams>>

Unlock(g) == lifecycle' = IF lifecycle = g /\ then[g] # "install" THEN None ELSE lifecycle

Surrender(g) ==
  LET k == at[g] IN
  /\ pc[g] = "surrender" /\ clientMu[k] = None
  /\ surrendered' = [surrendered EXCEPT ![k] = TRUE]
  /\ IF surrendered[k] THEN Return(g) /\ Unlock(g) /\ UNCHANGED <<table, clientMu, connMu>>
                       ELSE Goto(g, "close") /\ UNCHANGED locks
  /\ UNCHANGED <<shared, inactive, lastTransfer, streams>>

(* connection.Close: the first to close decides err. *)
CloseConnection(g) ==
  LET k == at[g] IN
  /\ pc[g] = "close" /\ connMu[k] = None
  /\ connClosed' = [connClosed EXCEPT ![k] = TRUE]
  /\ Return(g) /\ Unlock(g)
  /\ UNCHANGED <<shared, table, clientMu,
                 connMu, clients, connErr, wire, written>>

-----------------------------------------------------------------------------
(* writeFrame: some of the lines reach the response, and if not all of them *)
(* do, or the flush fails, the stream is closed with the error.             *)
WriteFrameOpen(k, lines, n, ok) ==
  /\ wire' = [wire EXCEPT ![k] = @ \o SubSeq(lines, 1, n) \o (IF n < Len(lines) THEN <<Cut>> ELSE <<>>)]
  /\ UNCHANGED <<connClosed, connErr>>
WriteFrame(k, lines, n, ok) ==
  /\ wire' = [wire EXCEPT ![k] = @ \o SubSeq(lines, 1, n) \o (IF n < Len(lines) THEN <<Cut>> ELSE <<>>)]
  /\ connClosed' = [connClosed EXCEPT ![k] = @ \/ ~ok]
  /\ connErr' = [connErr EXCEPT ![k] = IF ok THEN @ ELSE TRUE]

(* How many lines get out; a write that succeeds puts out all of them. *)
Outcomes(lines) ==
  {o \in [n : 0..Len(lines), ok : BOOLEAN] :
     IF o.ok THEN o.n = Len(lines) ELSE scenario.cuts \/ o.n = 0}

-----------------------------------------------------------------------------
(* Serve up to openStream.  A request that is done already gets no stream.  *)
ServeDone(r) ==
  /\ pc[r] = "start" /\ r \in scenario.arrive
  /\ requestDone' = [requestDone EXCEPT ![r] = TRUE]
  /\ Goto(r, "returned")
  /\ UNCHANGED <<scenario, clock, closed, registered, cutoff, frames, locks, clients, streams>>

OpenStream(r) ==
  /\ pc[r] = "start" /\ r \in scenario.arrive
  /\ \E o \in Outcomes(Opening) :
       /\ WriteFrame(r, Opening, o.n, o.ok)
       /\ Goto(r, IF o.ok THEN "lock" ELSE "cleanup")
  /\ UNCHANGED <<shared, locks, clients, written>>

(* RegisterContext up to its first look at the client table.  A request     *)
(* that is done gives up, before the lock or just after it got it.          *)
Abandon(r) ==
  /\ pc[r] = "lock" /\ requestDone[r]
  /\ Goto(r, "cleanup")
  /\ UNCHANGED <<shared, locks, clients, streams>>

Lock(r) ==
  /\ pc[r] = "lock" /\ ~requestDone[r] /\ lifecycle = None
  /\ lifecycle' = r
  /\ Goto(r, "replace")
  /\ UNCHANGED <<shared, table, clientMu,
                 connMu, clients, streams>>

Replace(r) ==
  /\ pc[r] = "replace" /\ table = "free"
  /\ IF closed
     THEN Goto(r, "cleanup") /\ lifecycle' = None /\ UNCHANGED lastTransfer
     ELSE /\ lastTransfer' = [lastTransfer EXCEPT ![r] = clock]
          /\ IF registered = None THEN Goto(r, "install")
                                  ELSE Call(r, "retire", registered, "install")
          /\ UNCHANGED lifecycle
  /\ UNCHANGED <<shared, table, clientMu,
                 connMu, inactive, surrendered, streams>>

(* RegisterContext, the second look: a bus closed meanwhile gets no client. *)
InstallBlindly(r) ==
  /\ pc[r] = "install" /\ table = "free"
  /\ registered' = r /\ lifecycle' = None
  /\ Goto(r, "wait")
  /\ UNCHANGED <<scenario, clock, closed, requestDone, cutoff, frames, table, clientMu, connMu,
                 clients, streams>>
Install(r) ==
  /\ pc[r] = "install" /\ table = "free"
  /\ IF closed THEN Call(r, "retire", r, "cleanup") /\ UNCHANGED <<registered, lifecycle>>
     ELSE Goto(r, "wait") /\ registered' = r /\ lifecycle' = None
  /\ UNCHANGED <<scenario, clock, closed, requestDone, cutoff, frames, table, clientMu, connMu,
                 clients, streams>>

(* Serve blocks until its request or its connection is done, and reads the *)
(* connection's error under its lock.                                       *)
Wake(r) ==
  /\ pc[r] = "wait" /\ (requestDone[r] \/ connClosed[r])
  /\ Goto(r, "result")
  /\ UNCHANGED <<shared, locks, clients, streams>>

Result(r) ==
  /\ pc[r] = "result" /\ connMu[r] = None
  /\ Goto(r, "cleanup")
  /\ UNCHANGED <<shared, locks, clients, streams>>

(* The deferred cleanup: Close, then Disconnect, which retires the client   *)
(* unless another connection has taken the ID over.                         *)
Cleanup(r) ==
  /\ pc[r] = "cleanup" /\ connMu[r] = None
  /\ connClosed' = [connClosed EXCEPT ![r] = TRUE]
  /\ Goto(r, "lookup")
  /\ UNCHANGED <<shared, locks, clients, connErr, wire, written>>

LookupAny(r) ==
  /\ pc[r] = "lookup" /\ table # "write"
  /\ IF registered # None
     THEN Call(r, "relock", registered, "returned") ELSE Goto(r, "returned")
  /\ UNCHANGED <<shared, locks, clients, streams>>
Lookup(r) ==
  /\ pc[r] = "lookup" /\ table # "write"
  /\ IF registered = r
     THEN Call(r, "relock", registered, "returned") ELSE Goto(r, "returned")
  /\ UNCHANGED <<shared, locks, clients, streams>>

(* Disconnect, in the lifecycle lock: is it still the same client? *)
RelockIdle(r) ==
  /\ pc[r] = "relock" /\ lifecycle = None /\ table # "write"
  /\ Return(r)
  /\ UNCHANGED <<shared, locks, clients, streams>>
Relock(r) ==
  /\ pc[r] = "relock" /\ lifecycle = None /\ table # "write"
  /\ IF registered = at[r] THEN Goto(r, "retire") /\ lifecycle' = r
                           ELSE Return(r) /\ UNCHANGED lifecycle
  /\ UNCHANGED <<shared, table, clientMu, connMu, clients, streams>>

-----------------------------------------------------------------------------
(* A worker (attempt) and, on shutdown, the drain take an event for the     *)
(* registered client; the heartbeat loop takes the client from a snapshot.  *)
Senders == {"worker", "heart", "closer"}

StartSend(g, m) ==
  /\ frames < scenario.frames /\ registered # None /\ table # "write"
  /\ frames' = frames + 1
  /\ pc' = [pc EXCEPT ![g] = "send"]
  /\ at' = [at EXCEPT ![g] = registered]
  /\ then' = [then EXCEPT ![g] = pc[g]]
  /\ msg' = [msg EXCEPT ![g] = m]
  /\ UNCHANGED <<scenario, clock, closed, registered, requestDone, cutoff, locks, clients, streams>>

Deliver ==
  /\ pc["worker"] = "idle" /\ registered # None /\ ~inactive[registered]
  /\ \E m \in scenario.messages : StartSend("worker", m)
Beat == pc["heart"] = "idle" /\ StartSend("heart", Heartbeat)
Drain ==
  /\ pc["closer"] = "draining" /\ \A g \in Loops : pc[g] = "stopped"
  /\ \E m \in scenario.messages : StartSend("closer", m)

(* send and heartbeat: an inactive client gets nothing. *)
Send(g) ==
  LET k == at[g] IN
  /\ pc[g] = "send" /\ clientMu[k] = None
  /\ IF inactive[k] THEN Return(g) /\ UNCHANGED clientMu
     ELSE Goto(g, "connection") /\ clientMu' = [clientMu EXCEPT ![k] = g]
  /\ UNCHANGED <<shared, lifecycle, table, connMu, clients, streams>>

(* connection.Send: refused after Close and after the end of the request. *)
ConnectionSendOpen(g) ==
  LET k == at[g] IN
  /\ pc[g] = "connection" /\ connMu[k] = None
  /\ IF requestDone[k] THEN Goto(g, "refused") /\ UNCHANGED connMu
     ELSE Goto(g, "write") /\ connMu' = [connMu EXCEPT ![k] = g]
  /\ UNCHANGED <<shared, lifecycle, table, clientMu, clients, streams>>
ConnectionSend(g) ==
  LET k == at[g] IN
  /\ pc[g] = "connection" /\ connMu[k] = None
  /\ IF connClosed[k] \/ requestDone[k] THEN Goto(g, "refused") /\ UNCHANGED connMu
     ELSE Goto(g, "write") /\ connMu' = [connMu EXCEPT ![k] = g]
  /\ UNCHANGED <<shared, lifecycle, table, clientMu, clients, streams>>

Write(g) ==
  LET k == at[g] lines == Frame(msg[g]) IN
  /\ pc[g] = "write"
  /\ \E o \in Outcomes(lines) :
       /\ WriteFrame(k, lines, o.n, o.ok)
       /\ written' = IF o.n = Len(lines)
                     THEN [written EXCEPT ![k] = Append(@, msg[g])] ELSE written
       /\ Goto(g, IF o.ok THEN "sent" ELSE "refused")
  /\ connMu' = [connMu EXCEPT ![k] = None]
  /\ UNCHANGED <<shared, lifecycle, table, clientMu, clients>>

(* The rest of send and heartbeat, still in the client's lock: a transfer   *)
(* counts as a sign of life.  An event that completes the client, or that a *)
(* closed connection refuses, ends it; a failed heartbeat does not.         *)
SendReturns(g) ==
  LET k == at[g]
      ends == g # "heart" /\ (pc[g] = "refused" \/ k \in Complete)
  IN
  /\ pc[g] \in {"sent", "refused"}
  /\ lastTransfer' = [lastTransfer EXCEPT ![k] = IF pc[g] = "sent" THEN clock ELSE @]
  /\ inactive' = [inactive EXCEPT ![k] = @ \/ ends]
  /\ surrendered' = [surrendered EXCEPT ![k] = @ \/ ends]
  /\ clientMu' = [clientMu EXCEPT ![k] = None]
  /\ IF ends /\ ~surrendered[k] THEN Goto(g, "close") ELSE Return(g)
  /\ UNCHANGED <<shared, lifecycle, table, connMu, streams>>

-----------------------------------------------------------------------------
(* The expiration loop: a tick, a scan of the table in its read lock, and   *)
(* unregister with the cutoff of the tick for a client found stale.  A tick *)
(* comes later than the one before, until the modelled time is over; one    *)
(* without clients would change nothing.                                    *)
Tick ==
  /\ pc["reaper"] = "idle" /\ scenario.time > 0 /\ registered # None
  /\ cutoff < clock - Expiration \/ clock = scenario.time
  /\ cutoff' = clock - Expiration
  /\ Goto("reaper", "ticked")
  /\ UNCHANGED <<scenario, clock, closed, registered, requestDone, frames, locks, clients, streams>>

ScanBegins ==
  /\ pc["reaper"] = "ticked"
  /\ table' = "read"
  /\ Goto("reaper", "scan")
  /\ UNCHANGED <<shared, lifecycle, clientMu, connMu, clients, streams>>

ScanActive ==
  /\ pc["reaper"] = "scan"
  /\ registered # None => clientMu[registered] = None
  /\ table' = "free"
  /\ Goto("reaper", IF /\ registered # None /\ ~inactive[registered]
                       /\ lastTransfer[registered] < cutoff THEN "expire" ELSE "idle")
  /\ UNCHANGED <<shared, lifecycle, clientMu, connMu, clients, streams>>
Scan ==
  /\ pc["reaper"] = "scan"
  /\ registered # None => clientMu[registered] = None
  /\ table' = "free"
  /\ Goto("reaper", IF registered # None /\ lastTransfer[registered] < cutoff
                    THEN "expire" ELSE "idle")
  /\ UNCHANGED <<shared, lifecycle, clientMu, connMu, clients, streams>>

Expire ==
  /\ pc["reaper"] = "expire" /\ lifecycle = None
  /\ lifecycle' = "reaper" /\ table' = "write"
  /\ Goto("reaper", "recheck")
  /\ UNCHANGED <<shared, clientMu, connMu, clients, streams>>

RemoveAny ==
  /\ pc["reaper"] = "recheck" /\ registered # None
  /\ registered' = None /\ table' = "free"
  /\ Call("reaper", "retire", registered, "idle")
  /\ UNCHANGED <<scenario, clock, closed, requestDone, cutoff, frames, lifecycle, clientMu, connMu,
                 clients, streams>>
Remove ==
  LET stale == registered # None /\ lastTransfer[registered] < cutoff IN
  /\ pc["reaper"] = "recheck"
  /\ registered # None => clientMu[registered] = None
  /\ table' = "free"
  /\ IF stale THEN Call("reaper", "retire", registered, "idle") ELSE Goto("reaper", "idle")
  /\ registered' = IF stale THEN None ELSE registered
  /\ lifecycle' = IF stale THEN lifecycle ELSE None
  /\ UNCHANGED <<scenario, clock, closed, requestDone, cutoff, frames, clientMu, connMu, clients, streams>>

-----------------------------------------------------------------------------
(* Bus.Close, and the loops' answer to b.stop. *)
CloseBus ==
  /\ pc["closer"] = "serving" /\ scenario.closes /\ table = "free"
  /\ closed' = TRUE
  /\ Goto("closer", "draining")
  /\ UNCHANGED <<scenario, clock, registered, requestDone, cutoff, frames, locks, clients, streams>>

Stop(g) ==
  /\ pc[g] = "idle" /\ closed
  /\ Goto(g, "stopped")
  /\ UNCHANGED <<shared, locks, clients, streams>>

CloseClients ==
  /\ pc["closer"] = "draining" /\ \A g \in Loops : pc[g] = "stopped"
  /\ IF registered = None THEN Goto("closer", "done")
     ELSE Call("closer", "retire", registered, "done")
  /\ UNCHANGED <<shared, locks, clients, streams>>

(* The peer goes away or the request times out; time passes. *)
RequestEnds(r) ==
  /\ pc[r] \notin {"start", "returned"} /\ ~requestDone[r]
  /\ requestDone' = [requestDone EXCEPT ![r] = TRUE]
  /\ UNCHANGED <<scenario, clock, closed, registered, cutoff, frames, locks, clients, streams, control>>

Advance ==
  /\ clock < scenario.time
  /\ clock' = clock + 1
  /\ UNCHANGED <<scenario, closed, registered, requestDone, cutoff, frames, locks, clients, streams, control>>

Serve(r) ==
  \/ Abandon(r) \/ Lock(r) \/ Replace(r) \/ Install(r)
  \/ Wake(r) \/ Result(r) \/ Cleanup(r) \/ Lookup(r) \/ Relock(r)
Retiring(g) == Retire(g) \/ Surrender(g) \/ CloseConnection(g)
Sending(g) == Send(g) \/ ConnectionSend(g) \/ Write(g) \/ SendReturns(g)
Reaping == ScanBegins \/ Scan \/ Expire \/ Remove

Next ==
  \/ \E r \in Requests : ServeDone(r) \/ OpenStream(r) \/ Serve(r) \/ RequestEnds(r)
  \/ \E g \in Procs : Retiring(g)
  \/ \E g \in Senders : Sending(g)
  \/ Deliver \/ Beat \/ Drain \/ Tick \/ Reaping
  \/ \E g \in Loops : Stop(g)
  \/ CloseBus \/ CloseClients \/ Advance

Spec == Init /\ [][Next]_vars

(* Goroutines that can go on do; a write ends (a deadline or the peer's     *)
(* going away sees to it); the ticker ticks, and a select between a tick    *)
(* and b.stop takes each in the end; a Close that was called goes on.  A    *)
(* handler gets a lock that is free again and again, since Go's mutexes     *)
(* starve nobody.  No request need arrive or end, nothing need be           *)
(* published, and the bus need not be closed.                               *)
Fairness ==
  /\ \A r \in Requests : SF_vars(Serve(r) \/ Retiring(r))
  /\ \A g \in {"worker", "heart"} : WF_vars(Sending(g) \/ Retiring(g) \/ Stop(g))
  /\ WF_vars(Tick \/ Reaping \/ Retiring("reaper")) /\ SF_vars(Stop("reaper"))
  /\ WF_vars(Sending("closer") \/ Retiring("closer") \/ CloseClients)
FairSpec == Spec /\ Fairness

-----------------------------------------------------------------------------
(* The response of a request is not written to once its handler returned:   *)
(* net/http takes the ResponseWriter away then, whoever else still holds    *)
(* the connection (a worker, the heartbeat loop).                           *)
LeavesReturnedAlone == \A r \in Requests : pc[r] = "returned" => wire'[r] = wire[r]
NoWriteAfterReturn == [][LeavesReturnedAlone]_vars

(* Whatever failed on the way, the peer's EventSource dispatches exactly    *)
(* the events whose frames were written whole, with their name, ID and data *)
(* (line breaks unified): a frame cut short by a transport failure never    *)
(* swallows or alters an event (writeFrame's comment).                      *)
ReceivedIntact == \A r \in Requests : Dispatched(wire[r]) = Expected(written[r])

(* A client is retired for a cause only: its own request ended or its       *)
(* stream broke, it completed, it expired, the bus closed, or another       *)
(* request is registering in its place.  The late cleanup of an old stream  *)
(* is none.                                                                 *)
RetiredForCause ==
  [][\A r \in Requests : ~inactive[r] /\ inactive'[r] =>
       \/ requestDone[r] \/ connClosed[r] \/ closed \/ r \in Complete
       \/ registered # r
       \/ \E s \in Requests : lifecycle = s /\ then[s] = "install"]_vars

(* Once a handler returned, a client of its that is still in the table is   *)
(* an offline one: nothing more is tried on it (Disconnect).                *)
NoGhostSession ==
  \A r \in Requests : pc[r] = "returned" /\ registered = r => inactive[r] /\ connClosed[r]

(* Only a client without a transfer for longer than the expiration time is  *)
(* removed by the expiration loop, also when it reconnected or was written  *)
(* to between the scan and the removal (unregister's second look).          *)
ExpiresOnlySilent ==
  [][\A r \in Requests : registered = r /\ registered' = None
        => lastTransfer[r] < clock - Expiration]_vars

(* A handler returns once its request is done or the bus is closed, also    *)
(* if it was only registering then, and whoever holds the locks it needs.   *)
ServeReturns ==
  \A r \in Requests :
    pc[r] # "start" /\ (requestDone[r] \/ closed) ~> pc[r] = "returned"

(* A client that stays silent past its expiration leaves the table, unless  *)
(* it shows a sign of life, reconnects or the bus is closed.                *)
SilentClientExpires ==
  \A r \in Requests :
    registered = r /\ lastTransfer[r] < clock - Expiration
      ~> registered # r \/ lastTransfer[r] >= clock - Expiration \/ closed
=============================================================================
