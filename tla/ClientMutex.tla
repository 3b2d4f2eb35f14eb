---------------------------- MODULE ClientMutex ----------------------------
(***************************************************************************)
(* What lockClientContext promises its callers: one mutex per client ID.   *)
(* A goroutine gets the mutex of an ID when nobody has it, keeps it until  *)
(* it unlocks, and holds at most one.  Module Bus uses the lifecycle lock  *)
(* in this form; ClientLock shows that the code implements it.             *)
(***************************************************************************)
CONSTANTS Procs, ClientIDs, NoProc

VARIABLE owner   \* the goroutine that has the lock of each ID

Init == owner = [i \in ClientIDs |-> NoProc]

Lock(p, i) ==
  /\ owner[i] = NoProc
  /\ \A j \in ClientIDs : owner[j] # p
  /\ owner' = [owner EXCEPT ![i] = p]

Unlock(p, i) ==
  /\ owner[i] = p
  /\ owner' = [owner EXCEPT ![i] = NoProc]

Next == \E p \in Procs, i \in ClientIDs : Lock(p, i) \/ Unlock(p, i)

Spec == Init /\ [][Next]_owner
=============================================================================
