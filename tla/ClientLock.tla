----------------------------- MODULE ClientLock -----------------------------
(***************************************************************************)
(* lockClientContext (bus.go): the lifecycle lock of a client ID.  Locks   *)
(* are objects in a map that exist only while somebody uses them: a caller *)
(* takes a reference under clientLockMu, then sends to the one-slot gate   *)
(* channel, and the last reference deletes the map entry.  A caller whose  *)
(* context is cancelled gives its reference back, with or without having   *)
(* passed the gate.  A lock object that nobody refers to is garbage, and   *)
(* its identity is used again for the next object.                         *)
(***************************************************************************)
EXTENDS Integers, FiniteSets

CONSTANTS Procs,       \* goroutines that lock a client ID
          Cancelable,  \* those that pass a context that may be cancelled
          ClientIDs,
          Locks,       \* identities for lock objects
          NoLock,      \* nil
          NoProc       \* nobody has the lock

ASSUME ProcsAssumption == IsFiniteSet(Procs) /\ NoProc \notin Procs
ASSUME LocksAssumption == NoLock \notin Locks
ASSUME CancelableAssumption == Cancelable \subseteq Procs

VARIABLES clientLocks,  \* the map from ID to lock object
          references,   \* per lock object
          gate,         \* the gate channel of the lock object is full
          pc,           \* where each goroutine is
          id,           \* the client ID it locks
          lock,         \* the lock object it refers to
          canceled      \* goroutines whose context is cancelled

vars == <<clientLocks, references, gate, pc, id, lock, canceled>>

Init ==
  /\ clientLocks = [i \in ClientIDs |-> NoLock]
  /\ references = [l \in Locks |-> 0]
  /\ gate = [l \in Locks |-> FALSE]
  /\ pc = [p \in Procs |-> "idle"]
  /\ id \in [Procs -> ClientIDs]
  /\ lock = [p \in Procs |-> NoLock]
  /\ canceled = {}

Garbage == {l \in Locks : /\ \A i \in ClientIDs : clientLocks[i] # l
                          /\ \A p \in Procs : lock[p] # l}

(* The first section under clientLockMu: find or create the lock object and *)
(* count the reference.                                                     *)
Reference(p, i) ==
  /\ pc[p] = "idle"
  /\ \/ /\ clientLocks[i] = NoLock
        /\ \E l \in Garbage :
             /\ clientLocks' = [clientLocks EXCEPT ![i] = l]
             /\ references' = [references EXCEPT ![l] = 1]
             /\ gate' = [gate EXCEPT ![l] = FALSE]
             /\ lock' = [lock EXCEPT ![p] = l]
     \/ /\ clientLocks[i] # NoLock
        /\ references' = [references EXCEPT ![clientLocks[i]] = @ + 1]
        /\ lock' = [lock EXCEPT ![p] = clientLocks[i]]
        /\ UNCHANGED <<clientLocks, gate>>
  /\ id' = [id EXCEPT ![p] = i]
  /\ pc' = [pc EXCEPT ![p] = "select"]
  /\ UNCHANGED canceled

(* The select sends to the gate.  A context that is already cancelled makes *)
(* the caller back out.                                                     *)
PassGate(p) ==
  /\ pc[p] = "select"
  /\ ~gate[lock[p]]
  /\ gate' = [gate EXCEPT ![lock[p]] = TRUE]
  /\ pc' = [pc EXCEPT ![p] = IF p \in canceled THEN "backout" ELSE "locked"]
  /\ UNCHANGED <<clientLocks, references, id, lock, canceled>>

(* The select sees the cancelled context instead. *)
GiveUp(p) ==
  /\ pc[p] = "select"
  /\ p \in canceled
  /\ pc' = [pc EXCEPT ![p] = "release"]
  /\ UNCHANGED <<clientLocks, references, gate, id, lock, canceled>>

(* unlock, or backing out: the gate is emptied, then the reference returned. *)
BackOutInside(p) ==
  /\ pc[p] \in {"locked", "backout"}
  /\ gate' = [gate EXCEPT ![lock[p]] = pc[p] = "backout"]
  /\ pc' = [pc EXCEPT ![p] = "release"]
  /\ UNCHANGED <<clientLocks, references, id, lock, canceled>>
LeaveGate(p) ==
  /\ pc[p] \in {"locked", "backout"}
  /\ gate' = [gate EXCEPT ![lock[p]] = FALSE]
  /\ pc' = [pc EXCEPT ![p] = "release"]
  /\ UNCHANGED <<clientLocks, references, id, lock, canceled>>

(* The map after p returned its reference: the last one deletes the entry. *)
DeleteAlways(p) == [clientLocks EXCEPT ![id[p]] = NoLock]
DeleteIfUnused(p) ==
  IF references[lock[p]] = 1 /\ clientLocks[id[p]] = lock[p]
  THEN [clientLocks EXCEPT ![id[p]] = NoLock]
  ELSE clientLocks

ReleaseReference(p) ==
  /\ pc[p] = "release"
  /\ references' = [references EXCEPT ![lock[p]] = @ - 1]
  /\ clientLocks' = DeleteIfUnused(p)
  /\ lock' = [lock EXCEPT ![p] = NoLock]
  /\ pc' = [pc EXCEPT ![p] = "idle"]
  /\ canceled' = canceled \ {p}
  /\ UNCHANGED <<gate, id>>

(* The caller's context is cancelled, at any time before it has the lock. *)
Cancel(p) ==
  /\ pc[p] = "select"
  /\ p \in Cancelable \ canceled
  /\ canceled' = canceled \cup {p}
  /\ UNCHANGED <<clientLocks, references, gate, pc, id, lock>>

Next ==
  \E p \in Procs :
     \/ \E i \in ClientIDs : Reference(p, i)
     \/ PassGate(p)
     \/ GiveUp(p)
     \/ LeaveGate(p)
     \/ ReleaseReference(p)
     \/ Cancel(p)

Spec == Init /\ [][Next]_vars

(* Blocked senders on a Go channel are served first in, first out: a caller *)
(* at the gate is not passed over for ever.  A caller that has the lock     *)
(* unlocks it, and running code returns its reference.                      *)
Fairness ==
  \A p \in Procs :
     /\ SF_vars(PassGate(p))
     /\ WF_vars(GiveUp(p) \/ LeaveGate(p) \/ ReleaseReference(p))

FairSpec == Spec /\ Fairness

-----------------------------------------------------------------------------
(* Every variable has its type; a goroutine outside lockClientContext       *)
(* refers to no lock object, and one inside does.                           *)
TypeOK ==
  /\ clientLocks \in [ClientIDs -> Locks \cup {NoLock}]
  /\ references \in [Locks -> Nat]
  /\ gate \in [Locks -> BOOLEAN]
  /\ pc \in [Procs -> {"idle", "select", "locked", "backout", "release"}]
  /\ id \in [Procs -> ClientIDs]
  /\ lock \in [Procs -> Locks \cup {NoLock}]
  /\ \A p \in Procs : pc[p] = "idle" <=> lock[p] = NoLock
  /\ canceled \in SUBSET Cancelable

Users(l) == {p \in Procs : lock[p] = l}

(* The lifecycle sections of one client ID exclude each other, although the *)
(* lock object of the ID is deleted and created again while callers wait.   *)
MutualExclusion ==
  \A p, q \in Procs :
     (pc[p] = "locked" /\ pc[q] = "locked" /\ id[p] = id[q]) => p = q

(* The map entry lives exactly as long as somebody refers to the object:    *)
(* nobody works with an object that was deleted from the map, and no entry  *)
(* stays behind after the last caller, cancelled or not.                    *)
EntryLivesWhileUsed ==
  \A i \in ClientIDs :
     /\ \A p \in Procs : (pc[p] # "idle" /\ id[p] = i) => lock[p] = clientLocks[i]
     /\ clientLocks[i] # NoLock => \E p \in Procs : pc[p] # "idle" /\ id[p] = i

(* The reference count is the number of goroutines that use the object. *)
ReferencesCounted ==
  \A l \in Locks : references[l] = Cardinality(Users(l))

(* Every caller gets the lock or, if its context is cancelled, an error. *)
EveryCallerProceeds ==
  \A p \in Procs : pc[p] = "select" ~> pc[p] # "select"

(* The goroutine that has the lock of each ID, as callers see it. *)
Owner ==
  [i \in ClientIDs |->
     IF \E p \in Procs : pc[p] = "locked" /\ id[p] = i
     THEN CHOOSE p \in Procs : pc[p] = "locked" /\ id[p] = i
     ELSE NoProc]

Abstract == INSTANCE ClientMutex WITH owner <- Owner

(* The reference-counted lock objects implement one mutex per client ID. *)
ImplementsMutex == Abstract!Spec
=============================================================================
