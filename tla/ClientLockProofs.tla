-------------------------- MODULE ClientLockProofs --------------------------
(***************************************************************************)
(* Proofs about the lifecycle lock of module ClientLock, for every number  *)
(* of goroutines, client IDs and lock objects.  Mutual exclusion is not    *)
(* inductive: it rests on the map entry staying in place while anybody     *)
(* refers to the lock object, and that rests on the reference count.       *)
(***************************************************************************)
EXTENDS ClientLock, FiniteSetTheorems, TLAPS

(* A leaf is for Zenon unless it names another prover. *)
USE Zenon

(* Different client IDs have different lock objects. *)
LocksDistinct ==
  \A i, j \in ClientIDs :
     (clientLocks[i] = clientLocks[j] /\ clientLocks[i] # NoLock) => i = j

Inside(p) == pc[p] \in {"locked", "backout"}

(* The gate is full while a goroutine is past it, and one goroutine is. *)
GateGuards ==
  /\ \A p \in Procs : Inside(p) => gate[lock[p]]
  /\ \A p, q \in Procs : (Inside(p) /\ Inside(q) /\ lock[p] = lock[q]) => p = q

IInv == TypeOK /\ ReferencesCounted /\ EntryLivesWhileUsed /\ LocksDistinct /\ GateGuards

-----------------------------------------------------------------------------
(* The users of a lock object are finitely many (references is an int). *)
LEMMA UsersFinite ==
  ASSUME NEW l PROVE IsFiniteSet(Users(l)) /\ Cardinality(Users(l)) \in Nat
<1>1. Users(l) \subseteq Procs
  BY DEF Users
<1>2. IsFiniteSet(Users(l))
  BY <1>1, FS_Subset, ProcsAssumption
<1> QED
  BY <1>2, FS_CardinalityType

(* A count of one means a single user: what releaseReference relies on when *)
(* it deletes the map entry.                                                *)
LEMMA LastUser ==
  ASSUME NEW l, NEW p \in Procs, lock[p] = l, Cardinality(Users(l)) = 1
  PROVE  \A q \in Procs : lock[q] = l => q = p
<1>1. PICK x : Users(l) = {x}
  BY UsersFinite, FS_Singleton
<1> QED
  BY <1>1, SMT DEF Users

(* A count other than one means another user. *)
LEMMA OtherUser ==
  ASSUME NEW l, NEW p \in Procs, lock[p] = l, Cardinality(Users(l)) # 1
  PROVE  \E q \in Procs \ {p} : lock[q] = l
<1> SUFFICES ASSUME \A q \in Procs \ {p} : lock[q] # l
             PROVE  FALSE
  OBVIOUS
<1>1. Users(l) = {p}
  BY DEF Users
<1> QED
  BY <1>1, FS_Singleton

(* Taking a reference adds the goroutine to the users of the object. *)
LEMMA CountUp ==
  ASSUME TypeOK, NEW l \in Locks, NEW p \in Procs, lock[p] = NoLock,
         lock' = [lock EXCEPT ![p] = l]
  PROVE  /\ Cardinality(Users(l)') = Cardinality(Users(l)) + 1
         /\ \A k \in Locks \ {l} : Users(k)' = Users(k)
<1>1. l # NoLock
  BY LocksAssumption
<1>2. Users(l)' = Users(l) \cup {p} /\ p \notin Users(l)
  BY <1>1 DEF Users, TypeOK
<1>3. Cardinality(Users(l) \cup {p}) = Cardinality(Users(l)) + 1
  BY <1>2, UsersFinite, FS_AddElement
<1>4. \A k \in Locks \ {l} : Users(k)' = Users(k)
  BY LocksAssumption DEF Users, TypeOK
<1> QED
  BY <1>2, <1>3, <1>4

(* Returning a reference removes it. *)
LEMMA CountDown ==
  ASSUME TypeOK, NEW p \in Procs, lock[p] \in Locks,
         lock' = [lock EXCEPT ![p] = NoLock]
  PROVE  /\ Cardinality(Users(lock[p])) \in Nat \ {0}
         /\ \A k \in Locks :
              Cardinality(Users(k)') = IF k = lock[p] THEN Cardinality(Users(k)) - 1
                                       ELSE Cardinality(Users(k))
<1> DEFINE l == lock[p]
<1>1. p \in Users(l) /\ \A k \in Locks : Users(k)' = IF k = l THEN Users(l) \ {p} ELSE Users(k)
  BY LocksAssumption DEF Users, TypeOK
<1>2. Cardinality(Users(l) \ {p}) = Cardinality(Users(l)) - 1
  BY <1>1, UsersFinite, FS_RemoveElement
<1>3. Cardinality(Users(l) \ {p}) \in Nat /\ Cardinality(Users(l)) \in Nat
  <2>1. IsFiniteSet(Users(l) \ {p})
    BY UsersFinite, FS_Subset
  <2> QED
    BY <2>1, UsersFinite, FS_CardinalityType
<1>4. Cardinality(Users(l)) \in Nat \ {0}
  BY <1>2, <1>3, SMT
<1>5. ASSUME NEW k \in Locks
      PROVE  Cardinality(Users(k)') = IF k = l THEN Cardinality(Users(k)) - 1
                                      ELSE Cardinality(Users(k))
  <2>1. CASE k = l
    <3>1. Users(k)' = Users(l) \ {p} /\ Users(k) = Users(l)
      BY <1>1, <2>1
    <3> QED
      BY <3>1, <1>2, <2>1
  <2>2. CASE k # l
    <3>1. Users(k)' = Users(k)
      BY <1>1, <2>2
    <3> QED
      BY <3>1, <2>2
  <2> QED
    BY <2>1, <2>2
<1> QED
  BY <1>4, <1>5

-----------------------------------------------------------------------------
(* The inductive invariant holds initially. *)
LEMMA InitIInv == Init => IInv
<1> SUFFICES ASSUME Init PROVE IInv
  OBVIOUS
<1>1. TypeOK
  BY LocksAssumption DEF Init, TypeOK
<1>2. ReferencesCounted
  <2>1. \A l \in Locks : Users(l) = {}
    BY LocksAssumption DEF Init, Users
  <2> QED
    BY <2>1, FS_EmptySet DEF Init, ReferencesCounted
<1>3. EntryLivesWhileUsed /\ LocksDistinct /\ GateGuards
  BY DEF Init, EntryLivesWhileUsed, LocksDistinct, GateGuards, Inside
<1> QED
  BY <1>1, <1>2, <1>3 DEF IInv

(* lockClientContext, first section: the reference taken keeps the map and  *)
(* the counts in step.                                                      *)
LEMMA ReferenceStep ==
  ASSUME IInv, NEW p \in Procs, NEW i \in ClientIDs, Reference(p, i)
  PROVE  IInv'
<1> USE DEF IInv
<1>1. PICK l \in Locks :
        /\ lock' = [lock EXCEPT ![p] = l]
        /\ clientLocks' = [clientLocks EXCEPT ![i] = l]
        /\ \/ clientLocks[i] = l /\ gate' = gate /\ references' = [references EXCEPT ![l] = @ + 1]
           \/ /\ clientLocks[i] = NoLock /\ l \in Garbage
              /\ gate' = [gate EXCEPT ![l] = FALSE]
              /\ references' = [references EXCEPT ![l] = 1]
  <2>1. CASE clientLocks[i] = NoLock
    BY <2>1 DEF Reference, Garbage
  <2>2. CASE clientLocks[i] # NoLock
    <3>1. clientLocks[i] \in Locks /\ clientLocks = [clientLocks EXCEPT ![i] = clientLocks[i]]
      BY <2>2 DEF TypeOK
    <3> QED
      BY <2>2, <3>1 DEF Reference
  <2> QED
    BY <2>1, <2>2
<1>2. /\ pc[p] = "idle" /\ lock[p] = NoLock /\ l # NoLock /\ canceled' = canceled
      /\ id' = [id EXCEPT ![p] = i] /\ pc' = [pc EXCEPT ![p] = "select"]
  BY LocksAssumption DEF Reference, TypeOK
<1>3. TypeOK'
  <2>1. references' \in [Locks -> Nat] /\ clientLocks' \in [ClientIDs -> Locks \cup {NoLock}]
    BY <1>1, SMT DEF TypeOK
  <2>2. gate' \in [Locks -> BOOLEAN]
    BY <1>1 DEF TypeOK
  <2>3. /\ lock' \in [Procs -> Locks \cup {NoLock}]
        /\ \A q \in Procs : pc'[q] = "idle" <=> lock'[q] = NoLock
    BY <1>1, <1>2 DEF TypeOK
  <2> QED
    BY <2>1, <2>2, <2>3, <1>2 DEF TypeOK
<1>4. ReferencesCounted'
  <2>1. references' = [references EXCEPT ![l] = Cardinality(Users(l)) + 1]
    <3>1. CASE clientLocks[i] = l
      BY <1>1, <1>2, <3>1 DEF ReferencesCounted, TypeOK
    <3>2. CASE clientLocks[i] = NoLock
      <4>1. Users(l) = {}
        BY <1>1, <1>2, <3>2 DEF Users, Garbage
      <4> QED
        BY <4>1, <1>1, <1>2, <3>2, FS_EmptySet, SMT
    <3> QED
      BY <1>1, <3>1, <3>2
  <2>2. Cardinality(Users(l)') = Cardinality(Users(l)) + 1
        /\ \A k \in Locks \ {l} : Users(k)' = Users(k)
    BY <1>1, <1>2, CountUp
  <2>3. ASSUME NEW k \in Locks PROVE references'[k] = Cardinality(Users(k)')
    <3>1. CASE k = l
      BY <3>1, <2>1, <2>2 DEF TypeOK
    <3>2. CASE k # l
      <4>1. Users(k)' = Users(k) /\ references'[k] = references[k]
        BY <3>2, <2>1, <2>2 DEF TypeOK
      <4> QED
        BY <4>1 DEF ReferencesCounted
    <3> QED
      BY <3>1, <3>2
  <2> QED
    BY <2>3 DEF ReferencesCounted
<1>5. EntryLivesWhileUsed'
  BY <1>1, <1>2, SMT DEF EntryLivesWhileUsed, TypeOK
<1>6. LocksDistinct'
  BY <1>1, <1>2, SMT DEF LocksDistinct, Garbage, TypeOK
<1>7. GateGuards'
  BY <1>1, <1>2, SMT DEF GateGuards, Inside, Garbage, TypeOK
<1> QED
  BY <1>3, <1>4, <1>5, <1>6, <1>7

(* The gate lets one goroutine through. *)
LEMMA PassGateStep ==
  ASSUME IInv, NEW p \in Procs, PassGate(p)
  PROVE  IInv'
<1> USE DEF IInv, PassGate
<1>1. lock[p] \in Locks
  BY DEF TypeOK
<1>2. TypeOK'
  BY DEF TypeOK
<1>3. ReferencesCounted'
  BY DEF ReferencesCounted, Users
<1>4. EntryLivesWhileUsed'
  BY SMT DEF EntryLivesWhileUsed, TypeOK
<1>5. LocksDistinct'
  BY DEF LocksDistinct
<1>6. GateGuards'
  BY <1>1, SMT DEF GateGuards, Inside, TypeOK
<1> QED
  BY <1>2, <1>3, <1>4, <1>5, <1>6

(* A cancelled caller leaves the select without the gate. *)
LEMMA GiveUpStep ==
  ASSUME IInv, NEW p \in Procs, GiveUp(p)
  PROVE  IInv'
<1> USE DEF IInv, GiveUp
<1>1. TypeOK'
  BY DEF TypeOK
<1>2. ReferencesCounted' /\ LocksDistinct'
  BY DEF ReferencesCounted, Users, LocksDistinct
<1>3. EntryLivesWhileUsed'
  BY SMT DEF EntryLivesWhileUsed, TypeOK
<1>4. GateGuards'
  BY SMT DEF GateGuards, Inside, TypeOK
<1> QED
  BY <1>1, <1>2, <1>3, <1>4

(* The goroutine past the gate empties it: nobody else is past it. *)
LEMMA LeaveGateStep ==
  ASSUME IInv, NEW p \in Procs, LeaveGate(p)
  PROVE  IInv'
<1> USE DEF IInv, LeaveGate
<1>1. TypeOK'
  BY DEF TypeOK
<1>2. ReferencesCounted' /\ LocksDistinct'
  BY DEF ReferencesCounted, Users, LocksDistinct
<1>3. EntryLivesWhileUsed'
  BY SMT DEF EntryLivesWhileUsed, TypeOK
<1>4. GateGuards'
  BY SMT DEF GateGuards, Inside, TypeOK
<1> QED
  BY <1>1, <1>2, <1>3, <1>4

(* releaseReference: the entry is deleted exactly with its last user. *)
LEMMA ReleaseStep ==
  ASSUME IInv, NEW p \in Procs, ReleaseReference(p)
  PROVE  IInv'
<1> DEFINE l == lock[p]
<1> USE DEF IInv
<1>1. /\ pc[p] = "release" /\ l \in Locks /\ l # NoLock /\ l = clientLocks[id[p]]
      /\ id[p] \in ClientIDs /\ gate' = gate /\ id' = id
      /\ lock' = [lock EXCEPT ![p] = NoLock]
      /\ pc' = [pc EXCEPT ![p] = "idle"]
      /\ references' = [references EXCEPT ![l] = @ - 1]
      /\ canceled' = canceled \ {p}
  BY LocksAssumption, SMT DEF ReleaseReference, TypeOK, EntryLivesWhileUsed
<1>2. references[l] = Cardinality(Users(l)) /\ references[l] \in Nat \ {0}
  BY <1>1, CountDown DEF ReferencesCounted
<1>3. clientLocks' = IF references[l] = 1 THEN [clientLocks EXCEPT ![id[p]] = NoLock]
                     ELSE clientLocks
  BY <1>1 DEF ReleaseReference, DeleteIfUnused
<1>4. TypeOK'
  BY <1>1, <1>2, <1>3, SMT DEF TypeOK
<1>5. ReferencesCounted'
  <2>1. \A k \in Locks : references'[k] = IF k = l THEN references[k] - 1 ELSE references[k]
    BY <1>1 DEF TypeOK
  <2>2. \A k \in Locks :
          Cardinality(Users(k)') = IF k = l THEN Cardinality(Users(k)) - 1
                                   ELSE Cardinality(Users(k))
    BY <1>1, CountDown
  <2> QED
    BY <2>1, <2>2 DEF ReferencesCounted
<1>6. EntryLivesWhileUsed'
  <2>1. CASE references[l] = 1
    <3>1. \A q \in Procs : lock[q] = l => q = p
      BY <2>1, <1>1, <1>2, LastUser
    <3> QED
      BY <3>1, <2>1, <1>1, <1>3, SMT DEF EntryLivesWhileUsed, TypeOK
  <2>2. CASE references[l] # 1
    <3>1. PICK q \in Procs \ {p} : lock[q] = l
      BY <2>2, <1>1, <1>2, OtherUser
    <3>2. pc[q] # "idle" /\ id[q] = id[p]
      BY <3>1, <1>1, SMT DEF TypeOK, EntryLivesWhileUsed, LocksDistinct
    <3> QED
      BY <3>1, <3>2, <2>2, <1>1, <1>3, SMT DEF EntryLivesWhileUsed, TypeOK
  <2> QED
    BY <2>1, <2>2
<1>7. LocksDistinct'
  BY <1>1, <1>3 DEF LocksDistinct, TypeOK
<1>8. GateGuards'
  BY <1>1, SMT DEF GateGuards, Inside, TypeOK
<1> QED
  BY <1>4, <1>5, <1>6, <1>7, <1>8

(* A context is cancelled. *)
LEMMA CancelStep ==
  ASSUME IInv, NEW p \in Procs, Cancel(p)
  PROVE  IInv'
<1> USE DEF IInv, Cancel
<1>1. TypeOK'
  BY DEF TypeOK
<1>2. ReferencesCounted' /\ EntryLivesWhileUsed' /\ LocksDistinct' /\ GateGuards'
  BY SMT DEF ReferencesCounted, Users, EntryLivesWhileUsed, LocksDistinct, GateGuards, Inside
<1> QED
  BY <1>1, <1>2

-----------------------------------------------------------------------------
(* Every step of lockClientContext and unlock keeps the invariant. *)
LEMMA NextIInv == IInv /\ [Next]_vars => IInv'
<1> SUFFICES ASSUME IInv, [Next]_vars PROVE IInv'
  OBVIOUS
<1>1. CASE UNCHANGED vars
  BY <1>1, SMT DEF vars, IInv, TypeOK, ReferencesCounted, Users, EntryLivesWhileUsed,
              LocksDistinct, GateGuards, Inside
<1>2. ASSUME NEW p \in Procs, NEW i \in ClientIDs, Reference(p, i) PROVE IInv'
  BY <1>2, ReferenceStep
<1>3. ASSUME NEW p \in Procs, PassGate(p) PROVE IInv'
  BY <1>3, PassGateStep
<1>4. ASSUME NEW p \in Procs, GiveUp(p) PROVE IInv'
  BY <1>4, GiveUpStep
<1>5. ASSUME NEW p \in Procs, LeaveGate(p) PROVE IInv'
  BY <1>5, LeaveGateStep
<1>6. ASSUME NEW p \in Procs, ReleaseReference(p) PROVE IInv'
  BY <1>6, ReleaseStep
<1>7. ASSUME NEW p \in Procs, Cancel(p) PROVE IInv'
  BY <1>7, CancelStep
<1> QED
  BY <1>1, <1>2, <1>3, <1>4, <1>5, <1>6, <1>7 DEF Next

(* One gate per ID and one goroutine past a gate: lifecycle sections of an  *)
(* ID exclude each other.                                                   *)
LEMMA IInvExcludes == IInv => MutualExclusion
  BY SMT DEF IInv, MutualExclusion, EntryLivesWhileUsed, GateGuards, Inside, TypeOK

(* The invariant holds in every state of lockClientContext's callers. *)
THEOREM Invariant == Spec => []IInv
  BY InitIInv, NextIInv, PTL DEF Spec

(* Type correctness. *)
THEOREM TypeCorrect == Spec => []TypeOK
<1>1. IInv => TypeOK
  BY DEF IInv
<1> QED
  BY <1>1, Invariant, PTL

(* Two goroutines never hold the lifecycle lock of the same client ID, for  *)
(* any number of callers, cancellations and re-created lock objects.        *)
THEOREM LockExcludes == Spec => []MutualExclusion
  BY Invariant, IInvExcludes, PTL

(* The entry of an ID in clientLocks lives exactly as long as callers use   *)
(* it: the map does not leak, and no caller is left with a deleted entry.   *)
THEOREM EntriesLive == Spec => []EntryLivesWhileUsed
<1>1. IInv => EntryLivesWhileUsed BY DEF IInv
<1> QED BY <1>1, Invariant, PTL

(* references is the number of callers between the two sections under       *)
(* clientLockMu, whether they got the lock, wait for it or gave up.         *)
THEOREM ReferencesAreUsers == Spec => []ReferencesCounted
<1>1. IInv => ReferencesCounted BY DEF IInv
<1> QED BY <1>1, Invariant, PTL

-----------------------------------------------------------------------------
(* With mutual exclusion the owner of an ID is the goroutine that holds its *)
(* lock, and NoProc when there is none.                                     *)
LEMMA OwnerOf ==
  ASSUME IInv, NEW i \in ClientIDs
  PROVE  /\ \A p \in Procs : (pc[p] = "locked" /\ id[p] = i) => Owner[i] = p
         /\ (\A p \in Procs : ~(pc[p] = "locked" /\ id[p] = i)) => Owner[i] = NoProc
<1>1. MutualExclusion
  BY IInvExcludes
<1> QED
  BY <1>1 DEF Owner, MutualExclusion

(* A step that neither takes nor releases the lock of an ID leaves its      *)
(* owner alone.                                                             *)
LEMMA OwnerStaysAt ==
  ASSUME IInv, IInv', NEW i \in ClientIDs,
         \A q \in Procs : (pc'[q] = "locked" /\ id'[q] = i) <=> (pc[q] = "locked" /\ id[q] = i)
  PROVE  Owner'[i] = Owner[i]
<1>1. MutualExclusion'
  BY IInvExcludes, PTL
<1>2. CASE \E p \in Procs : pc[p] = "locked" /\ id[p] = i
  <2>1. PICK p \in Procs : pc[p] = "locked" /\ id[p] = i
    BY <1>2
  <2>2. Owner[i] = p
    BY <2>1, OwnerOf
  <2>3. Owner'[i] = p
    BY <2>1, <1>1 DEF Owner, MutualExclusion
  <2> QED
    BY <2>2, <2>3
<1>3. CASE \A p \in Procs : ~(pc[p] = "locked" /\ id[p] = i)
  BY <1>3 DEF Owner
<1> QED
  BY <1>2, <1>3

LEMMA OwnerStays ==
  ASSUME IInv, IInv',
         \A q \in Procs : /\ pc'[q] = "locked" <=> pc[q] = "locked"
                          /\ pc[q] = "locked" => id'[q] = id[q]
  PROVE  Owner' = Owner
<1>1. \A i \in ClientIDs : Owner'[i] = Owner[i]
  BY OwnerStaysAt
<1> QED
  BY <1>1, SMT DEF Owner

(* Passing the gate with a live context is Lock, unlocking is Unlock, and   *)
(* every other step, cancellation and bookkeeping included, is a stutter.   *)
LEMMA StepRefines ==
  ASSUME IInv, IInv', [Next]_vars
  PROVE  [Abstract!Next]_Owner
<1>1. CASE UNCHANGED vars
  BY <1>1, OwnerStays DEF vars
<1>2. ASSUME NEW p \in Procs, NEW i \in ClientIDs, Reference(p, i) PROVE Owner' = Owner
  <2>1. \A q \in Procs : /\ pc'[q] = "locked" <=> pc[q] = "locked"
                         /\ pc[q] = "locked" => id'[q] = id[q]
    BY <1>2 DEF Reference, IInv, TypeOK
  <2> QED
    BY <2>1, OwnerStays
<1>3. ASSUME NEW p \in Procs, PassGate(p) PROVE [Abstract!Next]_Owner
  <2>1. CASE p \in canceled
    <3>1. \A q \in Procs : /\ pc'[q] = "locked" <=> pc[q] = "locked"
                           /\ pc[q] = "locked" => id'[q] = id[q]
      BY <1>3, <2>1 DEF PassGate, IInv, TypeOK
    <3> QED
      BY <3>1, OwnerStays
  <2>2. CASE p \notin canceled
    <3> DEFINE i == id[p]
    <3>1. i \in ClientIDs /\ pc[p] = "select" /\ id' = id /\ pc' = [pc EXCEPT ![p] = "locked"]
      BY <1>3, <2>2 DEF PassGate, IInv, TypeOK
    <3>2. \A q \in Procs : ~(pc[q] = "locked" /\ id[q] = i)
      BY <1>3, <3>1, SMT DEF PassGate, IInv, TypeOK, EntryLivesWhileUsed, GateGuards, Inside
    <3>3. Owner[i] = NoProc
      BY <3>1, <3>2, OwnerOf
    <3>4. \A j \in ClientIDs : Owner[j] # p
      BY <3>1, ProcsAssumption DEF Owner
    <3>5. Owner' = [Owner EXCEPT ![i] = p]
      <4>1. Owner'[i] = p
        BY <3>1, <3>2 DEF Owner, IInv, TypeOK
      <4>2. ASSUME NEW j \in ClientIDs \ {i} PROVE Owner'[j] = Owner[j]
        <5>1. \A q \in Procs : (pc'[q] = "locked" /\ id'[q] = j) <=> (pc[q] = "locked" /\ id[q] = j)
          BY <3>1, <4>2 DEF IInv, TypeOK
        <5> QED
          BY <5>1, OwnerStaysAt
      <4>3. /\ Owner = [j \in ClientIDs |-> Owner[j]]
            /\ Owner' = [j \in ClientIDs |-> Owner'[j]]
        BY DEF Owner
      <4> QED
        BY <4>1, <4>2, <4>3, <3>1
    <3>6. Abstract!Lock(p, i)
      BY <3>3, <3>4, <3>5 DEF Abstract!Lock
    <3> QED
      BY <3>1, <3>6 DEF Abstract!Next
  <2> QED
    BY <2>1, <2>2
<1>4. ASSUME NEW p \in Procs, GiveUp(p) PROVE Owner' = Owner
  <2>1. \A q \in Procs : /\ pc'[q] = "locked" <=> pc[q] = "locked"
                         /\ pc[q] = "locked" => id'[q] = id[q]
    BY <1>4 DEF GiveUp, IInv, TypeOK
  <2> QED
    BY <2>1, OwnerStays
<1>5. ASSUME NEW p \in Procs, LeaveGate(p) PROVE [Abstract!Next]_Owner
  <2>1. CASE pc[p] = "backout"
    <3>1. \A q \in Procs : /\ pc'[q] = "locked" <=> pc[q] = "locked"
                           /\ pc[q] = "locked" => id'[q] = id[q]
      BY <1>5, <2>1 DEF LeaveGate, IInv, TypeOK
    <3> QED
      BY <3>1, OwnerStays
  <2>2. CASE pc[p] = "locked"
    <3> DEFINE i == id[p]
    <3>1. i \in ClientIDs /\ id' = id /\ pc' = [pc EXCEPT ![p] = "release"]
      BY <1>5 DEF LeaveGate, IInv, TypeOK
    <3>2. Owner[i] = p
      BY <2>2, <3>1, OwnerOf
    <3>3. Owner' = [Owner EXCEPT ![i] = NoProc]
      <4>1. Owner'[i] = NoProc
        <5>1. \A q \in Procs : ~(pc'[q] = "locked" /\ id'[q] = i)
          BY <2>2, <3>1, IInvExcludes DEF MutualExclusion, IInv, TypeOK
        <5> QED
          BY <5>1, <3>1 DEF Owner
      <4>2. ASSUME NEW j \in ClientIDs \ {i} PROVE Owner'[j] = Owner[j]
        <5>1. \A q \in Procs : (pc'[q] = "locked" /\ id'[q] = j) <=> (pc[q] = "locked" /\ id[q] = j)
          BY <3>1, <4>2 DEF IInv, TypeOK
        <5> QED
          BY <5>1, OwnerStaysAt
      <4>3. /\ Owner = [j \in ClientIDs |-> Owner[j]]
            /\ Owner' = [j \in ClientIDs |-> Owner'[j]]
        BY DEF Owner
      <4> QED
        BY <4>1, <4>2, <4>3, <3>1
    <3>4. Abstract!Unlock(p, i)
      BY <3>2, <3>3 DEF Abstract!Unlock
    <3> QED
      BY <3>1, <3>4 DEF Abstract!Next
  <2> QED
    BY <2>1, <2>2, <1>5 DEF LeaveGate
<1>6. ASSUME NEW p \in Procs, ReleaseReference(p) PROVE Owner' = Owner
  <2>1. \A q \in Procs : /\ pc'[q] = "locked" <=> pc[q] = "locked"
                         /\ pc[q] = "locked" => id'[q] = id[q]
    BY <1>6 DEF ReleaseReference, IInv, TypeOK
  <2> QED
    BY <2>1, OwnerStays
<1>7. ASSUME NEW p \in Procs, Cancel(p) PROVE Owner' = Owner
  BY <1>7, OwnerStays DEF Cancel
<1> QED
  BY <1>1, <1>2, <1>3, <1>4, <1>5, <1>6, <1>7 DEF Next

(* The reference-counted lock objects of lockClientContext implement one    *)
(* mutex per client ID.                                                     *)
THEOREM Refinement == Spec => ImplementsMutex
<1>1. Init => Abstract!Init
  BY DEF Init, Abstract!Init, Owner
<1>2. IInv /\ IInv' /\ [Next]_vars => [Abstract!Next]_Owner
  BY StepRefines
<1> QED
  BY <1>1, <1>2, Invariant, PTL DEF Spec, ImplementsMutex, Abstract!Spec
=============================================================================
