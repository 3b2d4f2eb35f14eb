--------------------------- MODULE SessionsProofs ---------------------------
(***************************************************************************)
(* Theorems about subscriptions, registrations and the replay store, for   *)
(* any number of clients, names and callers: the types, what a call may    *)
(* take away and what it leaves when it is done, that the cleanup of the   *)
(* replay store cannot be noticed, and that a published event reaches      *)
(* every client entitled to it, once.                                      *)
(***************************************************************************)
EXTENDS Sessions, NaturalsInduction, FiniteSetTheorems, TLAPS

(* A leaf is for Zenon unless it names another prover. *)
USE Zenon

Rewrites == {"clear", "remove", "add", "finish", "forget", "clearClient"}
Places == Rewrites \union {"idle", "next", "lock", "store"}

Control ==
  /\ pc \in [Callers -> Places] /\ who \in [Callers -> Ids \union {Nobody}]
  /\ DOMAIN job = Callers
  /\ \A p \in Callers : /\ job[p].keep \subseteq Names /\ job[p].names \subseteq Names
                        /\ pc[p] \in Rewrites => who[p] \in Ids

Data ==
  /\ scenario \in Scenarios /\ clock \in 0..scenario.time
  /\ subs \in [Names -> SUBSET Ids] /\ registered \subseteq Ids
  /\ lifecycle \in [Ids -> Callers \union {Nobody}]
  /\ purgeAt \in -1..clock
  /\ published \in 0..scenario.published /\ calls \in 0..scenario.calls

History ==
  /\ stored \in Nat /\ DOMAIN log = Ids /\ stamp \in [Callers -> 0..clock]
  /\ \A i \in Ids : \A e \in log[i] : e.n \in 1..stored /\ e.at \in 0..clock

IInv == Control /\ Data /\ History

LEMMA Typed == IInv => TypeOK
  BY DEF IInv, Control, Data, History, TypeOK, Places, Rewrites

LEMMA TypeInit == Init => IInv
<1> SUFFICES ASSUME Init PROVE IInv OBVIOUS
<1>1. Control
  <2>1. pc \in [Callers -> Places] BY DEF Init, Places
  <2>2. who \in [Callers -> Ids \union {Nobody}] BY DEF Init
  <2>3. DOMAIN job = Callers BY DEF Init
  <2>4. \A p \in Callers : pc[p] \notin Rewrites BY DEF Init, Rewrites
  <2>5. \A p \in Callers : job[p].keep \subseteq Names /\ job[p].names \subseteq Names
    BY DEF Init, NoTask, Task
  <2> QED BY <2>1, <2>2, <2>3, <2>4, <2>5 DEF Control
<1>2. Data
  <2>1. scenario \in Scenarios /\ clock = 0 /\ purgeAt = -1 /\ published = 0 /\ calls = 0 BY DEF Init
  <2>2. registered \subseteq Ids BY ScenariosAssumption DEF Init
  <2>3. subs \in [Names -> SUBSET Ids] BY <2>2 DEF Init
  <2>4. lifecycle \in [Ids -> Callers \union {Nobody}] BY DEF Init
  <2> QED BY <2>1, <2>2, <2>3, <2>4, ScenariosAssumption, SMT DEF Data
<1>3. History BY SMT DEF Init, History
<1> QED BY <1>1, <1>2, <1>3 DEF IInv

-----------------------------------------------------------------------------
LEMMA TypeStep == IInv /\ [Next]_vars => IInv'
<1> SUFFICES ASSUME IInv PROVE [Next]_vars => IInv' OBVIOUS
<1>Bounds.
  ASSUME Data
  PROVE  /\ scenario.time \in Nat /\ scenario.published \in Nat /\ scenario.calls \in Nat
         /\ clock \in Nat
  BY <1>Bounds, ScenariosAssumption, SMT DEF Data
(* The ways a caller moves on. *)
<1>Begins.
  ASSUME Control, NEW p \in Callers, NEW place \in Places, NEW i \in Ids \union {Nobody}, NEW task,
         place \in Rewrites => i \in Ids, task.keep \subseteq Names, task.names \subseteq Names,
         Begin(p, place, i, task)
  PROVE  Control'
  BY <1>Begins DEF Control, Begin
<1>Continues.
  ASSUME Control, NEW p \in Callers, pc[p] \in Rewrites, NEW place \in Rewrites,
         NEW names \in SUBSET Names, Continue(p, place, names)
  PROVE  Control' /\ UNCHANGED stamp
  <2> USE <1>Continues
  <2>1. who[p] \in Ids /\ place \in Places BY DEF Control, Places
  <2>2. Begin(p, place, who[p], Task(job[p].op, job[p].keep, names)) BY DEF Continue
  <2>3. /\ Task(job[p].op, job[p].keep, names).keep \subseteq Names
        /\ Task(job[p].op, job[p].keep, names).names \subseteq Names
    BY DEF Control, Task
  <2>4. Control' BY <2>1, <2>2, <2>3, <1>Begins
  <2> QED BY <2>2, <2>4 DEF Begin
<1>Goes.
  ASSUME Control, NEW p \in Callers, NEW place \in Places,
         place \in Rewrites => pc[p] \in Rewrites, Goto(p, place)
  PROVE  Control' /\ UNCHANGED stamp
  BY <1>Goes DEF Control, Goto
<1>Ends.
  ASSUME Control, NEW p \in Callers, End(p)
  PROVE  Control' /\ UNCHANGED stamp
  <2> USE <1>Ends
  <2>1. "idle" \in Places /\ "idle" \notin Rewrites BY DEF Places, Rewrites
  <2>2. NoTask.keep \subseteq Names /\ NoTask.names \subseteq Names BY DEF NoTask, Task
  <2>3. Begin(p, "idle", Nobody, NoTask) BY DEF End
  <2>4. Control' BY <2>1, <2>2, <2>3, <1>Begins
  <2> QED BY <2>3, <2>4 DEF Begin
<1>Registry.
  ASSUME Data, NEW i, NEW name \in Names
  PROVE  /\ Unsubscribed(i, name) \in [Names -> SUBSET Ids]
         /\ i \in Ids => Subscribed(i, name) \in [Names -> SUBSET Ids]
  BY <1>Registry DEF Data, Unsubscribed, Subscribed
<1>AllRemoved.
  ASSUME Data, NEW i
  PROVE  UnsubscribedAll(i) \in [Names -> SUBSET Ids]
  BY <1>AllRemoved DEF Data, UnsubscribedAll
<1>CallingType.
  ASSUME NEW p \in Callers, Calling(p)
  PROVE  IInv'
  <2> USE <1>CallingType
  <2>0. /\ {"clear", "add", "forget"} \subseteq Rewrites /\ Rewrites \subseteq Places
        /\ "next" \in Places /\ "next" \notin Rewrites
    BY DEF Rewrites, Places
  <2>1. ASSUME NEW kind, MayCall(p, kind)
        PROVE  /\ calls' \in 0..scenario'.calls
               /\ UNCHANGED <<scenario, clock, store, purgeAt, published, stored, log>>
    BY <2>1, <1>Bounds, SMT DEF MayCall, IInv, Data
  <2>2. ASSUME NEW place \in Rewrites, NEW i \in Ids, NEW op, NEW names \in SUBSET Names,
               Begin(p, place, i, Task(op, names, names))
        PROVE  Control' /\ UNCHANGED stamp
    <3>1. Task(op, names, names).keep = names /\ Task(op, names, names).names = names BY DEF Task
    <3>2. Control' BY <2>0, <2>2, <3>1, <1>Begins DEF IInv
    <3> QED BY <2>2, <3>2 DEF Begin
  <2>3. ASSUME NEW i \in Ids, NEW name \in Names, Subscribe(p, i, name) \/ Unsubscribe(p, i, name)
        PROVE  IInv'
    <3>1. subs' \in [Names -> SUBSET Ids] BY <2>3, <1>Registry, SMT DEF Subscribe, Unsubscribe, IInv
    <3>2. UNCHANGED <<registered, lifecycle, pc, who, stamp, job>>
      BY <2>3 DEF Subscribe, Unsubscribe, control
    <3>3. \E kind : MayCall(p, kind) BY <2>3 DEF Subscribe, Unsubscribe
    <3>4. Data' BY <2>1, <3>1, <3>2, <3>3 DEF IInv, Data
    <3>5. Control' BY <3>2 DEF IInv, Control
    <3>6. History' BY <2>1, <3>2, <3>3 DEF IInv, History
    <3> QED BY <3>4, <3>5, <3>6 DEF IInv
  <2>4. ASSUME NEW i \in Ids, NEW name \in Names, SubscribeOnly(p, i, name) PROVE IInv'
    <3>1. Control' /\ UNCHANGED stamp BY <2>0, <2>2, <2>4 DEF SubscribeOnly
    <3>2. MayCall(p, "only") /\ UNCHANGED <<subs, registered, lifecycle>> BY <2>4 DEF SubscribeOnly
    <3>3. Data' BY <2>1, <3>2 DEF IInv, Data
    <3>4. History' BY <2>1, <3>1, <3>2 DEF IInv, History
    <3> QED BY <3>1, <3>3, <3>4 DEF IInv
  <2>5. ASSUME NEW i \in Ids, NEW events \in SUBSET Names, NEW replace \in BOOLEAN,
               Register(p, i, events, replace)
        PROVE  IInv'
    <3>1. Control' /\ UNCHANGED stamp BY <2>0, <2>2, <2>5 DEF Register
    <3>2. PICK kind : MayCall(p, kind) BY <2>5 DEF Register
    <3>3. lifecycle' \in [Ids -> Callers \union {Nobody}] /\ UNCHANGED <<subs, registered>>
      BY <2>5 DEF Register, Lock, IInv, Data
    <3>4. Data' BY <2>1, <3>2, <3>3 DEF IInv, Data
    <3>5. History' BY <2>1, <3>1, <3>2 DEF IInv, History
    <3> QED BY <3>1, <3>4, <3>5 DEF IInv
  <2>6. ASSUME NEW i \in Ids, Unregister(p, i) PROVE IInv'
    <3>1. Control' /\ UNCHANGED stamp BY <2>0, <2>2, <2>6, SMT DEF Unregister
    <3>2. MayCall(p, "unregister") BY <2>6 DEF Unregister
    <3>3. /\ lifecycle' \in [Ids -> Callers \union {Nobody}] /\ registered' \subseteq Ids
          /\ UNCHANGED subs
      BY <2>6 DEF Unregister, Lock, IInv, Data
    <3>4. Data' BY <2>1, <3>2, <3>3 DEF IInv, Data
    <3>5. History' BY <2>1, <3>1, <3>2 DEF IInv, History
    <3> QED BY <3>1, <3>4, <3>5 DEF IInv
  <2>7. ASSUME NEW event \in scenario.events, Publish(p, event) PROVE IInv'
    <3>1. PICK e, ids : Begin(p, "next", Nobody, Publication(e, ids)) BY <2>7 DEF Publish
    <3>2. Publication(e, ids).keep \subseteq Names /\ Publication(e, ids).names \subseteq Names
      BY DEF Publication
    <3>3. Control' /\ UNCHANGED stamp BY <2>0, <3>1, <3>2, <1>Begins DEF IInv, Begin
    <3>4. published < scenario.published /\ published' = published + 1 BY <2>7 DEF Publish
    <3>5. UNCHANGED <<scenario, clock, subs, registered, lifecycle, purgeAt, calls, stored, log>>
      BY <2>7 DEF Publish
    <3>6. published' \in 0..scenario'.published BY <3>4, <3>5, <1>Bounds, SMT DEF IInv, Data
    <3>7. Data' BY <3>5, <3>6 DEF IInv, Data
    <3>8. History' BY <3>3, <3>5 DEF IInv, History
    <3> QED BY <3>3, <3>7, <3>8 DEF IInv
  <2> QED BY <2>3, <2>4, <2>5, <2>6, <2>7 DEF Calling
<1>RewritingType.
  ASSUME NEW p \in Callers, Clear(p) \/ RemoveNames(p) \/ Add(p) \/ Forget(p)
  PROVE  IInv'
  <2> USE <1>RewritingType
  <2>0. {"clear", "remove", "add", "finish", "forget", "clearClient"} \subseteq Rewrites
        /\ Rewrites \subseteq Places
    BY DEF Rewrites, Places
  <2>1. who[p] \in Ids /\ pc[p] \in Rewrites
        /\ job[p].keep \in SUBSET Names /\ job[p].names \in SUBSET Names
    BY <2>0 DEF Clear, RemoveNames, Add, Forget, IInv, Control
  <2>2. UNCHANGED <<scenario, clock, purgeAt, published, calls, registered, lifecycle, stored, log>>
    BY DEF Clear, RemoveNames, Add, Forget, Quiet
  <2>3. subs' \in [Names -> SUBSET Ids] /\ Control' /\ UNCHANGED stamp
    <3>1. CASE Clear(p)
      <4>1. AllEvents \ job[p].keep \in SUBSET Names BY DEF AllEvents
      <4> QED BY <2>0, <2>1, <3>1, <4>1, <1>AllRemoved, <1>Continues DEF Clear, IInv, Data
    <3>2. CASE RemoveNames(p)
      <4>1. CASE UNCHANGED subs /\ Continue(p, "add", job[p].keep)
        BY <2>0, <2>1, <4>1, <1>Continues DEF IInv, Data
      <4>2. ASSUME NEW name \in job[p].names, subs' = Unsubscribed(who[p], name),
                   Continue(p, "remove", job[p].names \ {name})
            PROVE  subs' \in [Names -> SUBSET Ids] /\ Control' /\ UNCHANGED stamp
        <5>1. name \in Names /\ job[p].names \ {name} \in SUBSET Names BY <2>1
        <5> QED BY <2>0, <2>1, <4>2, <5>1, <1>Registry, <1>Continues DEF IInv
      <4> QED BY <3>2, <4>1, <4>2 DEF RemoveNames
    <3>3. CASE Add(p)
      <4>1. CASE UNCHANGED subs /\ Goto(p, "finish")
        BY <2>0, <2>1, <4>1, <1>Goes DEF IInv, Data
      <4>2. ASSUME NEW name \in job[p].names, subs' = Subscribed(who[p], name),
                   Continue(p, "add", job[p].names \ {name})
            PROVE  subs' \in [Names -> SUBSET Ids] /\ Control' /\ UNCHANGED stamp
        <5>1. name \in Names /\ job[p].names \ {name} \in SUBSET Names BY <2>1
        <5> QED BY <2>0, <2>1, <4>2, <5>1, <1>Registry, <1>Continues DEF IInv
      <4> QED BY <3>3, <4>1, <4>2 DEF Add
    <3>4. CASE Forget(p)
      BY <2>0, <2>1, <3>4, <1>AllRemoved, <1>Goes DEF Forget, IInv
    <3> QED BY <3>1, <3>2, <3>3, <3>4
  <2>4. Data' BY <2>2, <2>3 DEF IInv, Data
  <2>5. History' BY <2>2, <2>3 DEF IInv, History
  <2> QED BY <2>3, <2>4, <2>5 DEF IInv
<1>FinishType.
  ASSUME NEW p \in Callers, Finish(p) \/ ClearClient(p)
  PROVE  IInv'
  <2> USE <1>FinishType
  <2>1. who[p] \in Ids BY DEF Finish, ClearClient, IInv, Control, Rewrites
  <2>2. Control' /\ UNCHANGED stamp BY <1>Ends DEF Finish, ClearClient, IInv
  <2>3. UNCHANGED <<scenario, clock, purgeAt, published, calls, subs, stored>>
    BY DEF Finish, ClearClient, Quiet
  <2>4. registered' \subseteq Ids /\ lifecycle' \in [Ids -> Callers \union {Nobody}]
    BY <2>1 DEF Finish, ClearClient, Unlock, IInv, Data
  <2>5. Data' BY <2>3, <2>4 DEF IInv, Data
  <2>6. DOMAIN log' = Ids /\ \A i \in Ids : log'[i] \subseteq log[i]
    BY <2>1 DEF Finish, ClearClient, IInv, History
  <2>7. History' BY <2>2, <2>3, <2>6 DEF IInv, History
  <2> QED BY <2>2, <2>5, <2>7 DEF IInv
<1>HandleType.
  ASSUME NEW p \in Callers, NextClient(p) \/ Stamp(p)
  PROVE  IInv'
  <2> USE <1>HandleType
  <2>0. {"next", "lock", "store"} \subseteq Places /\ {"next", "lock", "store"} \cap Rewrites = {}
    BY DEF Rewrites, Places
  <2>1. UNCHANGED <<scenario, clock, purgeAt, published, calls, subs, registered, stored, log>>
    BY DEF NextClient, Stamp, Quiet
  <2>2. CASE NextClient(p)
    <3>1. ASSUME NEW place \in {"next", "lock"}, NEW i \in Ids \union {Nobody}, NEW e, NEW ids,
                 Begin(p, place, i, Publication(e, ids))
          PROVE  Control' /\ UNCHANGED stamp
      <4>1. Publication(e, ids).keep \subseteq Names /\ Publication(e, ids).names \subseteq Names
        BY DEF Publication
      <4> QED BY <2>0, <3>1, <4>1, <1>Begins DEF IInv, Begin
    <3>2. \A i, e : IsTarget(i, e) => i \in Ids BY DEF IsTarget, IInv, Data
    <3>3. Control' /\ UNCHANGED stamp
      <4>1. CASE job[p].ids = <<>> BY <2>2, <4>1, <1>Ends DEF NextClient, IInv
      <4>2. CASE job[p].ids # <<>> BY <2>2, <3>1, <3>2, <4>2, SMTT(20) DEF NextClient
      <4> QED BY <4>1, <4>2
    <3>4. UNCHANGED lifecycle BY <2>2 DEF NextClient
    <3>5. Data' BY <2>1, <3>4 DEF IInv, Data
    <3>6. History' BY <2>1, <3>3 DEF IInv, History
    <3> QED BY <3>3, <3>5, <3>6 DEF IInv
  <2>3. CASE Stamp(p)
    <3>1. lifecycle' \in [Ids -> Callers \union {Nobody}] BY <2>3 DEF Stamp, Lock, IInv, Data
    <3>2. Data' BY <2>1, <3>1 DEF IInv, Data
    <3>3. CASE IsTarget(who[p], job[p].event)
      <4>1. /\ pc' = [pc EXCEPT ![p] = "store"] /\ stamp' = [stamp EXCEPT ![p] = clock]
            /\ UNCHANGED <<who, job>>
        BY <2>3, <3>3 DEF Stamp
      <4>2. Control' BY <2>0, <4>1 DEF IInv, Control
      <4>3. clock \in 0..clock BY <1>Bounds, SMT DEF IInv
      <4>4. stamp' \in [Callers -> 0..clock'] BY <2>1, <4>1, <4>3 DEF IInv, History
      <4>5. History' BY <2>1, <4>4 DEF IInv, History
      <4> QED BY <3>2, <4>2, <4>5 DEF IInv
    <3>4. CASE ~IsTarget(who[p], job[p].event)
      <4>1. Begin(p, "next", Nobody, job[p]) BY <2>3, <3>4 DEF Stamp
      <4>2. Control' /\ UNCHANGED stamp BY <2>0, <4>1, <1>Begins DEF IInv, Control, Begin
      <4>3. History' BY <2>1, <4>2 DEF IInv, History
      <4> QED BY <3>2, <4>2, <4>3 DEF IInv
    <3> QED BY <3>3, <3>4
  <2> QED BY <2>2, <2>3
<1>StoreType.
  ASSUME NEW p \in Callers, Store(p)
  PROVE  IInv'
  <2> USE <1>StoreType
  <2>1. UNCHANGED <<scenario, clock, purgeAt, published, calls, subs, registered, job>>
    BY DEF Store, Quiet
  <2>2. lifecycle' \in [Ids -> Callers \union {Nobody}] BY DEF Store, Unlock, IInv, Data
  <2>3. Data' BY <2>1, <2>2 DEF IInv, Data
  <2>4. "next" \in Places /\ "next" \notin Rewrites BY DEF Places, Rewrites
  <2>5. Control' BY <2>1, <2>4 DEF Store, IInv, Control
  <2>6. stamp' \in [Callers -> 0..clock'] BY <2>1, <1>Bounds, SMT DEF Store, IInv, History
  <2>7. stored' \in Nat /\ stored' = stored + 1 BY SMT DEF Store, IInv, History
  <2>8. Entry(p).n = stored + 1 /\ Entry(p).at \in 0..clock BY DEF Entry, IInv, History
  <2>9. /\ DOMAIN log' = Ids
        /\ \A i \in Ids : \A e \in log'[i] : e \in log[i] \/ e = Entry(p)
    BY DEF Store, IInv, History
  <2>10. \A i \in Ids : \A e \in log'[i] : e.n \in 1..stored' /\ e.at \in 0..clock'
    <3> SUFFICES ASSUME NEW i \in Ids, NEW e \in log'[i]
                 PROVE  e.n \in 1..stored' /\ e.at \in 0..clock'
      OBVIOUS
    <3>1. CASE e \in log[i] BY <2>1, <2>7, <3>1, SMT DEF IInv, History
    <3>2. CASE e = Entry(p) BY <2>1, <2>7, <2>8, <3>2, SMT DEF IInv, History
    <3> QED BY <2>9, <3>1, <3>2
  <2>11. History' BY <2>6, <2>7, <2>9, <2>10 DEF History
  <2> QED BY <2>3, <2>5, <2>11 DEF IInv
<1>CleanupType.
  ASSUME CleanupTick \/ PurgeExpired \/ Advance
  PROVE  IInv'
  <2> USE <1>CleanupType
  <2>1. /\ UNCHANGED <<scenario, subs, registered, lifecycle, published, calls, stored, log>>
        /\ UNCHANGED <<pc, who, stamp, job>>
    BY DEF CleanupTick, PurgeExpired, Advance, control
  <2>2. clock' \in 0..scenario.time /\ clock <= clock' /\ clock \in Nat /\ clock' \in Nat
    BY <1>Bounds, SMT DEF CleanupTick, PurgeExpired, Advance, IInv, Data
  <2>3. purgeAt' \in -1..clock'
    BY <2>2, RetentionAssumption, SMT DEF CleanupTick, PurgeExpired, Advance, IInv, Data
  <2>4. Data' BY <2>1, <2>2, <2>3 DEF IInv, Data
  <2>5. 0..clock \subseteq 0..clock' BY <2>2, SMT
  <2>6. History' BY <2>1, <2>5 DEF IInv, History
  <2>7. Control' BY <2>1 DEF IInv, Control
  <2> QED BY <2>4, <2>6, <2>7 DEF IInv
<1> SUFFICES ASSUME [Next]_vars PROVE IInv' OBVIOUS
<1>1. CASE UNCHANGED vars
  BY <1>1 DEF vars, control, IInv, Control, Data, History
<1>2. ASSUME NEW p \in Callers, Running(p) PROVE IInv'
  BY <1>2, <1>RewritingType, <1>FinishType, <1>HandleType, <1>StoreType DEF Running
<1> QED BY <1>1, <1>2, <1>CallingType, <1>CleanupType DEF Next

(* The registry holds only clients, whatever calls rewrite subscriptions    *)
(* together, and no entry of the replay store is from the future.           *)
THEOREM TypeCorrect == Spec => []TypeOK
<1> QED BY TypeInit, TypeStep, Typed, PTL DEF Spec
-----------------------------------------------------------------------------
(* What a call may still take away: a name that is not to be kept. *)
Rewriting ==
  /\ DOMAIN subs = Names /\ DOMAIN pc = Callers /\ DOMAIN job = Callers /\ DOMAIN who = Callers
  /\ calls \in Nat
  /\ \A p \in Callers :
       /\ pc[p] \in {"clear", "remove"} => job[p].op \in {"replace", "only"}
       /\ pc[p] = "remove" => job[p].names \intersect job[p].keep = {}
       /\ pc[p] = "forget" => job[p].op = "unregister"

(* The same for a step of one caller. *)
LEMMA RewritingOf ==
  ASSUME Rewriting, NEW p \in Callers, NEW place, NEW i, NEW task, Begin(p, place, i, task),
         DOMAIN subs' = Names, calls' \in Nat,
         place \in {"clear", "remove"} => task.op \in {"replace", "only"},
         place = "remove" => task.names \intersect task.keep = {},
         place = "forget" => task.op = "unregister"
  PROVE  Rewriting'
  BY DEF Rewriting, Begin

LEMMA RewritingInit == Init => Rewriting
  BY SMT DEF Init, Rewriting

LEMMA RewritingStarts ==
  ASSUME Rewriting, NEW p \in Callers, Calling(p)
  PROVE  Rewriting'
<1> USE DEF MayCall
<1>1. CASE \E event \in scenario.events : Publish(p, event)
  <2>1. PICK event \in scenario.events : Publish(p, event) BY <1>1
  <2>2. PICK task : Begin(p, "next", Nobody, task) BY <2>1 DEF Publish
  <2>3. UNCHANGED <<subs, calls>> BY <2>1 DEF Publish
  <2> QED BY <2>2, <2>3, RewritingOf DEF Rewriting
<1>2. CASE \E i \in Ids : Unregister(p, i)
  <2>1. PICK i \in Ids : Unregister(p, i) BY <1>2
  <2>2. Begin(p, "forget", i, Task("unregister", {}, {})) BY <2>1 DEF Unregister
  <2>3. DOMAIN subs' = Names /\ calls' \in Nat BY <2>1, SMT DEF Unregister, Rewriting
  <2>4. Task("unregister", {}, {}).op = "unregister" BY DEF Task
  <2> QED BY <2>2, <2>3, <2>4, RewritingOf
<1>3. CASE \E i \in Ids, events \in SUBSET Names, replace \in BOOLEAN :
             Register(p, i, events, replace)
  <2>1. PICK i, events, replace : Register(p, i, events, replace) BY <1>3
  <2> DEFINE op == IF replace THEN "replace" ELSE "register"
             place == IF replace THEN "clear" ELSE "add"
  <2>2. Begin(p, place, i, Task(op, events, events)) BY <2>1 DEF Register
  <2>3. DOMAIN subs' = Names /\ calls' \in Nat BY <2>1, SMT DEF Register, Rewriting
  <2>4. /\ place \in {"clear", "remove"} => Task(op, events, events).op \in {"replace", "only"}
        /\ place # "remove" /\ place # "forget"
    BY DEF Task
  <2> HIDE DEF op, place
  <2> QED BY <2>2, <2>3, <2>4, RewritingOf
<1>4. CASE \E i \in Ids, name \in Names : Subscribe(p, i, name) \/ Unsubscribe(p, i, name)
  BY <1>4, SMT DEF Subscribe, Unsubscribe, Subscribed, Unsubscribed, Rewriting, control
<1>5. CASE \E i \in Ids, name \in Names : SubscribeOnly(p, i, name)
  <2>1. PICK i \in Ids, name \in Names : SubscribeOnly(p, i, name) BY <1>5
  <2>2. Begin(p, "clear", i, Task("only", {name}, {name})) BY <2>1 DEF SubscribeOnly
  <2>3. DOMAIN subs' = Names /\ calls' \in Nat BY <2>1, SMT DEF SubscribeOnly, Rewriting
  <2>4. Task("only", {name}, {name}).op = "only" BY DEF Task
  <2> QED BY <2>2, <2>3, <2>4, RewritingOf
<1> QED BY <1>1, <1>2, <1>3, <1>4, <1>5 DEF Calling

LEMMA RewritingRuns ==
  ASSUME Rewriting, NEW p \in Callers, Running(p)
  PROVE  Rewriting'
<1>1. calls' \in Nat /\ DOMAIN subs' = Names
  <2>1. UNCHANGED calls
    BY DEF Running, Clear, RemoveNames, Add, Finish, Forget, ClearClient, NextClient, Stamp, Store,
           Quiet
  <2>2. \/ UNCHANGED subs \/ subs' = UnsubscribedAll(who[p])
        \/ \E name : subs' = Unsubscribed(who[p], name) \/ subs' = Subscribed(who[p], name)
    BY DEF Running, Clear, RemoveNames, Add, Finish, Forget, ClearClient, NextClient, Stamp, Store
  <2> QED BY <2>1, <2>2 DEF Rewriting, UnsubscribedAll, Unsubscribed, Subscribed
<1>2. CASE Clear(p)
  <2>1. CASE job[p].keep = {}
    <3>1. Begin(p, "add", who[p], Task(job[p].op, job[p].keep, {}))
      BY <1>2, <2>1 DEF Clear, Continue
    <3> QED BY <1>1, <3>1, RewritingOf
  <2>2. CASE job[p].keep # {}
    <3>1. Begin(p, "remove", who[p], Task(job[p].op, job[p].keep, AllEvents \ job[p].keep))
      BY <1>2, <2>2 DEF Clear, Continue
    <3>2. job[p].op \in {"replace", "only"} BY <1>2 DEF Clear, Rewriting
    <3> QED BY <1>1, <3>1, <3>2, RewritingOf DEF Task
  <2> QED BY <2>1, <2>2
<1>3. CASE RemoveNames(p)
  <2>1. /\ job[p].op \in {"replace", "only"} /\ job[p].names \intersect job[p].keep = {}
    BY <1>3 DEF RemoveNames, Rewriting
  <2>2. CASE Continue(p, "add", job[p].keep)
    BY <1>1, <2>2, RewritingOf DEF Continue
  <2>3. ASSUME NEW name \in job[p].names, Continue(p, "remove", job[p].names \ {name})
        PROVE  Rewriting'
    <3>1. Begin(p, "remove", who[p], Task(job[p].op, job[p].keep, job[p].names \ {name}))
      BY <2>3 DEF Continue
    <3> QED BY <1>1, <2>1, <3>1, RewritingOf DEF Task
  <2> QED BY <1>3, <2>2, <2>3 DEF RemoveNames
<1>4. CASE Add(p)
  <2>1. CASE Goto(p, "finish") BY <1>1, <2>1 DEF Goto, Rewriting
  <2>2. ASSUME NEW name \in job[p].names, Continue(p, "add", job[p].names \ {name})
        PROVE  Rewriting'
    BY <1>1, <2>2, RewritingOf DEF Continue
  <2> QED BY <1>4, <2>1, <2>2 DEF Add
<1>5. CASE Forget(p) BY <1>1, <1>5 DEF Forget, Goto, Rewriting
<1>6. CASE Finish(p) \/ ClearClient(p)
  BY <1>1, <1>6, RewritingOf DEF Finish, ClearClient, End
<1>7. CASE NextClient(p)
  <2>1. PICK place, i, task :
          place \in {"idle", "next", "lock"} /\ Begin(p, place, i, task)
    BY <1>7, SMT DEF NextClient, End
  <2> QED BY <1>1, <2>1, RewritingOf
<1>8. CASE Stamp(p)
  <2>1. CASE Begin(p, "next", Nobody, job[p]) BY <1>1, <2>1, RewritingOf
  <2>2. CASE pc' = [pc EXCEPT ![p] = "store"] /\ UNCHANGED <<who, job>>
    BY <1>1, <2>2 DEF Rewriting
  <2> QED BY <1>8, <2>1, <2>2 DEF Stamp
<1>9. CASE Store(p) BY <1>1, <1>9 DEF Store, Rewriting
<1> QED BY <1>2, <1>3, <1>4, <1>5, <1>6, <1>7, <1>8, <1>9 DEF Running

LEMMA RewritingInv == Spec => []Rewriting
<1>1. Rewriting /\ [Next]_vars => Rewriting'
  <2> SUFFICES ASSUME Rewriting, [Next]_vars PROVE Rewriting' OBVIOUS
  <2>1. CASE CleanupTick \/ PurgeExpired \/ Advance \/ UNCHANGED vars
    BY <2>1 DEF CleanupTick, PurgeExpired, Advance, vars, control, Rewriting
  <2> QED BY <2>1, RewritingStarts, RewritingRuns DEF Next
<1> QED BY <1>1, RewritingInit, PTL DEF Spec

(* For any number of clients, names and concurrent calls, a step takes away *)
(* only a subscription that some call was asked to end: UnsubscribeFromAll  *)
(* and ReplaceSubscriptions never drop, even for a moment, one that stays.  *)
THEOREM KeepsWhatIsWanted == Spec => LosesOnlyUnwanted
<1>1. Rewriting /\ [Next]_vars => [TakesUnwanted]_vars
  <2> SUFFICES ASSUME Rewriting, Next PROVE TakesUnwanted OBVIOUS
  <2> SUFFICES ASSUME NEW i \in Ids, NEW name \in Names, i \in subs[name], i \notin subs'[name],
                      calls' = calls
               PROVE  \E p \in Callers :
                        /\ who[p] = i
                        /\ \/ job[p].op = "unregister"
                           \/ job[p].op \in {"replace", "only"} /\ name \notin job[p].keep
    BY DEF TakesUnwanted, IsSubscribed
  <2>1. ~(CleanupTick \/ PurgeExpired \/ Advance) BY DEF CleanupTick, PurgeExpired, Advance
  <2>2. PICK p \in Callers : Calling(p) \/ Running(p) BY <2>1 DEF Next
  <2>3. ~Calling(p)
    <3>1. calls \in Nat BY DEF Rewriting
    <3>2. ASSUME NEW event, Publish(p, event) PROVE FALSE BY <3>2 DEF Publish
    <3>3. ASSUME NEW kind, MayCall(p, kind) PROVE FALSE BY <3>1, <3>3, SMT DEF MayCall
    <3> QED BY <3>2, <3>3 DEF Calling, Unregister, Register, Subscribe, Unsubscribe, SubscribeOnly
  <2>4. CASE Clear(p) BY <2>4, SMT DEF Clear, UnsubscribedAll, Rewriting
  <2>5. CASE RemoveNames(p) BY <2>5 DEF RemoveNames, Unsubscribed, Rewriting
  <2>6. CASE Forget(p) BY <2>6 DEF Forget, UnsubscribedAll, Rewriting
  <2>7. ~Add(p) BY DEF Add, Subscribed, Rewriting
  <2>8. ~(Finish(p) \/ ClearClient(p) \/ NextClient(p) \/ Stamp(p) \/ Store(p))
    BY DEF Finish, ClearClient, NextClient, Stamp, Store
  <2> QED BY <2>2, <2>3, <2>4, <2>5, <2>6, <2>7, <2>8 DEF Running
<1> QED BY <1>1, RewritingInv, PTL DEF Spec, LosesOnlyUnwanted

-----------------------------------------------------------------------------
(* What a call still has to do: at each place, with the client subscribed   *)
(* to the names S, the names left in the task lead to those to be kept,     *)
(* with the names in D, which others changed, left out of account.          *)
Fits(place, task, S, D) ==
  /\ place = "remove" => S \subseteq task.keep \union task.names \union D
  /\ place = "add" => /\ task.names \subseteq task.keep
                      /\ task.keep \subseteq S \union task.names \union D
                      /\ task.op # "register" => S \subseteq task.keep \union D
  /\ place = "finish" => /\ task.keep \subseteq S \union D
                         /\ task.op # "register" => S \subseteq task.keep \union D
  /\ place = "clearClient" => S \subseteq D

Settled(p) ==
  /\ pc[p] \in Rewrites => job[p].op \notin {"none", "publish"}
  /\ disturbed[p] \subseteq Names
  /\ Fits(pc[p], job[p], NamesOf(who[p]), disturbed[p])

Stays(p) == pc'[p] = pc[p] /\ who'[p] = who[p] /\ job'[p] = job[p]
Becomes(p, place, i, task) ==
  /\ pc'[p] = place /\ who'[p] = i /\ job'[p] = task
  /\ \A q \in Callers \ {p} : Stays(q)

(* Only the names left out of account may change. *)
LEMMA FitsOutside ==
  ASSUME NEW place, NEW task, NEW S, NEW T, NEW D, NEW E,
         Fits(place, task, S, D), D \subseteq E, S \ E = T \ E
  PROVE  Fits(place, task, T, E)
<1>1. \A X : S \subseteq X \union D => T \subseteq X \union E OBVIOUS
<1>2. \A X : X \subseteq S \union D => X \subseteq T \union E OBVIOUS
<1>3. \A X, Y : X \subseteq S \union Y \union D => X \subseteq T \union Y \union E OBVIOUS
<1>4. S \subseteq D => T \subseteq E OBVIOUS
<1> QED BY <1>1, <1>2, <1>3, <1>4 DEF Fits

(* What others change for a call's client is left out of account from then  *)
(* on; in all other names the call stays as far as it was.                  *)
LEMMA SettledStays ==
  ASSUME NEW q \in Callers, Observe, Stays(q), Settled(q)
  PROVE  Settled(q)'
<1>0. disturbed'[q] \subseteq Names BY DEF Observe
<1>1. CASE pc[q] \notin Rewrites BY <1>0, <1>1 DEF Settled, Stays, Fits, Rewrites
<1>2. CASE pc[q] \in Rewrites
  <2>1. job'[q].op \notin {"none", "publish"} BY <1>2 DEF Settled, Stays
  <2>2. disturbed'[q] = {name \in Names :
           name \in disturbed[q] \/ (who[q] \in subs[name]) # (who[q] \in subs'[name])}
    BY <2>1 DEF Observe, Stays
  <2>3. disturbed[q] \subseteq disturbed'[q] BY <2>2 DEF Settled
  <2>4. NamesOf(who[q]) \ disturbed'[q] = NamesOf(who[q])' \ disturbed'[q]
    BY <2>2 DEF NamesOf, IsSubscribed, Stays
  <2>5. Fits(pc[q], job[q], NamesOf(who[q])', disturbed'[q])
    BY <2>3, <2>4, FitsOutside DEF Settled
  <2> QED BY <1>0, <1>2, <2>1, <2>5 DEF Settled, Stays
<1> QED BY <1>1, <1>2

LEMMA SettledMoves ==
  ASSUME NEW p \in Callers, NEW place, NEW i, NEW task, Observe, Becomes(p, place, i, task),
         \A q \in Callers : Settled(q),
         place \in Rewrites => task.op \notin {"none", "publish"},
         place \in Rewrites =>
            Fits(place, task, {name \in Names : i \in subs'[name]}, disturbed[p])
  PROVE  \A q \in Callers : Settled(q)'
<1>1. ASSUME NEW q \in Callers, q # p PROVE Settled(q)'
  BY <1>1, SettledStays DEF Becomes
<1>2. Settled(p)'
  <2>1. NamesOf(who[p])' = {name \in Names : i \in subs'[name]}
    BY DEF NamesOf, IsSubscribed, Becomes
  <2>2. disturbed'[p] \subseteq Names BY DEF Observe
  <2>3. CASE place \notin Rewrites BY <2>2, <2>3 DEF Settled, Becomes, Fits, Rewrites
  <2>4. CASE place \in Rewrites
    <3>1. disturbed[p] \subseteq disturbed'[p] BY <2>4 DEF Settled, Observe, Becomes
    <3>2. Fits(place, task, NamesOf(who[p])', disturbed'[p]) BY <2>1, <2>4, <3>1, FitsOutside
    <3> QED BY <2>2, <2>4, <3>2 DEF Settled, Becomes
  <2> QED BY <2>3, <2>4
<1> QED BY <1>1, <1>2

LEMMA Begun ==
  ASSUME Control, NEW p \in Callers, NEW place, NEW i, NEW task, Begin(p, place, i, task)
  PROVE  Becomes(p, place, i, task)
  BY DEF Control, Begin, Becomes, Stays

LEMMA Gone ==
  ASSUME Control, NEW p \in Callers, NEW place, Goto(p, place)
  PROVE  Becomes(p, place, who[p], job[p])
  BY DEF Control, Goto, Becomes, Stays

LEMMA SettledStarts ==
  ASSUME Control, Observe, \A q \in Callers : Settled(q), NEW p \in Callers, Calling(p)
  PROVE  \A q \in Callers : Settled(q)'
<1>1. ASSUME NEW event \in scenario.events, Publish(p, event) PROVE \A q \in Callers : Settled(q)'
  <2>1. PICK task : Begin(p, "next", Nobody, task) BY <1>1 DEF Publish
  <2>2. Becomes(p, "next", Nobody, task) BY <2>1, Begun
  <2> QED BY <2>2, SettledMoves DEF Rewrites
<1>2. ASSUME NEW i \in Ids, Unregister(p, i) PROVE \A q \in Callers : Settled(q)'
  <2>1. Becomes(p, "forget", i, Task("unregister", {}, {})) BY <1>2, Begun DEF Unregister
  <2>2. Task("unregister", {}, {}).op = "unregister" BY DEF Task
  <2>3. Fits("forget", Task("unregister", {}, {}), {name \in Names : i \in subs'[name]}, disturbed[p])
    BY DEF Fits
  <2> QED BY <2>1, <2>2, <2>3, SettledMoves
<1>3. ASSUME NEW i \in Ids, NEW events \in SUBSET Names, NEW replace \in BOOLEAN,
             Register(p, i, events, replace)
      PROVE  \A q \in Callers : Settled(q)'
  <2> DEFINE op == IF replace THEN "replace" ELSE "register"
             place == IF replace THEN "clear" ELSE "add"
             task == Task(op, events, events)
  <2>1. Becomes(p, place, i, task) BY <1>3, Begun DEF Register
  <2>2. task.op \notin {"none", "publish"} BY DEF Task
  <2>3. task.keep = events /\ task.names = events /\ (place = "add" => task.op = "register")
    BY DEF Task
  <2>4. place \in {"clear", "add"} OBVIOUS
  <2> HIDE DEF place, task
  <2>5. Fits(place, task, {name \in Names : i \in subs'[name]}, disturbed[p])
    BY <2>3, <2>4 DEF Fits
  <2> QED BY <2>1, <2>2, <2>5, SettledMoves
<1>4. ASSUME NEW i \in Ids, NEW name \in Names, Subscribe(p, i, name) \/ Unsubscribe(p, i, name)
      PROVE  \A q \in Callers : Settled(q)'
  <2>1. \A q \in Callers : Stays(q) BY <1>4 DEF Subscribe, Unsubscribe, control, Stays
  <2> QED BY <2>1, SettledStays
<1>5. ASSUME NEW i \in Ids, NEW name \in Names, SubscribeOnly(p, i, name)
      PROVE  \A q \in Callers : Settled(q)'
  <2>1. Becomes(p, "clear", i, Task("only", {name}, {name})) BY <1>5, Begun DEF SubscribeOnly
  <2>2. Task("only", {name}, {name}).op = "only" BY DEF Task
  <2>3. Fits("clear", Task("only", {name}, {name}), {n \in Names : i \in subs'[n]}, disturbed[p])
    BY DEF Fits
  <2> QED BY <2>1, <2>2, <2>3, SettledMoves
<1> QED BY <1>1, <1>2, <1>3, <1>4, <1>5 DEF Calling

LEMMA SettledRuns ==
  ASSUME Control, Rewriting, Observe, \A q \in Callers : Settled(q), NEW p \in Callers, Running(p)
  PROVE  \A q \in Callers : Settled(q)'
<1> DEFINE left == {name \in Names : who[p] \in subs'[name]}
<1>0. /\ pc[p] \in Rewrites => job[p].op \notin {"none", "publish"}
      /\ Fits(pc[p], job[p], NamesOf(who[p]), disturbed[p])
  BY DEF Settled
<1>1. ASSUME NEW place, NEW names, Continue(p, place, names), pc[p] \in Rewrites,
             Fits(place, Task(job[p].op, job[p].keep, names), left, disturbed[p])
      PROVE  \A q \in Callers : Settled(q)'
  <2>1. Becomes(p, place, who[p], Task(job[p].op, job[p].keep, names)) BY <1>1, Begun DEF Continue
  <2>2. Task(job[p].op, job[p].keep, names).op \notin {"none", "publish"} BY <1>0, <1>1 DEF Task
  <2> QED BY <1>1, <2>1, <2>2, SettledMoves
<1>2. \A names : /\ Task(job[p].op, job[p].keep, names).op = job[p].op
                 /\ Task(job[p].op, job[p].keep, names).keep = job[p].keep
                 /\ Task(job[p].op, job[p].keep, names).names = names
  BY DEF Task
<1>3. CASE Clear(p)
  <2>1. pc[p] \in Rewrites BY <1>3 DEF Clear, Rewrites
  <2>2. CASE job[p].keep = {}
    <3>1. subs' = UnsubscribedAll(who[p]) /\ Continue(p, "add", {}) BY <1>3, <2>2 DEF Clear
    <3>2. left = {} BY <3>1 DEF UnsubscribedAll
    <3>3. Fits("add", Task(job[p].op, job[p].keep, {}), left, disturbed[p]) BY <1>2, <2>2, <3>2 DEF Fits
    <3> QED BY <1>1, <2>1, <3>1, <3>3
  <2>3. CASE job[p].keep # {}
    <3>1. UNCHANGED subs /\ Continue(p, "remove", AllEvents \ job[p].keep) BY <1>3, <2>3 DEF Clear
    <3>2. left \subseteq AllEvents BY <3>1 DEF AllEvents
    <3>3. left \subseteq job[p].keep \union (AllEvents \ job[p].keep) \union disturbed[p] BY <3>2
    <3>4. Fits("remove", Task(job[p].op, job[p].keep, AllEvents \ job[p].keep), left, disturbed[p])
      BY <1>2, <3>3 DEF Fits
    <3> QED BY <1>1, <2>1, <3>1, <3>4
  <2> QED BY <2>2, <2>3
<1>4. CASE RemoveNames(p)
  <2>1. pc[p] = "remove" /\ pc[p] \in Rewrites BY <1>4 DEF RemoveNames, Rewrites
  <2>2. NamesOf(who[p]) \subseteq job[p].keep \union job[p].names \union disturbed[p]
    BY <1>0, <2>1 DEF Fits
  <2>3. CASE job[p].names = {} /\ UNCHANGED subs /\ Continue(p, "add", job[p].keep)
    <3>1. left = NamesOf(who[p]) BY <2>3 DEF NamesOf, IsSubscribed
    <3>2. Fits("add", Task(job[p].op, job[p].keep, job[p].keep), left, disturbed[p])
      BY <1>2, <2>2, <2>3, <3>1 DEF Fits
    <3> QED BY <1>1, <2>1, <2>3, <3>2
  <2>4. ASSUME NEW name \in job[p].names, subs' = Unsubscribed(who[p], name),
               Continue(p, "remove", job[p].names \ {name})
        PROVE  \A q \in Callers : Settled(q)'
    <3>1. left \subseteq NamesOf(who[p]) \ {name}
      BY <2>4 DEF NamesOf, IsSubscribed, Unsubscribed, Rewriting
    <3>2. Fits("remove", Task(job[p].op, job[p].keep, job[p].names \ {name}), left, disturbed[p])
      BY <1>2, <2>2, <3>1 DEF Fits
    <3> QED BY <1>1, <2>1, <2>4, <3>2
  <2> QED BY <1>4, <2>3, <2>4 DEF RemoveNames
<1>5. CASE Add(p)
  <2>1. pc[p] = "add" /\ pc[p] \in Rewrites BY <1>5 DEF Add, Rewrites
  <2>2. /\ job[p].names \subseteq job[p].keep
        /\ job[p].keep \subseteq NamesOf(who[p]) \union job[p].names \union disturbed[p]
        /\ job[p].op # "register" => NamesOf(who[p]) \subseteq job[p].keep \union disturbed[p]
    BY <1>0, <2>1 DEF Fits
  <2>3. CASE job[p].names = {} /\ UNCHANGED subs /\ Goto(p, "finish")
    <3>1. left = NamesOf(who[p]) BY <2>3 DEF NamesOf, IsSubscribed
    <3>2. Fits("finish", job[p], left, disturbed[p]) BY <2>2, <2>3, <3>1 DEF Fits
    <3>3. Becomes(p, "finish", who[p], job[p]) BY <2>3, Gone
    <3> QED BY <1>0, <2>1, <3>2, <3>3, SettledMoves
  <2>4. ASSUME NEW name \in job[p].names, subs' = Subscribed(who[p], name),
               Continue(p, "add", job[p].names \ {name})
        PROVE  \A q \in Callers : Settled(q)'
    <3>1. name \in Names BY DEF Control
    <3>2. left = NamesOf(who[p]) \union {name}
      BY <2>4, <3>1 DEF NamesOf, IsSubscribed, Subscribed, Rewriting
    <3>3. Fits("add", Task(job[p].op, job[p].keep, job[p].names \ {name}), left, disturbed[p])
      BY <1>2, <2>2, <3>2 DEF Fits
    <3> QED BY <1>1, <2>1, <2>4, <3>3
  <2> QED BY <1>5, <2>3, <2>4 DEF Add
<1>6. CASE Forget(p)
  <2>1. /\ pc[p] \in Rewrites /\ subs' = UnsubscribedAll(who[p])
        /\ Becomes(p, "clearClient", who[p], job[p])
    BY <1>6, Gone DEF Forget, Rewrites
  <2>2. left = {} BY <2>1 DEF UnsubscribedAll
  <2>3. Fits("clearClient", job[p], left, disturbed[p]) BY <2>2 DEF Fits
  <2> QED BY <1>0, <2>1, <2>3, SettledMoves
<1>7. CASE Finish(p) \/ ClearClient(p)
  <2>1. Becomes(p, "idle", Nobody, NoTask) BY <1>7, Begun DEF Finish, ClearClient, End
  <2> QED BY <2>1, SettledMoves DEF Rewrites
<1>8. CASE NextClient(p) \/ Stamp(p) \/ Store(p)
  <2>1. PICK place, i, task : place \notin Rewrites /\ Becomes(p, place, i, task)
    <3>1. CASE NextClient(p)
      <4>1. PICK place, i, task : place \in {"idle", "next", "lock"} /\ Begin(p, place, i, task)
        BY <3>1, SMT DEF NextClient, End
      <4> QED BY <4>1, Begun DEF Rewrites
    <3>2. CASE Stamp(p) /\ IsTarget(who[p], job[p].event)
      <4>1. Becomes(p, "store", who[p], job[p])
        BY <3>2 DEF Stamp, Becomes, Stays, Control
      <4> QED BY <4>1 DEF Rewrites
    <3>3. CASE Stamp(p) /\ ~IsTarget(who[p], job[p].event)
      <4>1. Begin(p, "next", Nobody, job[p]) BY <3>3 DEF Stamp
      <4>2. Becomes(p, "next", Nobody, job[p]) BY <4>1, Begun
      <4> QED BY <4>2 DEF Rewrites
    <3>4. CASE Store(p)
      <4>1. Becomes(p, "next", Nobody, job[p]) BY <3>4 DEF Store, Becomes, Stays, Control
      <4> QED BY <4>1 DEF Rewrites
    <3> QED BY <1>8, <3>1, <3>2, <3>3, <3>4
  <2> QED BY <2>1, SettledMoves
<1> QED BY <1>3, <1>4, <1>5, <1>6, <1>7, <1>8 DEF Running

(* For any number of clients, names and concurrent calls: but for the names *)
(* that somebody else changes for the client meanwhile, RegisterContext     *)
(* leaves all it was given, with ReplaceSubscriptions and in SubscribeOnly  *)
(* exactly those, and Unregister leaves none.                               *)
THEOREM CallsLeaveWhatWasAsked == Spec => []CallsSettle
<1> DEFINE SInv == Rewriting /\ \A p \in Callers : Settled(p)
<1>1. Init => SInv
  <2> SUFFICES ASSUME Init, NEW p \in Callers PROVE Settled(p) BY RewritingInit
  <2> QED BY DEF Init, Settled, Fits, Rewrites
<1>2. IInv /\ SInv /\ [Next]_vars => SInv'
  <2> SUFFICES ASSUME IInv, SInv, [Next]_vars PROVE SInv' OBVIOUS
  <2>1. CASE UNCHANGED vars
    BY <2>1, SMT DEF vars, control, Rewriting, Settled, Fits, NamesOf, IsSubscribed
  <2>2. CASE Observe /\ (CleanupTick \/ PurgeExpired \/ Advance)
    <3>1. \A q \in Callers : Stays(q)
      BY <2>2 DEF CleanupTick, PurgeExpired, Advance, control, Stays
    <3>2. Rewriting'
      BY <2>2 DEF CleanupTick, PurgeExpired, Advance, control, Rewriting
    <3> QED BY <2>2, <3>1, <3>2, SettledStays
  <2>3. ASSUME NEW p \in Callers, Observe, Calling(p) PROVE SInv'
    BY <2>3, RewritingStarts, SettledStarts DEF IInv
  <2>4. ASSUME NEW p \in Callers, Observe, Running(p) PROVE SInv'
    BY <2>4, RewritingRuns, SettledRuns DEF IInv
  <2> QED BY <2>1, <2>2, <2>3, <2>4 DEF Next
<1>3. SInv => CallsSettle
  BY DEF Settled, Fits, CallsSettle
<1> QED BY <1>1, <1>2, <1>3, TypeInit, TypeStep, PTL DEF Spec

-----------------------------------------------------------------------------
(***************************************************************************)
(* The cleanup.  A purged cursor matters only if its event was not the     *)
(* oldest of the client: what keeps histories ordered by time is that the  *)
(* entry's time is read in the lifecycle lock.                             *)
(***************************************************************************)

(* The calls that have the lifecycle lock of their client. *)
Locked(p) ==
  \/ pc[p] \in {"forget", "clearClient", "store"}
  \/ pc[p] \in {"clear", "remove", "add", "finish"} /\ job[p].op # "only"

Shape ==
  /\ clock \in Nat /\ stored \in Nat /\ purgeAt \in Int
  /\ DOMAIN pc = Callers /\ who \in [Callers -> Ids \union {Nobody}]
  /\ stamp \in [Callers -> Nat] /\ DOMAIN job = Callers
  /\ lifecycle \in [Ids -> Callers \union {Nobody}]
  /\ DOMAIN store = Ids /\ DOMAIN log = Ids /\ registered \subseteq Ids

(* Who has a lock is noted there, and an entry about to be stored is not    *)
(* older than what the client has.                                          *)
Locks ==
  \A p \in Callers : Locked(p) =>
    /\ who[p] \in Ids /\ lifecycle[who[p]] = p
    /\ pc[p] = "store" => stamp[p] <= clock /\ \A e \in log[who[p]] : e.at <= stamp[p]

(* A history is in the order of its times, and what is missing is expired. *)
Ordered(i) ==
  /\ store[i] \subseteq log[i]
  /\ \A e \in log[i] : e.n \in Nat /\ e.n <= stored /\ e.at \in Nat /\ e.at <= clock
  /\ \A e, f \in log[i] : (e.n = f.n => e = f) /\ (e.n < f.n => e.at <= f.at)
  /\ \A e \in log[i] : e \notin store[i] => e.at < clock - Retention

HInv ==
  /\ Shape /\ Locks
  /\ \A i \in Ids : Ordered(i)
  /\ purgeAt # -1 => purgeAt <= clock - Retention

(* EventsSince, from a history that lacks only expired entries, finds the   *)
(* same entries that are still to be replayed.                              *)
LEMMA PurgedCursor ==
  ASSUME HInv, NEW i \in Ids, NEW cursor
  PROVE  Replayed(i, store[i], cursor) = Replayed(i, log[i], cursor)
<1>1. \A e \in store[i], f \in log[i] :
        e.at >= clock - Retention /\ f \notin store[i] => f.n < e.n
  BY RetentionAssumption, SMT DEF HInv, Ordered, Shape
<1>2. \A e \in log[i] : e.at >= clock - Retention => e \in store[i]
  BY RetentionAssumption, SMT DEF HInv, Ordered, Shape
<1> QED BY <1>1, <1>2, RetentionAssumption DEF Replayed, EventsSince, HInv, Ordered, Shape

LEMMA OrderedInit == Init => HInv
<1> SUFFICES ASSUME Init PROVE HInv OBVIOUS
<1>1. Shape
  <2>1. clock \in Nat /\ stored \in Nat /\ purgeAt \in Int BY SMT DEF Init
  <2>2. DOMAIN pc = Callers BY DEF Init
  <2>3. who \in [Callers -> Ids \union {Nobody}] BY DEF Init
  <2>4. stamp \in [Callers -> Nat] BY DEF Init
  <2>5. DOMAIN job = Callers BY DEF Init
  <2>6. lifecycle \in [Ids -> Callers \union {Nobody}] BY DEF Init
  <2>7. DOMAIN store = Ids /\ DOMAIN log = Ids BY DEF Init
  <2>8. registered \subseteq Ids BY ScenariosAssumption DEF Init
  <2> QED BY <2>1, <2>2, <2>3, <2>4, <2>5, <2>6, <2>7, <2>8 DEF Shape
<1>2. Locks BY DEF Init, Locks, Locked
<1>3. \A i \in Ids : Ordered(i) BY DEF Init, Ordered
<1>4. purgeAt = -1 BY DEF Init
<1> QED BY <1>1, <1>2, <1>3, <1>4 DEF HInv

(* Only caller p moves, and the variables keep their shape. *)
Alone(p) ==
  /\ \A q \in Callers \ {p} : /\ pc'[q] = pc[q] /\ who'[q] = who[q]
                             /\ job'[q] = job[q] /\ stamp'[q] = stamp[q]
  /\ DOMAIN pc' = Callers /\ who' \in [Callers -> Ids \union {Nobody}]
  /\ DOMAIN job' = Callers /\ stamp' \in [Callers -> Nat]
  /\ registered' \subseteq Ids

-----------------------------------------------------------------------------
LEMMA InvStep == HInv /\ [Next]_vars => HInv'
<1> SUFFICES ASSUME HInv PROVE [Next]_vars => HInv' OBVIOUS
<1>OthersLocked.
  ASSUME NEW p \in Callers, NEW q \in Callers, q # p, Alone(p)
  PROVE  Locked(q)' <=> Locked(q)
  BY <1>OthersLocked DEF Alone, Locked
(* Steps that leave histories, time and locks alone, and give no caller a   *)
(* lock: the place of a caller changes only among those in the lock, or     *)
(* among those that are not.                                                *)
<1>Harmless.
  ASSUME NEW p \in Callers, Alone(p),
         UNCHANGED <<clock, store, log, stored, purgeAt, lifecycle>>,
         Locked(p)' => Locked(p) /\ who'[p] = who[p] /\ pc'[p] # "store"
  PROVE  HInv'
  <2> USE <1>Harmless
  <2>1. Shape' BY DEF HInv, Shape, Alone
  <2>2. Locks'
    <3> SUFFICES ASSUME NEW q \in Callers, Locked(q)'
                 PROVE  /\ who'[q] \in Ids /\ lifecycle'[who'[q]] = q
                        /\ pc'[q] = "store" =>
                             stamp'[q] <= clock' /\ \A e \in log'[who'[q]] : e.at <= stamp'[q]
      BY DEF Locks
    <3>1. CASE q = p BY <3>1 DEF HInv, Locks
    <3>2. CASE q # p BY <3>2, <1>OthersLocked DEF HInv, Locks, Alone
    <3> QED BY <3>1, <3>2
  <2>3. \A i \in Ids : Ordered(i)' BY DEF HInv, Ordered
  <2> QED BY <2>1, <2>2, <2>3 DEF HInv
(* A caller gets the lock of a client; the time it may read is now. *)
<1>Acquired.
  ASSUME NEW p \in Callers, NEW i \in Ids, Alone(p), who'[p] = i,
         lifecycle[i] = Nobody, lifecycle' = [lifecycle EXCEPT ![i] = p],
         UNCHANGED <<clock, store, log, stored, purgeAt>>,
         pc'[p] = "store" => stamp'[p] = clock
  PROVE  HInv'
  <2> USE <1>Acquired
  <2>1. Shape' BY DEF HInv, Shape, Alone
  <2>2. Locks'
    <3> SUFFICES ASSUME NEW q \in Callers, Locked(q)'
                 PROVE  /\ who'[q] \in Ids /\ lifecycle'[who'[q]] = q
                        /\ pc'[q] = "store" =>
                             stamp'[q] <= clock' /\ \A e \in log'[who'[q]] : e.at <= stamp'[q]
      BY DEF Locks
    <3>1. CASE q = p BY <3>1, SMT DEF HInv, Shape, Ordered
    <3>2. CASE q # p
      <4>1. Locked(q) BY <3>2, <1>OthersLocked
      <4>2. who[q] # i BY <4>1, NobodyAssumption DEF HInv, Locks
      <4> QED BY <3>2, <4>1, <4>2 DEF HInv, Locks, Shape, Alone
    <3> QED BY <3>1, <3>2
  <2>3. \A j \in Ids : Ordered(j)' BY DEF HInv, Ordered
  <2> QED BY <2>1, <2>2, <2>3 DEF HInv
(* A caller gives its lock back, having changed at most the history that    *)
(* the lock protects.                                                       *)
<1>Released.
  ASSUME NEW p \in Callers, NEW i \in Ids, who[p] = i, Alone(p), Locked(p), ~Locked(p)',
         lifecycle' = [lifecycle EXCEPT ![i] = Nobody],
         UNCHANGED <<clock, purgeAt>>, stored' \in Nat, stored' >= stored,
         DOMAIN store' = Ids, DOMAIN log' = Ids, Ordered(i)',
         \A j \in Ids \ {i} : store'[j] = store[j] /\ log'[j] = log[j]
  PROVE  HInv'
  <2> USE <1>Released
  <2>1. Shape' BY DEF HInv, Shape, Alone, Locks
  <2>2. Locks'
    <3> SUFFICES ASSUME NEW q \in Callers, Locked(q)'
                 PROVE  /\ who'[q] \in Ids /\ lifecycle'[who'[q]] = q
                        /\ pc'[q] = "store" =>
                             stamp'[q] <= clock' /\ \A e \in log'[who'[q]] : e.at <= stamp'[q]
      BY DEF Locks
    <3>1. q # p OBVIOUS
    <3>2. Locked(q) BY <3>1, <1>OthersLocked
    <3>3. who[q] # who[p] BY <3>1, <3>2 DEF HInv, Locks
    <3> QED BY <3>1, <3>2, <3>3, SMT DEF HInv, Locks, Shape, Alone
  <2>3. ASSUME NEW j \in Ids PROVE Ordered(j)'
    <3>1. CASE j = i BY <3>1
    <3>2. CASE j # i
      BY <3>2, SMT DEF HInv, Ordered, Shape
    <3> QED BY <3>1, <3>2
  <2> QED BY <2>1, <2>2, <2>3 DEF HInv
(* The calls as they start. *)
<1>CallingStep.
  ASSUME NEW p \in Callers, Calling(p)
  PROVE  HInv'
  <2> USE <1>CallingStep
  <2> USE DEF control, MayCall
  <2>1. CASE \E event \in scenario.events : Publish(p, event)
    <3>1. PICK event \in scenario.events : Publish(p, event) BY <2>1
    <3>2. PICK task : Begin(p, "next", Nobody, task) BY <3>1 DEF Publish
    <3>3. Alone(p) /\ ~Locked(p)' BY <3>1, <3>2 DEF Publish, Begin, Alone, HInv, Shape, Locked
    <3>4. UNCHANGED <<clock, store, log, stored, purgeAt, lifecycle>> BY <3>1 DEF Publish
    <3> QED BY <3>3, <3>4, <1>Harmless
  <2>2. CASE \E i \in Ids : Unregister(p, i)
    <3>1. PICK i \in Ids : Unregister(p, i) BY <2>2
    <3>2. Alone(p) /\ who'[p] = i /\ pc'[p] # "store"
      BY <3>1 DEF Unregister, Begin, Alone, HInv, Shape
    <3>3. /\ lifecycle[i] = Nobody /\ lifecycle' = [lifecycle EXCEPT ![i] = p]
          /\ UNCHANGED <<clock, store, log, stored, purgeAt>>
      BY <3>1 DEF Unregister, Lock
    <3> QED BY <3>2, <3>3, <1>Acquired
  <2>3. CASE \E i \in Ids, events \in SUBSET Names, replace \in BOOLEAN :
               Register(p, i, events, replace)
    <3>1. PICK i \in Ids, events \in SUBSET Names, replace \in BOOLEAN :
                 Register(p, i, events, replace) BY <2>3
    <3>2. Alone(p) /\ who'[p] = i /\ pc'[p] # "store"
      BY <3>1 DEF Register, Begin, Alone, HInv, Shape
    <3>3. /\ lifecycle[i] = Nobody /\ lifecycle' = [lifecycle EXCEPT ![i] = p]
          /\ UNCHANGED <<clock, store, log, stored, purgeAt>>
      BY <3>1 DEF Register, Lock
    <3> QED BY <3>2, <3>3, <1>Acquired
  <2>4. CASE \E i \in Ids, name \in Names : Subscribe(p, i, name) \/ Unsubscribe(p, i, name)
    <3>1. UNCHANGED <<pc, who, stamp, job, clock, store, log, stored, purgeAt, lifecycle,
                registered>>
      BY <2>4 DEF Subscribe, Unsubscribe
    <3> QED BY <3>1 DEF HInv, Shape, Locks, Locked, Ordered
  <2>5. CASE \E i \in Ids, name \in Names : SubscribeOnly(p, i, name)
    <3>1. PICK i \in Ids, name \in Names : SubscribeOnly(p, i, name) BY <2>5
    <3>2. Alone(p) /\ ~Locked(p)'
      BY <3>1 DEF SubscribeOnly, Begin, Task, Alone, HInv, Shape, Locked
    <3>3. UNCHANGED <<clock, store, log, stored, purgeAt, lifecycle>> BY <3>1 DEF SubscribeOnly
    <3> QED BY <3>2, <3>3, <1>Harmless
  <2> QED BY <2>1, <2>2, <2>3, <2>4, <2>5 DEF Calling
(* Rewriting the subscriptions keeps a call in the lock it has, if any. *)
<1>RewritingStep.
  ASSUME NEW p \in Callers, Clear(p) \/ RemoveNames(p) \/ Add(p) \/ Forget(p)
  PROVE  HInv'
  <2> USE <1>RewritingStep
  <2>1. UNCHANGED <<clock, store, log, stored, purgeAt, lifecycle, registered>>
    BY DEF Clear, RemoveNames, Add, Forget, Quiet
  <2>2. CASE Forget(p) \/ (Add(p) /\ Goto(p, "finish"))
    <3>1. Alone(p) /\ who'[p] = who[p] /\ pc'[p] # "store" /\ job'[p] = job[p]
      BY <2>1, <2>2 DEF Forget, Goto, Alone, HInv, Shape
    <3>2. Locked(p)' => Locked(p) BY <2>2, <3>1 DEF Forget, Add, Goto, Locked, HInv, Shape
    <3> QED BY <2>1, <3>1, <3>2, <1>Harmless
  <2>3. ASSUME NEW place \in {"remove", "add"}, NEW names,
               pc[p] \in {"clear", "remove", "add"}, Continue(p, place, names)
        PROVE  HInv'
    <3>1. Alone(p) /\ who'[p] = who[p] /\ pc'[p] = place /\ job'[p].op = job[p].op
      BY <2>1, <2>3 DEF Continue, Begin, Task, Alone, HInv, Shape
    <3>2. Locked(p)' => Locked(p) BY <2>3, <3>1 DEF Locked
    <3> QED BY <2>1, <3>1, <3>2, <1>Harmless
  <2>4. CASE Clear(p) BY <2>3, <2>4, SMTT(30) DEF Clear
  <2>5. CASE RemoveNames(p)
    <3>1. pc[p] = "remove" BY <2>5 DEF RemoveNames
    <3>2. \/ Continue(p, "add", job[p].keep)
          \/ \E name \in job[p].names : Continue(p, "remove", job[p].names \ {name})
      BY <2>5 DEF RemoveNames
    <3>3. ASSUME NEW name \in job[p].names, Continue(p, "remove", job[p].names \ {name}) PROVE HInv'
      BY <3>1, <3>3, <2>3, SMT
    <3>4. CASE Continue(p, "add", job[p].keep) BY <3>1, <3>4, <2>3, SMT
    <3> QED BY <3>2, <3>3, <3>4
  <2>6. CASE Add(p)
    <3>1. pc[p] = "add" BY <2>6 DEF Add
    <3>2. Goto(p, "finish") \/ \E name \in job[p].names : Continue(p, "add", job[p].names \ {name})
      BY <2>6 DEF Add
    <3>3. ASSUME NEW name \in job[p].names, Continue(p, "add", job[p].names \ {name}) PROVE HInv'
      BY <3>1, <3>3, <2>3, SMT
    <3> QED BY <2>2, <2>6, <3>2, <3>3
  <2> QED BY <2>2, <2>4, <2>5, <2>6
(* The end of a call that had a lock. *)
<1>FinishStep.
  ASSUME NEW p \in Callers, Finish(p) \/ ClearClient(p)
  PROVE  HInv'
  <2> USE <1>FinishStep
  <2>1. Alone(p) /\ ~Locked(p)'
    <3>1. CASE ClearClient(p) BY <3>1 DEF ClearClient, End, Begin, Alone, HInv, Shape, Locked
    <3>2. CASE Finish(p)
      <4>1. job[p].op # "only" => who[p] \in Ids BY <3>2 DEF Finish, HInv, Locks, Locked
      <4> QED BY <3>2, <4>1 DEF Finish, End, Begin, Alone, HInv, Shape, Locked
    <3> QED BY <3>1, <3>2
  <2>2. UNCHANGED <<clock, purgeAt, stored>> BY DEF Finish, ClearClient, Quiet
  <2>3. CASE Finish(p) /\ job[p].op = "only"
    <3>1. UNCHANGED <<store, log, lifecycle>> BY <2>3 DEF Finish
    <3> QED BY <2>1, <2>2, <3>1, <1>Harmless
  <2>4. CASE Finish(p) /\ job[p].op # "only"
    <3>1. Locked(p) BY <2>4 DEF Finish, Locked
    <3>2. PICK i \in Ids : i = who[p] BY <3>1 DEF HInv, Locks
    <3>3. UNCHANGED <<store, log>> /\ lifecycle' = [lifecycle EXCEPT ![i] = Nobody]
      BY <2>4, <3>2 DEF Finish, Unlock
    <3>4. Ordered(i)' BY <2>2, <3>3 DEF HInv, Ordered
    <3>5. /\ stored' \in Nat /\ stored' >= stored /\ DOMAIN store' = Ids /\ DOMAIN log' = Ids
          /\ \A j \in Ids \ {i} : store'[j] = store[j] /\ log'[j] = log[j]
      BY <2>2, <3>3, SMT DEF HInv, Shape
    <3> QED BY <2>1, <2>2, <3>1, <3>2, <3>3, <3>4, <3>5, <1>Released
  <2>5. CASE ClearClient(p)
    <3>1. Locked(p) BY <2>5 DEF ClearClient, Locked
    <3>2. PICK i \in Ids : i = who[p] BY <3>1 DEF HInv, Locks
    <3>3. /\ lifecycle' = [lifecycle EXCEPT ![i] = Nobody]
          /\ store' = [store EXCEPT ![i] = {}] /\ log' = [log EXCEPT ![i] = {}]
      BY <2>5, <3>2 DEF ClearClient, Unlock
    <3>4. store'[i] = {} /\ log'[i] = {} BY <3>3 DEF HInv, Shape
    <3>5. Ordered(i)' BY <3>4 DEF Ordered
    <3>6. /\ stored' \in Nat /\ stored' >= stored /\ DOMAIN store' = Ids /\ DOMAIN log' = Ids
          /\ \A j \in Ids \ {i} : store'[j] = store[j] /\ log'[j] = log[j]
      BY <2>2, <3>3, SMT DEF HInv, Shape
    <3> QED BY <2>1, <2>2, <3>1, <3>2, <3>3, <3>5, <3>6, <1>Released
  <2> QED BY <2>3, <2>4, <2>5
(* handle: between two clients it has no lock; the time of an entry is read *)
(* in the lock, and so is not before that of any entry the client has.      *)
<1>HandleStep.
  ASSUME NEW p \in Callers, NextClient(p) \/ Stamp(p)
  PROVE  HInv'
  <2> USE <1>HandleStep
  <2>1. UNCHANGED <<clock, store, log, stored, purgeAt, registered>> BY DEF NextClient, Stamp, Quiet
  <2>2. ASSUME NEW place \in {"idle", "next", "lock"}, NEW i \in Ids \union {Nobody}, NEW task,
               Begin(p, place, i, task), UNCHANGED lifecycle
        PROVE  HInv'
    <3>1. Alone(p) /\ ~Locked(p)' BY <2>1, <2>2 DEF Begin, Alone, HInv, Shape, Locked
    <3> QED BY <2>1, <2>2, <3>1, <1>Harmless
  <2>3. CASE NextClient(p)
    <3>1. UNCHANGED lifecycle BY <2>3 DEF NextClient
    <3>2. CASE job[p].ids = <<>>
      <4>1. Begin(p, "idle", Nobody, NoTask) BY <2>3, <3>2 DEF NextClient, End
      <4> QED BY <4>1, <3>1, <2>2
    <3>3. CASE job[p].ids # <<>>
      <4> DEFINE e == job[p].event  i == Head(job[p].ids)
                 task == Publication(e, Tail(job[p].ids))
                 target == ~Excluded(i, e) /\ IsTarget(i, e)
      <4>1. Begin(p, IF target THEN "lock" ELSE "next", IF target THEN i ELSE Nobody, task)
        BY <2>3, <3>3 DEF NextClient
      <4>2. target => i \in registered BY DEF IsTarget
      <4>3. CASE target
        <5>1. Begin(p, "lock", i, task) BY <4>1, <4>3
        <5>2. i \in Ids BY <4>2, <4>3 DEF HInv, Shape
        <5> HIDE DEF task, i
        <5> QED BY <5>1, <5>2, <3>1, <2>2
      <4>4. CASE ~target
        <5>1. Begin(p, "next", Nobody, task) BY <4>1, <4>4
        <5> HIDE DEF task
        <5> QED BY <5>1, <3>1, <2>2
      <4> QED BY <4>3, <4>4
    <3> QED BY <3>2, <3>3
  <2>4. CASE Stamp(p)
    <3>1. CASE ~IsTarget(who[p], job[p].event)
      <4>1. Begin(p, "next", Nobody, job[p]) /\ UNCHANGED lifecycle BY <2>4, <3>1 DEF Stamp
      <4> QED BY <4>1, <2>2
    <3>2. CASE IsTarget(who[p], job[p].event)
      <4>1. PICK i \in Ids : i = who[p] BY <3>2 DEF IsTarget, HInv, Shape
      <4>2. lifecycle[i] = Nobody /\ lifecycle' = [lifecycle EXCEPT ![i] = p]
        BY <2>4, <3>2, <4>1 DEF Stamp, Lock
      <4>3. Alone(p) /\ who'[p] = i /\ stamp'[p] = clock
        BY <2>4, <3>2, <4>1 DEF Stamp, Alone, HInv, Shape
      <4> QED BY <2>1, <4>1, <4>2, <4>3, <1>Acquired
    <3> QED BY <3>1, <3>2
  <2> QED BY <2>3, <2>4
<1>StoreStep.
  ASSUME NEW p \in Callers, Store(p)
  PROVE  HInv'
  <2> USE <1>StoreStep
  <2>1. Locked(p) /\ pc[p] = "store" BY DEF Store, Locked
  <2>2. PICK i \in Ids : i = who[p] BY <2>1 DEF HInv, Locks
  <2>3. Alone(p) /\ ~Locked(p)' BY DEF Store, Alone, HInv, Shape, Locked
  <2>4. /\ UNCHANGED <<clock, purgeAt>> /\ stored' = stored + 1
        /\ lifecycle' = [lifecycle EXCEPT ![i] = Nobody]
    BY <2>2 DEF Store, Unlock, Quiet
  <2>5. PICK f : f = Entry(p) OBVIOUS
  <2>6. f.n = stored + 1 /\ f.at = stamp[p] BY <2>5 DEF Entry
  <2>7. /\ stamp[p] \in Nat /\ stamp[p] <= clock
        /\ \A e \in log[i] : e.at <= stamp[p]
    BY <2>1, <2>2 DEF HInv, Shape, Locks
  <2>8. /\ store' = [store EXCEPT ![i] = store[i] \union {f}]
        /\ log' = [log EXCEPT ![i] = log[i] \union {f}]
    BY <2>2, <2>5 DEF Store
  <2>9. store'[i] = store[i] \union {f} /\ log'[i] = log[i] \union {f}
    BY <2>8 DEF HInv, Shape
  <2>10. Ordered(i)' BY <2>4, <2>6, <2>7, <2>9, SMT DEF HInv, Shape, Ordered
  <2>11. /\ stored' \in Nat /\ stored' >= stored /\ DOMAIN store' = Ids /\ DOMAIN log' = Ids
         /\ \A j \in Ids \ {i} : store'[j] = store[j] /\ log'[j] = log[j]
    BY <2>4, <2>8, SMT DEF HInv, Shape
  <2> QED BY <2>1, <2>2, <2>3, <2>4, <2>10, <2>11, <1>Released
(* The cleanup and the clock: what a tick will remove has expired already,  *)
(* and remains so.                                                          *)
<1>CleanupStep.
  ASSUME CleanupTick \/ PurgeExpired \/ Advance \/ UNCHANGED vars
  PROVE  HInv'
  <2> USE <1>CleanupStep
  <2>1. CASE UNCHANGED vars BY <2>1 DEF vars, control, HInv, Shape, Locks, Locked, Ordered
  <2> SUFFICES ASSUME CleanupTick \/ PurgeExpired \/ Advance PROVE HInv' BY <2>1
  <2>2. UNCHANGED <<pc, who, stamp, job, log, stored, lifecycle, registered>>
    BY DEF CleanupTick, PurgeExpired, Advance, control
  <2>3. clock' \in Nat /\ clock <= clock' BY SMT DEF CleanupTick, PurgeExpired, Advance, HInv, Shape
  <2>4. purgeAt' \in Int /\ (purgeAt' # -1 => purgeAt' <= clock' - Retention)
    BY RetentionAssumption, SMT DEF CleanupTick, PurgeExpired, Advance, HInv, Shape
  <2>5. DOMAIN store' = Ids BY DEF CleanupTick, PurgeExpired, Advance, HInv, Shape
  <2>6. Shape' BY <2>2, <2>3, <2>4, <2>5 DEF HInv, Shape
  <2>7. Locks'
    <3> SUFFICES ASSUME NEW q \in Callers, Locked(q)'
                 PROVE  /\ who'[q] \in Ids /\ lifecycle'[who'[q]] = q
                        /\ pc'[q] = "store" =>
                             stamp'[q] <= clock' /\ \A e \in log'[who'[q]] : e.at <= stamp'[q]
      BY DEF Locks
    <3>1. Locked(q) BY <2>2 DEF Locked
    <3> QED BY <2>2, <2>3, <3>1, SMT DEF HInv, Locks, Shape
  <2>8. ASSUME NEW i \in Ids PROVE Ordered(i)'
    <3>1. /\ store'[i] \subseteq store[i]
          /\ \A e \in store[i] : e \notin store'[i] => ~(e.at >= clock - Retention)
      <4>1. CASE PurgeExpired
        <5>1. store'[i] = Kept(store[i], purgeAt) BY <4>1 DEF PurgeExpired
        <5>2. purgeAt \in Int /\ purgeAt <= clock - Retention BY <4>1 DEF PurgeExpired, HInv, Shape
        <5>3. \A e \in store[i] : e.at \in Nat BY DEF HInv, Ordered
        <5> QED BY <5>1, <5>2, <5>3, RetentionAssumption, SMT DEF Kept, HInv, Shape
      <4>2. CASE CleanupTick \/ Advance BY <4>2 DEF CleanupTick, Advance
      <4> QED BY <4>1, <4>2
    <3> QED BY <2>2, <2>3, <3>1, RetentionAssumption, SMT DEF HInv, Ordered, Shape
  <2> QED BY <2>4, <2>6, <2>7, <2>8 DEF HInv
<1> SUFFICES ASSUME [Next]_vars PROVE HInv' OBVIOUS
<1>1. ASSUME NEW p \in Callers, Running(p) PROVE HInv'
  BY <1>1, <1>RewritingStep, <1>FinishStep, <1>HandleStep, <1>StoreStep DEF Running
<1> QED BY <1>1, <1>CallingStep, <1>CleanupStep DEF Next

(* For every retention time and any number of clients and of callers, what  *)
(* replayCleanupLoop has removed from the replay store makes no difference  *)
(* to what ReplayMissedEvents finds from any cursor.                        *)
THEOREM CleanupIsInvisible == Spec => []PurgeInvisible
<1>1. HInv => PurgeInvisible BY PurgedCursor DEF PurgeInvisible
<1> QED BY <1>1, OrderedInit, InvStep, PTL DEF Spec

-----------------------------------------------------------------------------
(***************************************************************************)
(* Publishing.  A client that an event is meant for is ahead in the list   *)
(* of the publisher, in its hands, or has the event in its history.        *)
(***************************************************************************)

Copies(i, n) == {e \in log[i] : e.pub = n}
InHand(p) == pc[p] \in {"lock", "store"}
Awaits(p, i) == i \in Range(job[p].ids) \/ (InHand(p) /\ who[p] = i)

(* What a publisher has still to do. *)
Spreads(p) ==
  LET e == job[p].event IN
  /\ job[p].ids \in Seq(Ids) /\ IsInjective(job[p].ids)
  /\ e.pub \in 1 .. published
  /\ InHand(p) => who[p] \in Ids \ Range(job[p].ids)
  /\ entitled[p] \subseteq Intended(e) \intersect registered \intersect subs[e.name]
  /\ \A i \in Ids : Awaits(p, i) => Copies(i, e.pub) = {}
  /\ \A i \in entitled[p] : Awaits(p, i) \/ \E x \in log[i] : Copies(i, e.pub) = {x}
Publishes(p) ==
  /\ job[p].op = "publish" <=> pc[p] \in {"next", "lock", "store"}
  /\ job[p].op # "publish" => entitled[p] = {}
  /\ job[p].op = "publish" => Spreads(p)

(* No two publish the same, a history has nothing that is not published,    *)
(* and an ID whose history is to be cleared is not in the table.            *)
PInv ==
  /\ \A p \in Callers : Publishes(p)
  /\ \A p, q \in Callers : (job[p].op = "publish" /\ job[q].op = "publish"
                             /\ job[p].event.pub = job[q].event.pub) => p = q
  /\ \A i \in Ids : \A e \in log[i] : e.pub \in 1 .. published
  /\ \A p \in Callers : pc[p] \in {"forget", "clearClient"} => who[p] \notin registered
LEMMA RestOf ==
  ASSUME NEW s \in Seq(Ids), IsInjective(s), s # <<>>
  PROVE  /\ Tail(s) \in Seq(Ids) /\ IsInjective(Tail(s)) /\ Head(s) \in Ids
         /\ Range(s) = Range(Tail(s)) \union {Head(s)} /\ Head(s) \notin Range(Tail(s))
<1> DEFINE t == Tail(s)
<1>1. /\ Len(s) \in Nat \ {0} /\ DOMAIN s = 1 .. Len(s) /\ DOMAIN t = 1 .. Len(s) - 1
      /\ \A n \in 1 .. Len(s) - 1 : t[n] = s[n + 1] /\ n + 1 \in DOMAIN s /\ n + 1 # 1 /\ n \in Int
      /\ Head(s) = s[1] /\ 1 \in DOMAIN s /\ s[1] \in Ids /\ t \in Seq(Ids)
  BY SMT
<1>2. \A n \in DOMAIN s : n = 1 \/ (n - 1 \in DOMAIN t /\ t[n - 1] = s[n]) BY <1>1, SMT
<1> HIDE DEF t
<1>3. IsInjective(t)
  <2>1. ASSUME NEW m \in DOMAIN t, NEW n \in DOMAIN t, t[m] = t[n] PROVE m = n
    <3>1. m + 1 = n + 1 BY <1>1, <2>1 DEF IsInjective
    <3>2. m \in Int /\ n \in Int BY <1>1
    <3> QED BY <3>1, <3>2, SMT
  <2> QED BY <2>1 DEF IsInjective
<1>4. Head(s) \notin Range(t)
  <2>1. ASSUME NEW n \in DOMAIN t, t[n] = Head(s) PROVE FALSE
    <3>1. s[n + 1] = s[1] /\ n + 1 \in DOMAIN s /\ 1 \in DOMAIN s /\ n + 1 # 1 BY <1>1, <2>1
    <3> QED BY <3>1 DEF IsInjective
  <2> QED BY <2>1 DEF Range
<1>5. \A n \in DOMAIN s : s[n] \in Range(t) \union {Head(s)}
  <2>1. ASSUME NEW n \in DOMAIN s PROVE s[n] = Head(s) \/ \E k \in DOMAIN t : t[k] = s[n] BY <1>1, <1>2, <2>1
  <2> QED BY <2>1 DEF Range
<1>6. \A n \in DOMAIN t : t[n] \in Range(s)
  <2>1. ASSUME NEW n \in DOMAIN t PROVE \E k \in DOMAIN s : s[k] = t[n] BY <1>1, <2>1
  <2> QED BY <2>1 DEF Range
<1>7. Head(s) \in Range(s) BY <1>1 DEF Range
<1>8. Range(s) = Range(t) \union {Head(s)} BY <1>5, <1>6, <1>7 DEF Range
<1> QED BY <1>1, <1>3, <1>4, <1>8 DEF t

LEMMA OneMore ==
  ASSUME NEW s \in Seq(Ids), IsInjective(s), NEW i \in Ids, i \notin Range(s)
  PROVE  /\ Append(s, i) \in Seq(Ids) /\ IsInjective(Append(s, i))
         /\ Range(Append(s, i)) = Range(s) \union {i}
<1> DEFINE t == Append(s, i)
<1>1. /\ Len(s) \in Nat /\ DOMAIN s = 1 .. Len(s) /\ DOMAIN t = 1 .. Len(s) + 1 /\ t \in Seq(Ids)
      /\ \A n \in DOMAIN s : t[n] = s[n] /\ n \in DOMAIN t
      /\ t[Len(s) + 1] = i /\ Len(s) + 1 \in DOMAIN t
  BY SMT
<1>2. \A n \in DOMAIN t : n \in DOMAIN s \/ n = Len(s) + 1 BY <1>1, SMT
<1> HIDE DEF t
<1>3. \A n \in DOMAIN s : s[n] # i BY DEF Range
<1>4. IsInjective(t) BY <1>1, <1>2, <1>3 DEF IsInjective
<1>5. Range(t) = Range(s) \union {i} BY <1>1, <1>2 DEF Range
<1> QED BY <1>1, <1>4, <1>5 DEF t

(* The loop of uniqueStrings over the first n values. *)
Round(f, values, k) ==
  IF k = 0 THEN <<>>
  ELSE IF \E j \in 1 .. (k - 1) : values[j] = values[k] THEN f[k - 1]
  ELSE Append(f[k - 1], values[k])
Rounds(f, values, n) == f = [k \in 0 .. n |-> Round(f, values, k)]

(* Induction: a nonempty set of naturals has a least one. *)
LEMMA FirstOf ==
  ASSUME NEW T \in SUBSET Nat, T # {}
  PROVE  \E m \in T : \A n \in T : m <= n
<1> DEFINE R == OpToRel(<, Nat)
<1>1. IsWellFoundedOn(R, Nat) BY NatLessThanWellFounded
<1>2. \A u, v \in Nat : v < u => <<v, u>> \in R BY DEF OpToRel
<1> HIDE DEF R
<1>3. PICK m \in T : \A n \in T : ~(<<n, m>> \in R) BY <1>1, WFMin
<1>4. \A n \in T : ~(n < m) BY <1>2, <1>3
<1> QED BY <1>4, SMT

LEMMA RoundsExist ==
  ASSUME NEW values, NEW n \in Nat
  PROVE  \E f : Rounds(f, values, n)
<1> DEFINE T == {k \in Nat : ~\E f : Rounds(f, values, k)}
<1> SUFFICES ASSUME T # {} PROVE FALSE OBVIOUS
<1>1. PICK m \in T : \A k \in T : m <= k
  <2> HIDE DEF T
  <2>1. T \in SUBSET Nat BY DEF T
  <2> QED BY <2>1, FirstOf
<1>2. CASE m = 0
  <2> DEFINE f == [k \in 0 .. 0 |-> <<>>]
  <2>1. f = [k \in 0 .. 0 |-> Round(f, values, k)] BY SMT DEF Round
  <2> HIDE DEF f
  <2> QED BY <1>2, <2>1 DEF Rounds
<1>3. CASE m # 0
  <2>1. m \in Nat /\ m - 1 \in Nat /\ m - 1 \notin T BY <1>1, <1>3, SMT
  <2>2. PICK g : Rounds(g, values, m - 1) BY <2>1
  <2> DEFINE f == [k \in 0 .. m |-> IF k = m THEN Round(g, values, m) ELSE g[k]]
  <2>3. \A k \in 0 .. m : k # 0 => k - 1 \in 0 .. (m - 1) /\ f[k - 1] = g[k - 1] BY <2>1, SMT
  <2>4. \A k \in 0 .. m : Round(f, values, k) = Round(g, values, k)
    <3> HIDE DEF f
    <3> QED BY <2>3 DEF Round
  <2>5. \A k \in 0 .. m : k # m => k \in 0 .. (m - 1) BY <2>1, SMT
  <2>6. \A k \in 0 .. m : f[k] = Round(f, values, k) BY <2>2, <2>4, <2>5 DEF Rounds
  <2>7. f = [k \in 0 .. m |-> f[k]] OBVIOUS
  <2> HIDE DEF f
  <2>8. f = [k \in 0 .. m |-> Round(f, values, k)] BY <2>6, <2>7
  <2> QED BY <2>8, <1>1 DEF Rounds
<1> QED BY <1>2, <1>3

(* uniqueStrings keeps every value, and none twice. *)
LEMMA UniqueStringsUnique ==
  ASSUME NEW values \in Seq(Ids)
  PROVE  /\ UniqueStrings(values) \in Seq(Ids) /\ IsInjective(UniqueStrings(values))
         /\ Range(UniqueStrings(values)) = Range(values)
<1> DEFINE N == Len(values)
           f == CHOOSE g : Rounds(g, values, N)
           Upto(n) == {values[k] : k \in 1 .. n}
           Right(n) == f[n] \in Seq(Ids) /\ IsInjective(f[n]) /\ Range(f[n]) = Upto(n)
           T == {n \in 0 .. N : ~Right(n)}
<1>0. N \in Nat /\ DOMAIN values = 1 .. N /\ \A k \in 1 .. N : values[k] \in Ids BY SMT
<1>1. UniqueStrings(values) = f[N] BY DEF UniqueStrings, Rounds, Round
<1>2. Rounds(f, values, N) BY <1>0, RoundsExist
<1> HIDE DEF f, N
<1>3. \A k \in 0 .. N : f[k] = Round(f, values, k) BY <1>2 DEF Rounds
<1>4. T = {}
  <2> SUFFICES ASSUME T # {} PROVE FALSE OBVIOUS
  <2>1. PICK m \in T : \A k \in T : m <= k
    <3>1. T \in SUBSET Nat BY <1>0, SMT
    <3> HIDE DEF T
    <3> QED BY <3>1, FirstOf
  <2>2. m \in 0 .. N /\ m \in Nat /\ ~Right(m) BY <1>0, <2>1, SMT
  <2>3. m # 0
    <3>1. f[0] = <<>> BY <1>0, <1>3, SMT DEF Round
    <3>2. <<>> \in Seq(Ids) /\ DOMAIN <<>> = {} BY SMT
    <3>3. 1 .. 0 = {} BY SMT
    <3>4. Right(0) BY <3>1, <3>2, <3>3 DEF IsInjective, Range
    <3> QED BY <2>2, <3>4
  <2>4. m - 1 \in 0 .. N /\ m \in 1 .. N /\ ~(m <= m - 1) BY <1>0, <2>2, <2>3, SMT
  <2>5. Right(m - 1) BY <2>1, <2>4
  <2>6. Upto(m) = Upto(m - 1) \union {values[m]}
    <3>1. 1 .. m = 1 .. (m - 1) \union {m} BY <2>4, <1>0, SMT
    <3> QED BY <3>1
  <2>7. f[m] = IF \E j \in 1 .. (m - 1) : values[j] = values[m] THEN f[m - 1] ELSE Append(f[m - 1], values[m])
    BY <1>3, <2>2, <2>3 DEF Round
  <2>8. (\E j \in 1 .. (m - 1) : values[j] = values[m]) <=> values[m] \in Upto(m - 1) OBVIOUS
  <2>9. values[m] \in Ids BY <1>0, <2>4
  <2> HIDE DEF Upto
  <2>10. CASE values[m] \in Upto(m - 1)
    <3>1. f[m] = f[m - 1] BY <2>7, <2>8, <2>10
    <3>2. Upto(m) = Upto(m - 1) BY <2>6, <2>10
    <3> QED BY <2>2, <2>5, <3>1, <3>2
  <2>11. CASE values[m] \notin Upto(m - 1)
    <3>1. f[m] = Append(f[m - 1], values[m]) BY <2>7, <2>8, <2>11
    <3> PICK s : s = f[m - 1] OBVIOUS
    <3> PICK i : i = values[m] OBVIOUS
    <3>2. s \in Seq(Ids) /\ IsInjective(s) /\ i \in Ids /\ i \notin Range(s) BY <2>5, <2>9, <2>11
    <3>3. /\ Append(s, i) \in Seq(Ids) /\ IsInjective(Append(s, i))
          /\ Range(Append(s, i)) = Range(s) \union {i}
      BY <3>2, OneMore
    <3>4. Range(s) \union {i} = Upto(m) BY <2>5, <2>6
    <3> QED BY <2>2, <3>1, <3>3, <3>4
  <2> QED BY <2>10, <2>11
<1>5. Right(N)
  <2>1. N \in 0 .. N BY <1>0, SMT
  <2> QED BY <1>4, <2>1
<1>6. Range(values) = Upto(N) BY <1>0 DEF Range
<1> QED BY <1>1, <1>5, <1>6
-----------------------------------------------------------------------------
(* Other callers stay where they are; and for what is published as n, a     *)
(* history stays as it is, or is cleared with its client out of the table.  *)
Only(p) == \A q \in Callers \ {p} : pc'[q] = pc[q] /\ who'[q] = who[q] /\ job'[q] = job[q]
Intact(n) == \A i \in Ids : Copies(i, n)' = Copies(i, n) \/ (Copies(i, n)' = {} /\ i \notin registered')

LEMMA PublishInit == Init => PInv
<1> SUFFICES ASSUME Init PROVE PInv OBVIOUS
<1>1. \A p \in Callers : pc[p] = "idle" /\ job[p].op = "none" /\ entitled[p] = {} BY DEF Init, NoTask, Task
<1>2. \A i \in Ids : log[i] = {} BY DEF Init
<1> QED BY <1>1, <1>2 DEF PInv, Publishes

LEMMA PublishStep == IInv /\ HInv /\ PInv /\ [Next]_vars => PInv'
<1> SUFFICES ASSUME IInv, HInv, PInv, [Next]_vars PROVE PInv' OBVIOUS
<1>Counted. published \in Nat /\ published + 1 \in Nat BY ScenariosAssumption, SMT DEF IInv, Data
<1>Seen.
  ASSUME NEW q \in Callers, Observe
  PROVE  LET e == job'[q].event IN
         /\ job'[q].op # "publish" => entitled'[q] = {}
         /\ (job'[q].op = "publish" /\ pc[q] # "idle") =>
              entitled'[q] = entitled[q] \intersect registered' \intersect subs'[e.name]
         /\ entitled'[q] \subseteq registered' \intersect subs'[e.name]
         /\ (pc[q] = "idle" => entitled'[q] \subseteq Intended(e) \intersect subs[e.name])
  BY <1>Seen DEF Observe
<1>Waits.
  ASSUME NEW q \in Callers, Observe, pc'[q] = pc[q], who'[q] = who[q], job'[q] = job[q],
         published' \in Nat, published <= published', job[q].op = "publish" => Intact(job[q].event.pub)
  PROVE  Publishes(q)'
  <2> USE <1>Waits
  <2>1. CASE job[q].op # "publish" BY <2>1, <1>Seen DEF PInv, Publishes
  <2>2. CASE job[q].op = "publish"
    <3> PICK e : e = job[q].event OBVIOUS
    <3>1. Spreads(q) /\ pc[q] \in {"next", "lock", "store"} BY <2>2 DEF PInv, Publishes
    <3>2. entitled'[q] = entitled[q] \intersect registered' \intersect subs'[e.name] BY <2>2, <3>1, <1>Seen
    <3>3. (InHand(q)' <=> InHand(q)) /\ \A i : Awaits(q, i)' <=> Awaits(q, i) BY DEF InHand, Awaits
    <3>4. e.pub \in 1 .. published' BY <3>1, <1>Counted, SMT DEF Spreads
    <3>5. ASSUME NEW i \in Ids, Awaits(q, i) PROVE Copies(i, e.pub)' = {}
      BY <2>2, <3>1, <3>5 DEF Spreads, Intact
    <3>6. ASSUME NEW i \in entitled'[q], ~Awaits(q, i) PROVE \E x \in log'[i] : Copies(i, e.pub)' = {x}
      <4>1. i \in entitled[q] /\ i \in registered' /\ i \in Ids BY <3>1, <3>2, <3>6 DEF Spreads, Intended
      <4>2. PICK x \in log[i] : Copies(i, e.pub) = {x} BY <3>1, <3>6, <4>1 DEF Spreads
      <4>3. Copies(i, e.pub)' = {x} BY <2>2, <4>1, <4>2 DEF Intact
      <4>4. x \in log'[i] BY <4>3 DEF Copies
      <4> QED BY <4>3, <4>4
    <3>7. Spreads(q)' BY <3>1, <3>2, <3>3, <3>4, <3>5, <3>6 DEF Spreads
    <3> QED BY <2>2, <3>1, <3>7 DEF Publishes
  <2> QED BY <2>1, <2>2
<1>Idles.
  ASSUME NEW p \in Callers, Observe, job'[p].op # "publish", pc'[p] \notin {"next", "lock", "store"}
  PROVE  Publishes(p)'
  BY <1>Idles, <1>Seen DEF Publishes
(* A step of caller p, in parts. *)
<1>Whole.
  ASSUME NEW p \in Callers, Observe, Only(p), published' \in Nat, published <= published',
         \A q \in Callers \ {p} : job[q].op = "publish" =>
            /\ Intact(job[q].event.pub)
            /\ job'[p].op = "publish" => job'[p].event.pub # job[q].event.pub,
         \A q \in Callers \ {p} : pc[q] \in {"forget", "clearClient"} => who[q] \notin registered',
         \A i \in Ids : \A e \in log'[i] : e.pub \in 1 .. published',
         Publishes(p)', pc'[p] \in {"forget", "clearClient"} => who'[p] \notin registered'
  PROVE  PInv'
  <2> USE <1>Whole
  <2>1. ASSUME NEW q \in Callers \ {p} PROVE Publishes(q)' BY <2>1, <1>Waits DEF Only
  <2>2. ASSUME NEW q \in Callers, NEW r \in Callers, job'[q].op = "publish", job'[r].op = "publish",
               job'[q].event.pub = job'[r].event.pub
        PROVE  q = r
    <3>1. CASE q = p \/ r = p BY <2>2, <3>1 DEF Only
    <3>2. CASE q # p /\ r # p BY <2>2, <3>2, ZenonT(40) DEF Only, PInv
    <3> QED BY <3>1, <3>2
  <2>3. \A q \in Callers : pc'[q] \in {"forget", "clearClient"} => who'[q] \notin registered' BY DEF Only
  <2> QED BY <2>1, <2>2, <2>3 DEF PInv
(* One that publishes and stores nothing. *)
<1>Quietly.
  ASSUME NEW p \in Callers, Observe, Only(p), UNCHANGED <<published, log>>,
         \A q \in Callers \ {p} : pc[q] \in {"forget", "clearClient"} => who[q] \notin registered',
         job'[p].op = "publish" => job[p].op = "publish" /\ job'[p].event = job[p].event,
         Publishes(p)', pc'[p] \in {"forget", "clearClient"} => who'[p] \notin registered'
  PROVE  PInv'
  <2> USE <1>Quietly
  <2>1. \A n : Intact(n) BY DEF Intact, Copies
  <2>2. published <= published' BY <1>Counted, SMT
  <2>3. \A q \in Callers \ {p} : (job[q].op = "publish" /\ job'[p].op = "publish") =>
           job'[p].event.pub # job[q].event.pub
    BY DEF PInv
  <2>4. \A i \in Ids : \A e \in log'[i] : e.pub \in 1 .. published' BY DEF PInv
  <2>5. published' \in Nat BY <1>Counted
  <2> QED BY <2>1, <2>2, <2>3, <2>4, <2>5, <1>Whole
(* The calls that rewrite subscriptions or the table. *)
<1>Places.
  \A p \in Callers : pc[p] \in Places /\ (job[p].op = "publish" <=> pc[p] \in {"next", "lock", "store"})
  BY DEF IInv, Control, PInv, Publishes
<1>Rewrites.
  ASSUME NEW p \in Callers, Observe, Only(p), UNCHANGED <<published, log>>, registered' \subseteq registered,
         job'[p].op # "publish", pc'[p] \notin {"next", "lock", "store"},
         pc'[p] \in {"forget", "clearClient"} => who'[p] \notin registered'
  PROVE  PInv'
  <2> USE <1>Rewrites
  <2>1. \A q \in Callers : pc[q] \in {"forget", "clearClient"} => who[q] \notin registered' BY DEF PInv
  <2> QED BY <2>1, <1>Idles, <1>Quietly
<1>Subscribing.
  ASSUME NEW p \in Callers, NEW i \in Ids, NEW name \in Names, Observe,
         Subscribe(p, i, name) \/ Unsubscribe(p, i, name)
  PROVE  PInv'
  <2> USE <1>Subscribing
  <2>1. pc[p] = "idle" /\ UNCHANGED <<pc, who, job, published, log, registered>>
    BY DEF Subscribe, Unsubscribe, MayCall, control
  <2>2. job[p].op # "publish" BY <2>1, <1>Places
  <2>3. Only(p) BY <2>1 DEF Only
  <2> QED BY <2>1, <2>2, <2>3, <1>Rewrites
<1>Begins.
  ASSUME NEW p \in Callers, NEW place, NEW i, NEW task, Begin(p, place, i, task)
  PROVE  Only(p) /\ pc'[p] = place /\ who'[p] = i /\ job'[p] = task
  BY <1>Begins DEF Begin, Only, IInv, Control
<1>Starting.
  ASSUME NEW p \in Callers, NEW i \in Ids, Observe,
         \/ \E events \in SUBSET Names, replace \in BOOLEAN : Register(p, i, events, replace)
         \/ \E name \in Names : SubscribeOnly(p, i, name)
         \/ Unregister(p, i)
  PROVE  PInv'
  <2> USE <1>Starting
  <2>1. UNCHANGED <<published, log>> BY DEF Register, SubscribeOnly, Unregister, MayCall
  <2>2. ASSUME NEW events \in SUBSET Names, NEW replace \in BOOLEAN, Register(p, i, events, replace) PROVE PInv'
    <3> PICK task : task = Task(IF replace THEN "replace" ELSE "register", events, events) OBVIOUS
    <3>1. task.op # "publish" BY DEF Task
    <3>2. Begin(p, IF replace THEN "clear" ELSE "add", i, task) /\ registered' = registered BY <2>2 DEF Register
    <3>3. Only(p) /\ pc'[p] = (IF replace THEN "clear" ELSE "add") /\ who'[p] = i /\ job'[p] = task BY <3>2, <1>Begins
    <3> QED BY <2>1, <3>1, <3>2, <3>3, <1>Rewrites
  <2>3. ASSUME NEW name \in Names, SubscribeOnly(p, i, name) PROVE PInv'
    <3> PICK task : task = Task("only", {name}, {name}) OBVIOUS
    <3>1. task.op # "publish" BY DEF Task
    <3>2. Begin(p, "clear", i, task) /\ registered' = registered BY <2>3 DEF SubscribeOnly
    <3>3. Only(p) /\ pc'[p] = "clear" /\ who'[p] = i /\ job'[p] = task BY <3>2, <1>Begins, ZenonT(40)
    <3> QED BY <2>1, <3>1, <3>2, <3>3, <1>Rewrites
  <2>4. CASE Unregister(p, i)
    <3> PICK task : task = Task("unregister", {}, {}) OBVIOUS
    <3>1. task.op # "publish" BY DEF Task
    <3>2. Begin(p, "forget", i, task) /\ registered' = registered \ {i} BY <2>4 DEF Unregister
    <3>3. Only(p) /\ pc'[p] = "forget" /\ who'[p] = i /\ job'[p] = task BY <3>2, <1>Begins
    <3> QED BY <2>1, <3>1, <3>2, <3>3, <1>Rewrites
  <2> QED BY <2>2, <2>3, <2>4
<1>Continues.
  ASSUME NEW p \in Callers, NEW place, NEW names, Continue(p, place, names)
  PROVE  Only(p) /\ pc'[p] = place /\ job'[p].op = job[p].op
  <2>1. Begin(p, place, who[p], Task(job[p].op, job[p].keep, names)) BY <1>Continues DEF Continue
  <2>2. Only(p) /\ pc'[p] = place /\ job'[p] = Task(job[p].op, job[p].keep, names) BY <2>1, <1>Begins, ZenonT(40)
  <2>3. Task(job[p].op, job[p].keep, names).op = job[p].op BY DEF Task
  <2> QED BY <2>2, <2>3
<1>Continuing.
  ASSUME NEW p \in Callers, Observe, Clear(p) \/ RemoveNames(p) \/ Add(p) \/ Forget(p)
  PROVE  PInv'
  <2> USE <1>Continuing
  <2>1. UNCHANGED <<published, log, registered>> BY DEF Clear, RemoveNames, Add, Forget, Quiet
  <2>2. pc[p] \in {"clear", "remove", "add", "forget"} BY DEF Clear, RemoveNames, Add, Forget
  <2>3. job[p].op # "publish" BY <2>2, <1>Places
  <2>4. ASSUME NEW place \in {"remove", "add"}, NEW names, Continue(p, place, names) PROVE PInv'
    <3>1. Only(p) /\ pc'[p] = place /\ job'[p].op = job[p].op BY <2>4, <1>Continues
    <3> QED BY <2>1, <2>3, <2>4, <3>1, <1>Rewrites
  <2>5. ASSUME NEW place \in {"finish", "clearClient"}, Goto(p, place), place = "clearClient" => pc[p] = "forget"
        PROVE  PInv'
    <3>1. Only(p) /\ pc'[p] = place /\ who'[p] = who[p] /\ job'[p] = job[p] BY <2>5 DEF Goto, Only, IInv, Control
    <3>2. place = "clearClient" => who[p] \notin registered BY <2>5 DEF PInv
    <3> QED BY <2>1, <2>3, <3>1, <3>2, <1>Rewrites
  <2>6. CASE Clear(p) BY <2>4, <2>6 DEF Clear
  <2>7. CASE RemoveNames(p) BY <2>4, <2>7 DEF RemoveNames
  <2>8. CASE Add(p) BY <2>4, <2>5, <2>8 DEF Add
  <2>9. CASE Forget(p) BY <2>5, <2>9 DEF Forget
  <2> QED BY <2>6, <2>7, <2>8, <2>9
<1>Ends.
  ASSUME NEW p \in Callers, End(p)
  PROVE  Only(p) /\ pc'[p] = "idle" /\ job'[p].op # "publish"
  <2>1. Only(p) /\ pc'[p] = "idle" /\ job'[p] = NoTask BY <1>Ends, <1>Begins DEF End
  <2>2. NoTask.op # "publish" BY DEF NoTask, Task
  <2> QED BY <2>1, <2>2
(* The client of a registration comes into the table: its lock keeps others *)
(* from clearing its history.                                               *)
<1>Finishing.
  ASSUME NEW p \in Callers, Observe, Finish(p)
  PROVE  PInv'
  <2> USE <1>Finishing
  <2>1. UNCHANGED <<published, log>> /\ pc[p] = "finish" /\ End(p) BY DEF Finish, Quiet
  <2>2. CASE job[p].op = "only"
    <3>1. registered' = registered BY <2>2 DEF Finish
    <3>2. Only(p) /\ pc'[p] = "idle" /\ job'[p].op # "publish" BY <2>1, <1>Ends
    <3> QED BY <2>1, <3>1, <3>2, <1>Rewrites
  <2>3. CASE job[p].op # "only"
    <3>1. registered' = registered \union {who[p]} BY <2>3 DEF Finish
    <3>2. who[p] \in Ids /\ lifecycle[who[p]] = p BY <2>1, <2>3 DEF HInv, Locks, Locked
    <3>3. ASSUME NEW q \in Callers \ {p}, pc[q] \in {"forget", "clearClient"} PROVE who[q] \notin registered'
      <4>1. lifecycle[who[q]] = q BY <3>3 DEF HInv, Locks, Locked
      <4>2. who[q] # who[p] BY <3>2, <3>3, <4>1
      <4> QED BY <3>1, <3>3, <4>2 DEF PInv
    <3>4. Only(p) /\ pc'[p] = "idle" /\ job'[p].op # "publish" BY <2>1, <1>Ends
    <3>5. Publishes(p)' BY <3>4, <1>Idles
    <3> QED BY <2>1, <3>3, <3>4, <3>5, <1>Quietly
  <2> QED BY <2>2, <2>3
(* A history is cleared: nobody in the table has it. *)
<1>Clearing.
  ASSUME NEW p \in Callers, Observe, ClearClient(p)
  PROVE  PInv'
  <2> USE <1>Clearing
  <2>1. UNCHANGED <<published, registered>> /\ pc[p] = "clearClient" /\ End(p) BY DEF ClearClient, Quiet
  <2>2. log' = [log EXCEPT ![who[p]] = {}] BY DEF ClearClient
  <2>3. \A i \in Ids : log'[i] = log[i] \/ (log'[i] = {} /\ i = who[p]) BY <2>2 DEF IInv, History
  <2>4. who[p] \notin registered BY <2>1 DEF PInv
  <2>5. \A n : Intact(n) BY <2>1, <2>3, <2>4 DEF Intact, Copies
  <2>6. Only(p) /\ pc'[p] = "idle" /\ job'[p].op # "publish" BY <2>1, <1>Ends
  <2>7. Publishes(p)' BY <2>6, <1>Idles
  <2>8. \A i \in Ids : \A e \in log'[i] : e.pub \in 1 .. published' BY <2>1, <2>3 DEF PInv
  <2>9. published' \in Nat /\ published <= published' BY <2>1, <1>Counted, SMT
  <2>10. \A q \in Callers : pc[q] \in {"forget", "clearClient"} => who[q] \notin registered' BY <2>1 DEF PInv
  <2> QED BY <2>5, <2>6, <2>7, <2>8, <2>9, <2>10, <1>Whole
<1>Published. \A e, ids : /\ Publication(e, ids).op = "publish" /\ Publication(e, ids).event = e
                          /\ Publication(e, ids).ids = ids
  BY DEF Publication
(* handle begins: all that the event is meant for are ahead. *)
<1>Publishing.
  ASSUME NEW p \in Callers, NEW event \in scenario.events, Observe, Publish(p, event)
  PROVE  PInv'
  <2> USE <1>Publishing
  <2> PICK e : e = [event EXCEPT !.pub = published + 1] OBVIOUS
  <2>1. pc[p] = "idle" /\ published' = published + 1 /\ UNCHANGED <<subs, registered, log>> BY DEF Publish
  <2>2. /\ event \in [name : Names, id : EventIDs, direct : Seq(Ids), exclude : SUBSET Ids, pub : {0}]
        /\ subs[event.name] \in SUBSET Ids
    BY ScenariosAssumption DEF IInv, Data
  <2>3. e.pub = published + 1 /\ e.name = event.name /\ e.direct = event.direct /\ e.exclude = event.exclude
    BY <2>2, SMT
  <2>4. PICK ids \in IF event.direct # <<>> THEN {UniqueStrings(event.direct)}
                     ELSE Bijection(1..Cardinality(subs[event.name]), subs[event.name]) :
          Begin(p, "next", Nobody, Publication(e, ids))
    BY DEF Publish
  <2>5. ids \in Seq(Ids) /\ IsInjective(ids) /\ Intended(e) \intersect subs[e.name] \subseteq Range(ids)
    <3>1. CASE event.direct # <<>>
      <4>1. ids = UniqueStrings(event.direct) /\ event.direct \in Seq(Ids) BY <2>2, <2>4, <3>1
      <4>2. ids \in Seq(Ids) /\ IsInjective(ids) /\ Range(ids) = Range(event.direct) BY <4>1, UniqueStringsUnique
      <4>3. Intended(e) \subseteq Range(ids) BY <2>3, <3>1, <4>2 DEF Intended
      <4> QED BY <4>2, <4>3
    <3>2. CASE event.direct = <<>>
      <4> PICK S : S = subs[event.name] OBVIOUS
      <4> PICK n : n = Cardinality(S) OBVIOUS
      <4>1. n \in Nat BY <2>2, IdsAssumption, FS_Subset, FS_CardinalityType
      <4>2. ids \in Bijection(1 .. n, S) BY <2>4, <3>2
      <4>3. ids \in [1 .. n -> S] /\ IsInjective(ids) /\ \A i \in S : \E k \in 1 .. n : ids[k] = i
        BY <4>2 DEF Bijection, Injection, Surjection
      <4>4. ids \in [1 .. n -> Ids] BY <2>2, <4>3
      <4>5. ids \in Seq(Ids) BY <4>1, <4>4, SMT
      <4>6. S \subseteq Range(ids) BY <4>3 DEF Range
      <4> QED BY <2>3, <4>3, <4>5, <4>6
    <3> QED BY <3>1, <3>2
  <2>6. Only(p) /\ pc'[p] = "next" /\ job'[p] = Publication(e, ids) BY <2>4, <1>Begins
  <2>7. job'[p].op = "publish" /\ job'[p].event = e /\ job'[p].ids = ids BY <2>6, <1>Published, SMT
  <2>8. published' \in Nat /\ published <= published' /\ e.pub \in 1 .. published'
    BY <2>1, <2>3, <1>Counted, SMT
  <2>9. \A n \in 1 .. published : n \in 1 .. published' /\ n # e.pub BY <2>1, <2>3, <1>Counted, SMT
  <2>10. \A i \in Ids : Copies(i, e.pub)' = {} BY <2>1, <2>9 DEF Copies, PInv
  <2>11. ~InHand(p)' /\ \A i \in Ids : Awaits(p, i)' <=> i \in Range(ids) BY <2>6, <2>7 DEF InHand, Awaits
  <2>12. entitled'[p] \subseteq Intended(e) \intersect subs[e.name] \intersect registered' \intersect subs'[e.name]
    BY <2>1, <2>7, <1>Seen
  <2>13. \A i \in entitled'[p] : i \in Ids /\ Awaits(p, i)' BY <2>5, <2>11, <2>12 DEF Intended
  <2>14. Spreads(p)' BY <2>5, <2>7, <2>8, <2>10, <2>11, <2>12, <2>13 DEF Spreads
  <2>15. Publishes(p)' BY <2>6, <2>7, <2>14 DEF Publishes
  <2>16. \A n : Intact(n) BY <2>1 DEF Intact, Copies
  <2>17. \A q \in Callers : job[q].op = "publish" => job[q].event.pub # e.pub BY <2>9 DEF PInv, Publishes, Spreads
  <2>18. \A i \in Ids : \A f \in log'[i] : f.pub \in 1 .. published' BY <2>1, <2>9 DEF PInv
  <2>19. \A q \in Callers : pc[q] \in {"forget", "clearClient"} => who[q] \notin registered' BY <2>1 DEF PInv
  <2> QED BY <2>6, <2>7, <2>8, <2>15, <2>16, <2>17, <2>18, <2>19, <1>Whole
(* A round of handle's loop.  A client that is passed over is not meant, or *)
(* not subscribed, or not in the table.                                     *)
<1>Passing.
  ASSUME NEW p \in Callers, Observe, Only(p), job[p].op = "publish", UNCHANGED <<published, log, subs, registered>>,
         job'[p].op = "publish", job'[p].event = job[p].event, pc'[p] \in {"next", "lock", "store"},
         job'[p].ids \in Seq(Ids), IsInjective(job'[p].ids),
         InHand(p)' => who'[p] \in Ids \ Range(job'[p].ids),
         \A i \in Ids : Awaits(p, i)' => Awaits(p, i),
         \A i \in entitled[p] : Awaits(p, i) => Awaits(p, i)'
  PROVE  PInv'
  <2> USE <1>Passing
  <2> PICK e : e = job[p].event OBVIOUS
  <2>1. Spreads(p) /\ pc[p] # "idle" BY DEF PInv, Publishes
  <2>2. \A i \in Ids : Copies(i, e.pub)' = Copies(i, e.pub) BY DEF Copies
  <2>3. entitled'[p] = entitled[p] \intersect registered' \intersect subs'[e.name] BY <2>1, <1>Seen
  <2>4. \A i \in entitled[p] : i \in Ids BY <2>1 DEF Spreads, Intended
  <2>5. \A i \in Ids : Awaits(p, i)' => Copies(i, e.pub)' = {} BY <2>1, <2>2 DEF Spreads
  <2>6. ASSUME NEW i \in entitled'[p], ~Awaits(p, i)' PROVE \E x \in log'[i] : Copies(i, e.pub)' = {x}
    <3>1. i \in entitled[p] /\ i \in Ids /\ ~Awaits(p, i) BY <2>3, <2>4, <2>6
    <3>2. PICK x \in log[i] : Copies(i, e.pub) = {x} BY <2>1, <3>1 DEF Spreads
    <3> QED BY <2>2, <3>1, <3>2
  <2>7. Spreads(p)' BY <2>1, <2>3, <2>5, <2>6 DEF Spreads
  <2>8. Publishes(p)' BY <2>7 DEF Publishes
  <2>9. \A q \in Callers : pc[q] \in {"forget", "clearClient"} => who[q] \notin registered' BY DEF PInv
  <2> QED BY <2>8, <2>9, <1>Quietly
<1>Next.
  ASSUME NEW p \in Callers, Observe, NextClient(p)
  PROVE  PInv'
  <2> USE <1>Next
  <2> PICK e : e = job[p].event OBVIOUS
  <2> PICK ids : ids = job[p].ids OBVIOUS
  <2>1. pc[p] = "next" /\ UNCHANGED <<published, log, subs, registered>> BY DEF NextClient, Quiet
  <2>2. job[p].op = "publish" /\ Spreads(p) BY <2>1, <1>Places DEF PInv, Publishes
  <2>3. CASE ids = <<>>
    <3>1. End(p) BY <2>3 DEF NextClient
    <3>2. Only(p) /\ pc'[p] = "idle" /\ job'[p].op # "publish" BY <3>1, <1>Ends
    <3> QED BY <2>1, <3>2, <1>Rewrites
  <2>4. CASE ids # <<>>
    <3> PICK i : i = Head(ids) OBVIOUS
    <3> PICK target : target = (~Excluded(i, e) /\ IsTarget(i, e)) OBVIOUS
    <3>1. /\ Tail(ids) \in Seq(Ids) /\ IsInjective(Tail(ids)) /\ i \in Ids
          /\ Range(ids) = Range(Tail(ids)) \union {i} /\ i \notin Range(Tail(ids))
      BY <2>2, <2>4, RestOf DEF Spreads
    <3>2. Begin(p, IF target THEN "lock" ELSE "next", IF target THEN i ELSE Nobody, Publication(e, Tail(ids)))
      BY <2>4 DEF NextClient
    <3>3. /\ Only(p) /\ job'[p] = Publication(e, Tail(ids))
          /\ pc'[p] = (IF target THEN "lock" ELSE "next") /\ who'[p] = (IF target THEN i ELSE Nobody)
      BY <3>2, <1>Begins
    <3>4. job'[p].op = "publish" /\ job'[p].event = e /\ job'[p].ids = Tail(ids) BY <3>3, <1>Published, SMT
    <3>5. \A k : Awaits(p, k) <=> k \in Range(ids) BY <2>1 DEF Awaits, InHand
    <3>6. \A k : Awaits(p, k)' <=> k \in Range(Tail(ids)) \/ (target /\ k = i) BY <3>3, <3>4 DEF Awaits, InHand
    <3>7. i \in entitled[p] => target BY <2>2 DEF Spreads, Intended, Excluded, IsTarget, IsSubscribed
    <3>8. InHand(p)' => who'[p] = i BY <3>3 DEF InHand
    <3>9. pc'[p] \in {"next", "lock", "store"} BY <3>3
    <3>10. \A k \in Ids : Awaits(p, k)' => Awaits(p, k) BY <3>1, <3>5, <3>6
    <3>11. \A k \in entitled[p] : Awaits(p, k) => Awaits(p, k)' BY <3>1, <3>5, <3>6, <3>7
    <3> QED BY <2>1, <2>2, <3>1, <3>3, <3>4, <3>8, <3>9, <3>10, <3>11, <1>Passing
  <2> QED BY <2>3, <2>4
<1>Stamping.
  ASSUME NEW p \in Callers, Observe, Stamp(p)
  PROVE  PInv'
  <2> USE <1>Stamping
  <2> PICK e : e = job[p].event OBVIOUS
  <2>1. pc[p] = "lock" /\ UNCHANGED <<published, log, subs, registered>> BY DEF Stamp, Quiet
  <2>2. job[p].op = "publish" /\ Spreads(p) /\ InHand(p) BY <2>1, <1>Places DEF PInv, Publishes, InHand
  <2>3. who[p] \in Ids \ Range(job[p].ids) /\ job[p].ids \in Seq(Ids) /\ IsInjective(job[p].ids) BY <2>2 DEF Spreads
  <2>4. CASE IsTarget(who[p], e)
    <3>1. Only(p) /\ pc'[p] = "store" /\ who'[p] = who[p] /\ job'[p] = job[p]
      BY <2>4 DEF Stamp, Only, IInv, Control
    <3>2. \A k : Awaits(p, k)' <=> Awaits(p, k) BY <2>2, <3>1 DEF Awaits, InHand
    <3> QED BY <2>1, <2>2, <2>3, <3>1, <3>2, <1>Passing
  <2>5. CASE ~IsTarget(who[p], e)
    <3>1. Begin(p, "next", Nobody, job[p]) BY <2>5 DEF Stamp
    <3>2. Only(p) /\ pc'[p] = "next" /\ job'[p] = job[p] BY <3>1, <1>Begins
    <3>3. \A k : /\ Awaits(p, k) <=> k \in Range(job[p].ids) \/ who[p] = k
                 /\ Awaits(p, k)' <=> k \in Range(job[p].ids)
      BY <2>2, <3>2 DEF Awaits, InHand
    <3>4. who[p] \notin entitled[p] BY <2>2, <2>5 DEF Spreads, IsTarget, IsSubscribed
    <3>5. ~InHand(p)' BY <3>2 DEF InHand
    <3> QED BY <2>1, <2>2, <2>3, <3>2, <3>3, <3>4, <3>5, <1>Passing
  <2> QED BY <2>4, <2>5
(* The entry is stored: the first and only one for this client. *)
<1>Storing.
  ASSUME NEW p \in Callers, Observe, Store(p)
  PROVE  PInv'
  <2> USE <1>Storing
  <2> PICK e : e = job[p].event OBVIOUS
  <2> PICK f : f = Entry(p) OBVIOUS
  <2> PICK i : i = who[p] OBVIOUS
  <2>1. pc[p] = "store" /\ UNCHANGED <<published, subs, registered>> BY DEF Store, Quiet
  <2>2. job[p].op = "publish" /\ Spreads(p) /\ InHand(p) BY <2>1, <1>Places DEF PInv, Publishes, InHand
  <2>3. i \in Ids \ Range(job[p].ids) /\ e.pub \in 1 .. published BY <2>2 DEF Spreads
  <2>4. f.pub = e.pub BY DEF Entry
  <2>5. log' = [log EXCEPT ![i] = log[i] \union {f}] BY DEF Store
  <2>6. log'[i] = log[i] \union {f} /\ \A k \in Ids : k # i => log'[k] = log[k] BY <2>3, <2>5 DEF IInv, History
  <2>7. Only(p) /\ pc'[p] = "next" /\ job'[p] = job[p] BY DEF Store, Only, IInv, Control
  <2>8. \A k : (Awaits(p, k) <=> k \in Range(job[p].ids) \/ k = i) /\ (Awaits(p, k)' <=> k \in Range(job[p].ids))
    BY <2>2, <2>7 DEF Awaits, InHand
  <2>9. \A n : n # e.pub => Intact(n) BY <2>4, <2>6 DEF Intact, Copies
  <2>10. Copies(i, e.pub)' = {f} /\ f \in log'[i]
    <3>1. Copies(i, e.pub) = {} BY <2>2, <2>3, <2>8 DEF Spreads
    <3> QED BY <2>4, <2>6, <3>1 DEF Copies
  <2>11. \A k \in Ids : k # i => Copies(k, e.pub)' = Copies(k, e.pub) BY <2>6 DEF Copies
  <2>12. entitled'[p] = entitled[p] \intersect registered' \intersect subs'[e.name] BY <2>1, <2>2, <2>7, <1>Seen, ZenonT(40)
  <2>13. \A k \in entitled[p] : k \in Ids BY <2>2 DEF Spreads, Intended
  <2>14. ASSUME NEW k \in Ids, Awaits(p, k)' PROVE Copies(k, e.pub)' = {}
    BY <2>2, <2>3, <2>8, <2>11, <2>14 DEF Spreads
  <2>15. ASSUME NEW k \in entitled'[p], ~Awaits(p, k)' PROVE \E x \in log'[k] : Copies(k, e.pub)' = {x}
    <3>1. CASE k = i BY <2>10, <3>1
    <3>2. CASE k # i
      <4>1. k \in entitled[p] /\ k \in Ids /\ ~Awaits(p, k) BY <2>8, <2>12, <2>13, <2>15, <3>2
      <4>2. PICK x \in log[k] : Copies(k, e.pub) = {x} BY <2>2, <4>1 DEF Spreads
      <4> QED BY <2>6, <2>11, <3>2, <4>1, <4>2
    <3> QED BY <3>1, <3>2
  <2>16. ~InHand(p)' BY <2>7 DEF InHand
  <2>17. Spreads(p)' BY <2>1, <2>2, <2>7, <2>12, <2>14, <2>15, <2>16 DEF Spreads
  <2>18. Publishes(p)' BY <2>2, <2>7, <2>17 DEF Publishes
  <2>19. published' \in Nat /\ published <= published' BY <2>1, <1>Counted, SMT
  <2>20. \A q \in Callers \ {p} : job[q].op = "publish" => job[q].event.pub # e.pub BY <2>2 DEF PInv
  <2>21. \A k \in Ids : \A g \in log'[k] : g.pub \in 1 .. published' BY <2>1, <2>3, <2>4, <2>6 DEF PInv
  <2>22. \A q \in Callers : pc[q] \in {"forget", "clearClient"} => who[q] \notin registered' BY <2>1 DEF PInv
  <2> QED BY <2>7, <2>9, <2>18, <2>19, <2>20, <2>21, <2>22, <1>Whole
(* The cleanup and the clock. *)
<1>Others.
  ASSUME (CleanupTick \/ PurgeExpired \/ Advance) /\ Observe
  PROVE  PInv'
  <2> USE <1>Others
  <2>1. UNCHANGED <<pc, who, job, published, log, registered>>
    BY DEF CleanupTick, PurgeExpired, Advance, control
  <2>2. \A n : Intact(n) BY <2>1 DEF Intact, Copies
  <2>3. published' \in Nat /\ published <= published' BY <2>1, <1>Counted, SMT
  <2>4. \A q \in Callers : Publishes(q)' BY <2>1, <2>2, <2>3, <1>Waits
  <2> QED BY <2>1, <2>4 DEF PInv
<1>Stutters. CASE UNCHANGED vars
  <2>1. UNCHANGED <<pc, who, job, published, log, registered, subs, entitled>> BY <1>Stutters DEF vars, control
  <2>2. \A p : (InHand(p)' <=> InHand(p)) /\ \A i : Awaits(p, i)' <=> Awaits(p, i) BY <2>1 DEF Awaits, InHand
  <2>3. \A i, n : Copies(i, n)' = Copies(i, n) BY <2>1 DEF Copies
  <2>4. ASSUME NEW p \in Callers, Spreads(p) PROVE Spreads(p)' BY <2>1, <2>2, <2>3, <2>4 DEF Spreads
  <2>5. \A p \in Callers : Publishes(p)' BY <2>1, <2>4 DEF PInv, Publishes
  <2> QED BY <2>1, <2>5 DEF PInv
<1>Calls. ASSUME NEW p \in Callers, Calling(p), Observe PROVE PInv'
  BY <1>Calls, <1>Publishing, <1>Subscribing, <1>Starting DEF Calling
<1>Runs. ASSUME NEW p \in Callers, Running(p), Observe PROVE PInv'
  BY <1>Runs, <1>Continuing, <1>Finishing, <1>Clearing, <1>Next, <1>Stamping, <1>Storing DEF Running
<1> QED BY <1>Stutters, <1>Calls, <1>Runs, <1>Others DEF Next

(* A client that handle is to give an event to, and that stays registered   *)
(* and subscribed, has it in its history once when Publish returns:         *)
(* uniqueStrings drops repeated recipients, the loop takes the rest one by  *)
(* one, and whoever it passes over is excluded or no longer subscribed.     *)
THEOREM EntitledOnesGetIt == Spec => []EntitledGetIt
<1>1. ASSUME PInv PROVE EntitledGetIt
  <2> SUFFICES ASSUME NEW p \in Callers, job[p].op = "publish", pc[p] = "next", job[p].ids = <<>>,
                      NEW i \in entitled[p]
               PROVE  Cardinality({e \in log[i] : e.pub = job[p].event.pub}) = 1
    BY DEF EntitledGetIt
  <2>1. Spreads(p) BY <1>1 DEF PInv, Publishes
  <2>2. DOMAIN <<>> = {} BY SMT
  <2>3. ~Awaits(p, i) BY <2>2 DEF Awaits, InHand, Range
  <2>4. PICK x : Copies(i, job[p].event.pub) = {x} BY <2>1, <2>3 DEF Spreads
  <2> QED BY <2>4, FS_Singleton DEF Copies
<1>2. Spec => [](IInv /\ HInv)
  BY TypeInit, TypeStep, OrderedInit, InvStep, PTL DEF Spec
<1> QED BY <1>1, <1>2, PublishInit, PublishStep, PTL DEF Spec
=============================================================================
