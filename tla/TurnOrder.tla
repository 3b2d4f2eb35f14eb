----------------------------- MODULE TurnOrder -----------------------------
(***************************************************************************)
(* The send-order tickets of one client (bus.go, the methods of `client`   *)
(* under orderMu).  push hands every queued event the next ticket, a       *)
(* worker that popped the event waits until its ticket is the turn, and    *)
(* an event removed from the queue gives its ticket up.  A client's        *)
(* tickets are a record: the last ticket handed out, the ticket whose turn *)
(* it is, and the tickets beyond the turn that were given up.              *)
(***************************************************************************)
EXTENDS Integers

Turns == [nextOrder : Nat, nextTurn : Nat, canceled : SUBSET Nat]

NewTurns == [nextOrder |-> 0, nextTurn |-> 0, canceled |-> {}]

AssignOrder(t) ==
  [nextOrder |-> t.nextOrder + 1,
   nextTurn  |-> IF t.nextTurn = 0 THEN 1 ELSE t.nextTurn,
   canceled  |-> t.canceled]

(* The first ticket from `from` on that was not given up.  No ticket beyond *)
(* nextOrder exists, so the search ends at nextOrder + 1.                   *)
FirstLive(t, from) ==
  CHOOSE n \in from .. t.nextOrder + 1 :
     n \notin t.canceled /\ \A m \in from .. n - 1 : m \in t.canceled

(* The loop of advanceCanceledLocked, started with the turn at `from`. *)
AdvanceCanceled(t, from) ==
  [nextOrder |-> t.nextOrder,
   nextTurn  |-> FirstLive(t, from),
   canceled  |-> {n \in t.canceled : n > FirstLive(t, from)}]

FinishWithoutAdvance(t, order) ==
  IF order = t.nextTurn THEN [t EXCEPT !.nextTurn = @ + 1] ELSE t
FinishNothing(t, order) == t
FinishTurn(t, order) ==
  IF order = t.nextTurn THEN AdvanceCanceled(t, order + 1) ELSE t

CancelTurn(t, order) ==
  IF order = 0 THEN t
  ELSE IF order = t.nextTurn THEN AdvanceCanceled(t, order + 1)
  ELSE [t EXCEPT !.canceled = IF order > t.nextTurn THEN @ \cup {order} ELSE @]

(* cancelTurn for every order of a set, as `remove` calls it on the events  *)
(* it drops: together the calls give up all the tickets that are not past,  *)
(* and the turn moves to the first live one (CancelOneByOne, proved in      *)
(* TurnOrderProofs).                                                        *)
CancelNothing(t, orders) == t
CancelTurns(t, orders) ==
  LET given == [t EXCEPT !.canceled = @ \cup {n \in orders : n >= t.nextTurn}]
  IN  IF t.nextTurn \in orders THEN AdvanceCanceled(given, t.nextTurn) ELSE given
=============================================================================
