-------------------------- MODULE TurnOrderProofs --------------------------
(***************************************************************************)
(* What the ticket operators of TurnOrder do to the tickets still to be    *)
(* served.  The modules that use tickets reason with these facts only.     *)
(***************************************************************************)
EXTENDS TurnOrder, WellFoundedInduction, TLAPS

(* The tickets that were handed out and are neither served nor given up. *)
Live(t) == {n \in 1 .. t.nextOrder : n >= t.nextTurn /\ n \notin t.canceled}

(* The turn is at most one past the last ticket, and tickets are recorded   *)
(* as given up only beyond the turn.                                        *)
WellFormed(t) ==
  /\ t \in Turns
  /\ t.nextTurn <= t.nextOrder + 1
  /\ t.nextTurn = 0 => t.nextOrder = 0
  /\ \A n \in t.canceled : t.nextTurn < n /\ n <= t.nextOrder

(* While a ticket is live, so is the one whose turn it is. *)
LEMMA TurnIsLive ==
  ASSUME NEW t, WellFormed(t), NEW n \in Live(t)
  PROVE  t.nextTurn \in Live(t)
<1>1. t.nextOrder \in Nat /\ t.nextTurn \in Nat /\ n \in 1 .. t.nextOrder /\ n >= t.nextTurn
  BY DEF WellFormed, Turns, Live
<1>2. t.nextTurn \in 1 .. t.nextOrder
  BY <1>1 DEF WellFormed
<1>3. t.nextTurn \notin t.canceled
  BY <1>1 DEF WellFormed
<1> QED
  BY <1>1, <1>2, <1>3 DEF Live

(* A set of natural numbers that is not empty has a least element. *)
LEMMA LeastElement ==
  ASSUME NEW T, T \subseteq Nat, T # {}
  PROVE  \E x \in T : \A y \in T : x <= y
<1>1. PICK x \in T : \A y \in T : ~(<<y, x>> \in OpToRel(<, Nat))
  BY NatLessThanWellFounded, WFMin
<1>2. ASSUME NEW y \in T PROVE x <= y
  <2>1. x \in Nat /\ y \in Nat
    OBVIOUS
  <2>2. ~(y < x)
    BY <1>1, <2>1, Zenon DEF OpToRel
  <2> QED
    BY <2>1, <2>2
<1> QED
  BY <1>2

(* advanceCanceledLocked stops at a ticket that was not given up, and skips *)
(* only tickets that were.                                                  *)
LEMMA FirstLiveFound ==
  ASSUME NEW t \in Turns, NEW from \in Nat, from <= t.nextOrder + 1,
         t.nextOrder + 1 \notin t.canceled
  PROVE  /\ FirstLive(t, from) \in from .. t.nextOrder + 1
         /\ FirstLive(t, from) \notin t.canceled
         /\ \A m \in from .. FirstLive(t, from) - 1 : m \in t.canceled
<1> DEFINE T == {n \in from .. t.nextOrder + 1 : n \notin t.canceled}
<1>1. t.nextOrder \in Nat
  BY DEF Turns
<1>2. T \subseteq Nat /\ t.nextOrder + 1 \in T
  BY <1>1
<1>3. PICK n \in T : \A y \in T : n <= y
  BY <1>2, LeastElement, Zenon
<1>4. n \notin t.canceled /\ \A m \in from .. n - 1 : m \in t.canceled
  BY <1>1, <1>3
<1> QED
  BY <1>3, <1>4 DEF FirstLive

(* The turn moved to `from` and past the tickets given up: every live       *)
(* ticket from `from` on stays live.                                        *)
LEMMA AdvanceKeepsLive ==
  ASSUME NEW t \in Turns, NEW from \in 1 .. t.nextOrder + 1,
         \A n \in t.canceled : n <= t.nextOrder
  PROVE  LET r == AdvanceCanceled(t, from) IN
         /\ WellFormed(r)
         /\ r.nextOrder = t.nextOrder
         /\ Live(r) = {n \in from .. t.nextOrder : n \notin t.canceled}
<1> DEFINE n == FirstLive(t, from)
           r == AdvanceCanceled(t, from)
<1>1. t.nextOrder \in Nat /\ t.canceled \subseteq Nat /\ from \in Nat
  BY DEF Turns
<1>2. t.nextOrder + 1 \notin t.canceled
  BY <1>1
<1>3. /\ n \in from .. t.nextOrder + 1 /\ n \notin t.canceled
      /\ \A m \in from .. n - 1 : m \in t.canceled
  BY <1>1, <1>2, FirstLiveFound
<1> HIDE DEF n
<1>4. r = [nextOrder |-> t.nextOrder, nextTurn |-> n, canceled |-> {m \in t.canceled : m > n}]
  BY Zenon DEF AdvanceCanceled, n
<1>5. /\ r.nextOrder = t.nextOrder /\ r.nextTurn = n
      /\ r.canceled = {m \in t.canceled : m > n} /\ r \in Turns
  BY <1>1, <1>3, <1>4 DEF Turns
<1> HIDE DEF r
<1>6. WellFormed(r)
  BY <1>1, <1>3, <1>5 DEF WellFormed
<1>7. Live(r) = {m \in from .. t.nextOrder : m \notin t.canceled}
  BY <1>1, <1>3, <1>5 DEF Live
<1> QED
  BY <1>5, <1>6, <1>7 DEF r

(* assignOrder hands out one new live ticket. *)
LEMMA AssignAddsLive ==
  ASSUME NEW t, WellFormed(t)
  PROVE  LET r == AssignOrder(t) IN
         /\ WellFormed(r)
         /\ r.nextOrder = t.nextOrder + 1
         /\ Live(r) = Live(t) \cup {t.nextOrder + 1}
<1> DEFINE r == AssignOrder(t)
<1>1. /\ t \in Turns /\ t.nextOrder \in Nat /\ t.nextTurn \in Nat /\ t.canceled \subseteq Nat
      /\ t.nextTurn <= t.nextOrder + 1 /\ (t.nextTurn = 0 => t.nextOrder = 0)
      /\ \A n \in t.canceled : t.nextTurn < n /\ n <= t.nextOrder
  BY DEF WellFormed, Turns
<1>2. /\ r \in Turns /\ r.nextOrder = t.nextOrder + 1 /\ r.canceled = t.canceled
      /\ r.nextTurn = IF t.nextTurn = 0 THEN 1 ELSE t.nextTurn
  BY <1>1 DEF AssignOrder, Turns
<1> HIDE DEF r
<1>3. WellFormed(r)
  BY <1>1, <1>2 DEF WellFormed
<1>4. Live(r) = Live(t) \cup {t.nextOrder + 1}
  BY <1>1, <1>2 DEF Live
<1> QED
  BY <1>2, <1>3, <1>4 DEF r

(* finishTurn serves the ticket whose turn it is, and no other. *)
LEMMA FinishServesOne ==
  ASSUME NEW t, WellFormed(t), NEW order \in Live(t), order = t.nextTurn
  PROVE  LET r == FinishTurn(t, order) IN
         /\ WellFormed(r)
         /\ r.nextOrder = t.nextOrder
         /\ Live(r) = Live(t) \ {order}
<1>1. /\ t \in Turns /\ t.nextOrder \in Nat /\ t.nextTurn \in Nat
      /\ order + 1 \in 1 .. t.nextOrder + 1 /\ \A n \in t.canceled : n <= t.nextOrder
  BY DEF WellFormed, Turns, Live
<1>2. FinishTurn(t, order) = AdvanceCanceled(t, order + 1)
  BY DEF FinishTurn
<1>3. Live(t) \ {order} = {n \in order + 1 .. t.nextOrder : n \notin t.canceled}
  BY <1>1 DEF Live
<1> QED
  BY <1>1, <1>2, <1>3, AdvanceKeepsLive

(* cancelTurn on the tickets of removed events gives up exactly those. *)
LEMMA CancelGivesUp ==
  ASSUME NEW t, WellFormed(t), NEW orders, orders \subseteq Live(t)
  PROVE  LET r == CancelTurns(t, orders) IN
         /\ WellFormed(r)
         /\ r.nextOrder = t.nextOrder
         /\ Live(r) = Live(t) \ orders
<1> DEFINE given == [t EXCEPT !.canceled = @ \cup {n \in orders : n >= t.nextTurn}]
<1>1. t \in Turns /\ t.nextOrder \in Nat /\ t.nextTurn \in Nat /\ t.canceled \subseteq Nat
  BY DEF WellFormed, Turns
<1>2. \A n \in orders : n \in 1 .. t.nextOrder /\ n >= t.nextTurn
  BY DEF Live
<1>3. /\ given \in Turns /\ given.nextOrder = t.nextOrder /\ given.nextTurn = t.nextTurn
      /\ given.canceled = t.canceled \cup orders
  BY <1>1, <1>2 DEF Turns
<1>4. \A n \in t.canceled : t.nextTurn < n /\ n <= t.nextOrder
  BY DEF WellFormed
<1> HIDE DEF given
<1>5. CASE t.nextTurn \in orders
  <2>1. CancelTurns(t, orders) = AdvanceCanceled(given, t.nextTurn)
    BY <1>5 DEF CancelTurns, given
  <2>2. t.nextTurn \in 1 .. given.nextOrder + 1 /\ \A n \in given.canceled : n <= given.nextOrder
    BY <1>1, <1>2, <1>3, <1>4, <1>5
  <2>3. Live(t) \ orders = {n \in t.nextTurn .. given.nextOrder : n \notin given.canceled}
    BY <1>1, <1>2, <1>3, <1>5 DEF Live
  <2> QED
    BY <1>3, <2>1, <2>2, <2>3, AdvanceKeepsLive
<1>6. CASE t.nextTurn \notin orders
  <2>1. CancelTurns(t, orders) = given
    BY <1>6 DEF CancelTurns, given
  <2>2. WellFormed(given)
    BY <1>1, <1>2, <1>3, <1>4, <1>6 DEF WellFormed
  <2>3. Live(given) = Live(t) \ orders
    BY <1>1, <1>3 DEF Live
  <2> QED
    BY <1>3, <2>1, <2>2, <2>3
<1> QED
  BY <1>5, <1>6

(* The live tickets and the last one handed out determine the record. *)
LEMMA LiveDetermines ==
  ASSUME NEW t, WellFormed(t), NEW u, WellFormed(u), t.nextOrder = u.nextOrder,
         t.nextOrder # 0, Live(t) = Live(u)
  PROVE  t = u
<1>1. /\ t \in Turns /\ t.nextOrder \in Nat /\ t.nextTurn \in 1 .. t.nextOrder + 1
      /\ \A n \in t.canceled : n \in Nat /\ t.nextTurn < n /\ n <= t.nextOrder
  BY DEF WellFormed, Turns
<1>2. /\ u \in Turns /\ u.nextTurn \in 1 .. t.nextOrder + 1
      /\ \A n \in u.canceled : n \in Nat /\ u.nextTurn < n /\ n <= t.nextOrder
  BY DEF WellFormed, Turns
<1>3. t.nextTurn = u.nextTurn
  <2>1. t.nextTurn <= t.nextOrder => t.nextTurn \in Live(t)
    BY <1>1 DEF Live
  <2>2. u.nextTurn <= t.nextOrder => u.nextTurn \in Live(u)
    BY <1>2 DEF Live
  <2>3. (\A n \in Live(t) : n >= t.nextTurn) /\ (\A n \in Live(u) : n >= u.nextTurn)
    BY DEF Live
  <2> QED
    BY <1>1, <1>2, <2>1, <2>2, <2>3
<1>4. t.canceled = u.canceled
  BY <1>1, <1>2, <1>3 DEF Live
<1> QED
  BY <1>1, <1>2, <1>3, <1>4 DEF Turns

(* A single cancelTurn gives up a single ticket. *)
LEMMA CancelOne ==
  ASSUME NEW t, WellFormed(t), NEW order \in Live(t)
  PROVE  LET r == CancelTurn(t, order) IN
         /\ WellFormed(r)
         /\ r.nextOrder = t.nextOrder
         /\ Live(r) = Live(t) \ {order}
<1>1. /\ t \in Turns /\ t.nextOrder \in Nat /\ t.nextTurn \in Nat /\ t.canceled \subseteq Nat
      /\ \A n \in t.canceled : t.nextTurn < n /\ n <= t.nextOrder
      /\ order \in 1 .. t.nextOrder /\ order >= t.nextTurn
  BY DEF WellFormed, Turns, Live
<1>2. CASE order = t.nextTurn
  <2>1. CancelTurn(t, order) = FinishTurn(t, order)
    BY <1>1, <1>2 DEF CancelTurn, FinishTurn
  <2> QED
    BY <1>2, <2>1, FinishServesOne
<1>3. CASE order # t.nextTurn
  <2> DEFINE r == [t EXCEPT !.canceled = t.canceled \cup {order}]
  <2>1. CancelTurn(t, order) = r
    BY <1>1, <1>3 DEF CancelTurn
  <2>2. /\ r \in Turns /\ r.nextOrder = t.nextOrder /\ r.nextTurn = t.nextTurn
        /\ r.canceled = t.canceled \cup {order}
    BY <1>1 DEF Turns
  <2> HIDE DEF r
  <2>3. WellFormed(r)
    BY <1>1, <1>3, <2>2 DEF WellFormed
  <2>4. Live(r) = Live(t) \ {order}
    BY <1>1, <2>2 DEF Live
  <2> QED
    BY <2>1, <2>2, <2>3, <2>4
<1> QED
  BY <1>2, <1>3

(* remove calls cancelTurn for one event after another; CancelTurns is what *)
(* the calls amount to, in whatever order they come.                        *)
THEOREM CancelOneByOne ==
  ASSUME NEW t, WellFormed(t), NEW orders, orders \subseteq Live(t),
         NEW order \in Live(t) \ orders
  PROVE  CancelTurn(CancelTurns(t, orders), order) = CancelTurns(t, orders \cup {order})
<1> DEFINE s == CancelTurns(t, orders)
           u == CancelTurn(s, order)
           v == CancelTurns(t, orders \cup {order})
<1>1. WellFormed(s) /\ s.nextOrder = t.nextOrder /\ Live(s) = Live(t) \ orders
  BY CancelGivesUp
<1>2. WellFormed(u) /\ u.nextOrder = t.nextOrder /\ Live(u) = (Live(t) \ orders) \ {order}
  <2> HIDE DEF s
  <2> QED
    BY <1>1, CancelOne
<1>3. WellFormed(v) /\ v.nextOrder = t.nextOrder /\ Live(v) = Live(t) \ (orders \cup {order})
  <2>1. orders \cup {order} \subseteq Live(t)
    OBVIOUS
  <2> QED
    BY <2>1, CancelGivesUp
<1>4. t.nextOrder # 0
  BY DEF Live, WellFormed, Turns
<1> HIDE DEF u, v
<1>5. Live(u) = Live(v)
  BY <1>2, <1>3
<1>6. u = v
  BY <1>2, <1>3, <1>4, <1>5, LiveDetermines
<1> QED
  BY <1>6 DEF u, v
=============================================================================
