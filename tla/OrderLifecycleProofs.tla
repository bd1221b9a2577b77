------------------------- MODULE OrderLifecycleProofs ------------------------
(***************************************************************************)
(* For every set of orders, fills, quantities and reports: IInv is an      *)
(* inductive invariant of OrderLifecycle, so fills are accounted exactly   *)
(* once; where every answer names its order, only one that never reached   *)
(* the broker is cleared for resubmission; and OrderLifecycle implements   *)
(* OrderContract.                                                          *)
(***************************************************************************)
EXTENDS OrderLifecycle, TLAPS

(***************************************************************************)
(* What each operation does to one record                                  *)
(***************************************************************************)

\* r2 is a later version of r as the contract allows it: same size, no fill
\* taken back, no terminal status left.
Continues(r, r2) ==
    /\ r2 \in OrderRecords
    /\ r2.approved = r.approved
    /\ r.filled <= r2.filled
    /\ r2.filled <= r2.approved
    /\ Terminal(r) => Terminal(r2)

\* _transition leads from a status to a status, and from a terminal one nowhere.
LEMMA MoveIsSafe ==
    ASSUME NEW s \in OrderStatus, NEW to, CanMove(s, to)
    PROVE  to \in OrderStatus /\ (s \in TerminalStates => to = s)
BY DEF CanMove, Allowed, OrderStatus, ResubmitBlockingStates, TerminalStates

\* A status change continues its record when the graph allows it.
LEMMA MovedContinues ==
    ASSUME NEW r \in OrderRecords, NEW to, CanMove(r.status, to),
           r.filled <= r.approved
    PROVE  Continues(r, Moved(r, to))
<1>1. r.status \in OrderStatus BY DEF OrderRecords
<1>2. to \in OrderStatus /\ (r.status \in TerminalStates => to = r.status)
  BY <1>1, MoveIsSafe
<1>3. Moved(r, to) \in OrderRecords BY <1>2 DEF Moved, OrderRecords
<1>4. /\ Moved(r, to).approved = r.approved
      /\ Moved(r, to).filled = r.filled
      /\ Moved(r, to).status = to
  BY DEF Moved, OrderRecords
<1>5. r.filled \in Nat BY DEF OrderRecords
<1> QED BY <1>2, <1>3, <1>4, <1>5 DEF Continues, Terminal

\* resync: whatever the broker says, the order stays where it is or takes an
\* allowed transition.
LEMMA ResyncIsAMove ==
    ASSUME NEW s, NEW truth
    PROVE  CanMove(s, ResyncStatus(s, truth))
BY DEF ResyncStatus, CanMove

\* record_fill: the status it picks is one the graph allows.
LEMMA FillIsAMove ==
    ASSUME NEW r, NEW n
    PROVE  CanMove(r.status, FillStatus(r, n))
BY DEF FillStatus, CanMove

\* record_fill: a repeated fill changes nothing; a new one adds its quantity,
\* cut off at the approved size.
LEMMA FillContinues ==
    ASSUME NEW r \in OrderRecords, NEW f \in FillIds, NEW q \in Nat,
           r.filled <= r.approved
    PROVE  /\ Continues(r, WithFill(r, f, q))
           /\ WithFill(r, f, q).seen = r.seen \cup {f}
           /\ WithFill(r, f, q).brokerId = r.brokerId
           /\ WithFill(r, f, q).filled =
                  IF f \in r.seen THEN r.filled ELSE Smaller(r.filled + q, r.approved)
<1>0. /\ r.status \in OrderStatus /\ r.filled \in Nat /\ r.approved \in Nat
      /\ r.seen \subseteq FillIds
  BY QuantitiesAssumption DEF OrderRecords, Shares
<1>1. CASE f \in r.seen
  <2>1. WithFill(r, f, q) = r BY <1>1 DEF WithFill
  <2> QED BY <2>1, <1>0, <1>1 DEF Continues
<1>2. CASE f \notin r.seen
  <2> DEFINE n == Smaller(r.filled + q, r.approved)
             r2 == WithFill(r, f, q)
  <2>1. n \in Nat /\ r.filled <= n /\ n <= r.approved BY <1>0 DEF Smaller
  <2>2. /\ FillStatus(r, n) \in OrderStatus
        /\ r.status \in TerminalStates => FillStatus(r, n) = r.status
    BY <1>0, FillIsAMove, MoveIsSafe
  <2>3. r2 = [r EXCEPT !.seen = r.seen \cup {f}, !.filled = n,
                       !.overfill = r.overfill \/ r.filled + q > r.approved,
                       !.status = FillStatus(r, n)]
    BY <1>2 DEF WithFill
  <2> HIDE DEF n, r2
  <2>4. /\ r2.seen = r.seen \cup {f} /\ r2.filled = n /\ r2.approved = r.approved
        /\ r2.status = FillStatus(r, n) /\ r2.brokerId = r.brokerId
    BY <2>3 DEF OrderRecords
  <2>5. r2 \in OrderRecords BY <1>0, <2>1, <2>2, <2>3 DEF OrderRecords
  <2>6. Continues(r, r2) BY <2>1, <2>2, <2>4, <2>5 DEF Continues, Terminal
  <2> QED BY <1>2, <2>4, <2>6 DEF n, r2
<1> QED BY <1>1, <1>2

\* reconcile_broker_fill: the larger of the two quantities, cut off likewise.
LEMMA BrokerFillContinues ==
    ASSUME NEW r \in OrderRecords, NEW q \in Nat, r.filled <= r.approved
    PROVE  /\ Continues(r, WithBrokerFill(r, q))
           /\ WithBrokerFill(r, q).seen = r.seen
           /\ WithBrokerFill(r, q).brokerId = r.brokerId
           /\ WithBrokerFill(r, q).filled =
                  IF Smaller(q, r.approved) > r.filled
                  THEN Smaller(q, r.approved) ELSE r.filled
<1>0. r.filled \in Nat /\ r.approved \in Nat
  BY QuantitiesAssumption DEF OrderRecords, Shares
<1> DEFINE n == Smaller(q, r.approved)
<1>1. n \in Nat /\ n <= r.approved BY <1>0 DEF Smaller
<1>2. CASE n > r.filled
  <2>1. WithBrokerFill(r, q) = [r EXCEPT !.filled = n] BY <1>2 DEF WithBrokerFill
  <2> HIDE DEF n
  <2>2. [r EXCEPT !.filled = n] \in OrderRecords BY <1>1 DEF OrderRecords
  <2> QED BY <1>0, <1>1, <1>2, <2>1, <2>2 DEF Continues, Terminal, OrderRecords, n
<1>3. CASE ~(n > r.filled)
  <2>1. WithBrokerFill(r, q) = r BY <1>3 DEF WithBrokerFill
  <2> QED BY <1>0, <1>3, <2>1 DEF Continues
<1> QED BY <1>2, <1>3

\* set_broker_order_id, record_commission: neither touches status nor quantity.
LEMMA AnnotationsContinue ==
    ASSUME NEW r \in OrderRecords, r.filled <= r.approved
    PROVE  Continues(r, WithBrokerId(r)) /\ Continues(r, WithCommission(r))
<1>1. WithBrokerId(r) \in OrderRecords /\ WithCommission(r) \in OrderRecords
  <2>1. TRUE \in BOOLEAN OBVIOUS
  <2>2. r.commissions + 1 \in Nat BY DEF OrderRecords
  <2>3. WithBrokerId(r) \in OrderRecords BY <2>1 DEF WithBrokerId, OrderRecords
  <2>4. WithCommission(r) \in OrderRecords BY <2>2 DEF WithCommission, OrderRecords
  <2> QED BY <2>3, <2>4
<1>2. r.filled \in Nat BY DEF OrderRecords
<1> QED
  BY <1>1, <1>2 DEF WithBrokerId, WithCommission, OrderRecords, Continues, Terminal

\* to_json and from_json lose nothing.
LEMMA RestoredIsSame ==
    ASSUME NEW r \in OrderRecords
    PROVE  Restored(r) = r
BY DEF Restored, OrderRecords

(***************************************************************************)
(* What a step does to every order                                         *)
(***************************************************************************)
OrderStep(o) ==
    \/ o \notin DOMAIN orders /\ o \notin DOMAIN orders'
    \/ /\ o \notin DOMAIN orders /\ o \in DOMAIN orders'
       /\ \E q \in Quantities : orders'[o] = NewRecord(q)
    \/ /\ o \in DOMAIN orders /\ o \in DOMAIN orders'
       /\ Continues(orders[o], orders'[o])
    \/ /\ o \in DOMAIN orders /\ o \notin DOMAIN orders'
       /\ Terminal(orders[o])

\* The invariant bounds every filled quantity by the approved one.
LEMMA FilledWithinApproved ==
    ASSUME IInv, NEW o \in DOMAIN orders
    PROVE  orders[o] \in OrderRecords /\ orders[o].filled <= orders[o].approved
<1>1. orders[o] \in OrderRecords BY DEF IInv, TypeOK
<1>2. orders[o].approved \in Nat BY <1>1, QuantitiesAssumption DEF OrderRecords, Shares
<1>3. heard[o].quantity \in Nat BY DEF IInv, TypeOK, Histories
<1> QED BY <1>1, <1>2, <1>3 DEF IInv, FilledIsReported, Smaller

\* A call that rewrites one tracked order, keeping it in step with what the
\* broker was heard to say of it, preserves the invariant.
LEMMA RewriteIsSafe ==
    ASSUME IInv, NEW o \in Orders, Tracked(o), NEW r2, NEW h,
           Put(o, r2), newest' = newest, heard' = [heard EXCEPT ![o] = h],
           Continues(orders[o], r2),
           h \in Histories,
           r2.seen = h.fills, r2.brokerId = h.acked,
           r2.filled = Smaller(h.quantity, r2.approved)
    PROVE  IInv' /\ \A x \in Orders : OrderStep(x)
<1>1. /\ DOMAIN orders' = DOMAIN orders
      /\ orders' = [x \in DOMAIN orders |-> IF x = o THEN r2 ELSE orders[x]]
  BY DEF Put, Tracked
<1>2. orders'[o] = r2 /\ \A x \in DOMAIN orders : x # o => orders'[x] = orders[x]
  BY <1>1 DEF Tracked
<1>3. heard'[o] = h /\ \A x \in Orders : x # o => heard'[x] = heard[x]
  BY DEF IInv, TypeOK
<1>4. TypeOK'
  <2>1. orders' \in [DOMAIN orders' -> OrderRecords]
    BY <1>1 DEF IInv, TypeOK, Continues
  <2>2. heard' \in [Orders -> Histories]
    BY DEF IInv, TypeOK
  <2> QED BY <1>1, <2>1, <2>2 DEF IInv, TypeOK
<1>5. HistoryMatches'
  <2>1. o <= newest BY DEF IInv, HistoryMatches, Tracked
  <2>2. o \in Nat /\ newest \in Nat BY OrdersAssumption DEF IInv, TypeOK
  <2>3. ~(o > newest) BY <2>1, <2>2
  <2> QED
    BY <1>1, <1>2, <1>3, <2>1, <2>3 DEF IInv, HistoryMatches, TypeOK
<1>6. FilledIsReported'
  BY <1>1, <1>2, <1>3 DEF IInv, FilledIsReported, TypeOK
<1>7. ASSUME NEW x \in Orders PROVE OrderStep(x)
  <2>1. CASE x \notin DOMAIN orders BY <2>1, <1>1 DEF OrderStep
  <2>2. CASE x = o BY <2>2, <1>1, <1>2 DEF OrderStep, Tracked
  <2>3. CASE x \in DOMAIN orders /\ x # o
    <3>1. Continues(orders[x], orders[x])
      <4>1. orders[x] \in OrderRecords /\ orders[x].filled <= orders[x].approved
        BY <2>3, FilledWithinApproved
      <4>2. orders[x].filled \in Nat BY <4>1 DEF OrderRecords
      <4> QED BY <4>1, <4>2 DEF Continues
    <3> QED BY <2>3, <3>1, <1>1, <1>2 DEF OrderStep
  <2> QED BY <2>1, <2>2, <2>3
<1> QED BY <1>4, <1>5, <1>6, <1>7 DEF IInv

\* The methods that only move one order along the status graph.
LEMMA TransitionIsSafe ==
    ASSUME IInv, NEW o \in Orders, NEW to, Transition(o, to)
    PROVE  IInv' /\ \A x \in Orders : OrderStep(x)
<1> DEFINE r == orders[o]
<1>1. Tracked(o) /\ CanMove(r.status, to) BY DEF Transition
<1>2. r \in OrderRecords /\ r.filled <= r.approved
  BY <1>1, FilledWithinApproved DEF Tracked
<1>3. Continues(r, Moved(r, to)) BY <1>1, <1>2, MovedContinues
<1>4. /\ Moved(r, to).seen = r.seen /\ Moved(r, to).brokerId = r.brokerId
      /\ Moved(r, to).filled = r.filled /\ Moved(r, to).approved = r.approved
  BY <1>2 DEF Moved, OrderRecords
<1>5. heard' = [heard EXCEPT ![o] = heard[o]] BY DEF Transition, IInv, TypeOK
<1>6. /\ heard[o] \in Histories
      /\ r.seen = heard[o].fills /\ r.brokerId = heard[o].acked
      /\ r.filled = Smaller(heard[o].quantity, r.approved)
  BY <1>1 DEF IInv, TypeOK, HistoryMatches, FilledIsReported, Tracked
<1>7. Put(o, Moved(r, to)) /\ newest' = newest BY DEF Transition
<1> QED BY <1>1, <1>3, <1>4, <1>5, <1>6, <1>7, RewriteIsSafe

\* create: a new id has no history, so its empty record agrees with it.
LEMMA CreateIsSafe ==
    ASSUME IInv, NEW o \in Orders, NEW q \in Quantities, Create(o, q)
    PROVE  IInv' /\ \A x \in Orders : OrderStep(x)
<1>1. /\ ~Tracked(o) /\ o > newest /\ newest' = o /\ heard' = heard
      /\ orders' = [x \in DOMAIN orders \cup {o} |->
                        IF x = o THEN NewRecord(q) ELSE orders[x]]
  BY DEF Create, Put
<1>2. /\ DOMAIN orders' = DOMAIN orders \cup {o}
      /\ orders'[o] = NewRecord(q)
      /\ \A x \in DOMAIN orders : orders'[x] = orders[x]
  BY <1>1 DEF Tracked
<1>3. NewRecord(q) \in OrderRecords
  BY QuantitiesAssumption DEF NewRecord, OrderRecords, OrderStatus
<1>4. o \in Nat /\ newest \in Nat /\ \A x \in Orders : x \in Nat
  BY OrdersAssumption DEF IInv, TypeOK
<1>5. TypeOK'
  <2>1. orders' \in [DOMAIN orders' -> OrderRecords]
    BY <1>1, <1>2, <1>3 DEF IInv, TypeOK
  <2> QED BY <1>1, <1>2, <1>4, <2>1 DEF IInv, TypeOK
<1>6. heard[o] = Silence BY <1>1 DEF IInv, HistoryMatches
<1>7. HistoryMatches'
  <2>1. ASSUME NEW x \in DOMAIN orders'
        PROVE  /\ orders'[x].seen = heard'[x].fills
               /\ orders'[x].brokerId = heard'[x].acked
               /\ x <= newest'
    <3>1. CASE x = o
      <4>1. NewRecord(q).seen = {} /\ NewRecord(q).brokerId = FALSE
        BY DEF NewRecord
      <4>2. Silence.fills = {} /\ Silence.acked = FALSE BY DEF Silence
      <4>3. orders'[x] = NewRecord(q) /\ heard'[x] = Silence
        BY <3>1, <1>1, <1>2, <1>6
      <4>4. x <= newest' BY <3>1, <1>1, <1>4
      <4> QED BY <4>1, <4>2, <4>3, <4>4
    <3>2. CASE x # o
      <4>1. x \in DOMAIN orders /\ x \in Nat BY <3>2, <1>2, <1>4 DEF IInv, TypeOK
      <4> QED BY <4>1, <1>1, <1>2, <1>4 DEF IInv, HistoryMatches
    <3> QED BY <3>1, <3>2
  <2>2. ASSUME NEW x \in Orders, x > newest' PROVE heard'[x] = Silence
    <3>1. x > newest BY <2>2, <1>1, <1>4
    <3> QED BY <3>1, <1>1 DEF IInv, HistoryMatches
  <2> QED BY <2>1, <2>2 DEF HistoryMatches
<1>8. FilledIsReported'
  <2>1. q \in Nat BY QuantitiesAssumption DEF Shares
  <2>2. NewRecord(q).filled = Smaller(0, NewRecord(q).approved)
    BY <2>1 DEF NewRecord, Smaller
  <2> QED BY <1>1, <1>2, <1>6, <2>2 DEF IInv, FilledIsReported, Silence
<1>9. ASSUME NEW x \in Orders PROVE OrderStep(x)
  <2>1. CASE x = o BY <2>1, <1>1, <1>2 DEF OrderStep, Tracked
  <2>2. CASE x \in DOMAIN orders
    <3>1. orders[x] \in OrderRecords /\ orders[x].filled <= orders[x].approved
      BY <2>2, FilledWithinApproved
    <3>2. orders[x].filled \in Nat BY <3>1 DEF OrderRecords
    <3>3. Continues(orders[x], orders[x]) BY <3>1, <3>2 DEF Continues
    <3> QED BY <2>2, <3>3, <1>2 DEF OrderStep
  <2>3. CASE x # o /\ x \notin DOMAIN orders BY <2>3, <1>2 DEF OrderStep
  <2> QED BY <2>1, <2>2, <2>3
<1> QED BY <1>5, <1>7, <1>8, <1>9 DEF IInv

\* set_broker_order_id: the record knows the broker id once it was acknowledged.
LEMMA SetBrokerOrderIdIsSafe ==
    ASSUME IInv, NEW o \in Orders, SetBrokerOrderId(o)
    PROVE  IInv' /\ \A x \in Orders : OrderStep(x)
<1> DEFINE r == orders[o]
           h == [heard[o] EXCEPT !.acked = TRUE, !.confirmed = TRUE]
<1>1. /\ Tracked(o) /\ Put(o, WithBrokerId(r)) /\ newest' = newest
      /\ heard' = [heard EXCEPT ![o] = h]
  BY DEF SetBrokerOrderId
<1>2. r \in OrderRecords /\ r.filled <= r.approved
  BY <1>1, FilledWithinApproved DEF Tracked
<1>3. Continues(r, WithBrokerId(r)) BY <1>2, AnnotationsContinue
<1>4. heard[o] \in Histories
  BY DEF IInv, TypeOK
<1>5. /\ h \in Histories
      /\ h.fills = heard[o].fills /\ h.quantity = heard[o].quantity /\ h.acked = TRUE
  <2>1. TRUE \in BOOLEAN OBVIOUS
  <2> QED BY <1>4, <2>1 DEF Histories
<1>6. /\ WithBrokerId(r).seen = r.seen /\ WithBrokerId(r).brokerId = TRUE
      /\ WithBrokerId(r).filled = r.filled /\ WithBrokerId(r).approved = r.approved
  BY <1>2 DEF WithBrokerId, OrderRecords
<1>7. r.seen = heard[o].fills /\ r.filled = Smaller(heard[o].quantity, r.approved)
  BY <1>1 DEF IInv, HistoryMatches, FilledIsReported, Tracked
<1> HIDE DEF h, r
<1>8. /\ WithBrokerId(r).seen = h.fills /\ WithBrokerId(r).brokerId = h.acked
      /\ WithBrokerId(r).filled = Smaller(h.quantity, WithBrokerId(r).approved)
  BY <1>5, <1>6, <1>7
<1> QED BY <1>1, <1>3, <1>5, <1>8, RewriteIsSafe DEF r

\* record_commission: a commission disturbs no quantity and no filter.
LEMMA RecordCommissionIsSafe ==
    ASSUME IInv, NEW o \in Orders, RecordCommission(o)
    PROVE  IInv' /\ \A x \in Orders : OrderStep(x)
<1> DEFINE r == orders[o]
           r2 == WithCommission(r)
<1>1. Tracked(o) /\ Put(o, r2) /\ newest' = newest /\ heard' = heard
  BY DEF RecordCommission
<1>2. r \in OrderRecords /\ r.filled <= r.approved
  BY <1>1, FilledWithinApproved DEF Tracked
<1>3. Continues(r, r2) BY <1>2, AnnotationsContinue
<1>4. heard' = [heard EXCEPT ![o] = heard[o]] BY <1>1 DEF IInv, TypeOK
<1>5. /\ r2.seen = r.seen /\ r2.brokerId = r.brokerId
      /\ r2.filled = r.filled /\ r2.approved = r.approved
  BY <1>2 DEF WithCommission, OrderRecords
<1>6. /\ heard[o] \in Histories
      /\ r.seen = heard[o].fills /\ r.brokerId = heard[o].acked
      /\ r.filled = Smaller(heard[o].quantity, r.approved)
  BY <1>1 DEF IInv, TypeOK, HistoryMatches, FilledIsReported, Tracked
<1> HIDE DEF r2
<1> QED BY <1>1, <1>3, <1>4, <1>5, <1>6, RewriteIsSafe

\* reconcile_broker_fill: the larger cumulative quantity, in record and history alike.
LEMMA ReconcileBrokerFillIsSafe ==
    ASSUME IInv, NEW o \in Orders, NEW q \in Reports, ReconcileBrokerFill(o, q)
    PROVE  IInv' /\ \A x \in Orders : OrderStep(x)
<1> DEFINE r == orders[o]
           r2 == WithBrokerFill(r, q)
           n == IF q > heard[o].quantity THEN q ELSE heard[o].quantity
           h == [heard[o] EXCEPT !.quantity = n]
<1>1. /\ Tracked(o) /\ Put(o, r2) /\ newest' = newest
      /\ heard' = [heard EXCEPT ![o] = h]
  BY DEF ReconcileBrokerFill
<1>2. r \in OrderRecords /\ r.filled <= r.approved
  BY <1>1, FilledWithinApproved DEF Tracked
<1>3. q \in Nat /\ r.approved \in Nat /\ r.filled \in Nat
  BY <1>2, ReportsAssumption, QuantitiesAssumption DEF OrderRecords, Shares
<1>4. /\ Continues(r, r2) /\ r2.seen = r.seen /\ r2.brokerId = r.brokerId
      /\ r2.filled = IF Smaller(q, r.approved) > r.filled
                     THEN Smaller(q, r.approved) ELSE r.filled
  BY <1>2, <1>3, BrokerFillContinues
<1>5. /\ heard[o] \in Histories
      /\ r.seen = heard[o].fills /\ r.brokerId = heard[o].acked
      /\ r.filled = Smaller(heard[o].quantity, r.approved)
  BY <1>1 DEF IInv, TypeOK, HistoryMatches, FilledIsReported, Tracked
<1>6. n \in Nat BY <1>3, <1>5 DEF Histories
<1> HIDE DEF r2
<1>7. /\ h \in Histories
      /\ h.fills = heard[o].fills /\ h.acked = heard[o].acked /\ h.quantity = n
  <2> HIDE DEF n
  <2> QED BY <1>5, <1>6 DEF Histories
<1>8. r2.filled = Smaller(n, r2.approved)
  <2>1. heard[o].quantity \in Nat /\ r2.approved = r.approved
    BY <1>4, <1>5 DEF Continues, Histories
  <2> QED BY <1>3, <1>4, <1>5, <2>1 DEF Smaller
<1> HIDE DEF h, n
<1>9. r2.seen = h.fills /\ r2.brokerId = h.acked /\ r2.filled = Smaller(h.quantity, r2.approved)
  BY <1>4, <1>5, <1>7, <1>8
<1> QED BY <1>1, <1>4, <1>7, <1>9, RewriteIsSafe

\* record_fill: the duplicate filter and the quantity take in the same fills.
LEMMA RecordFillIsSafe ==
    ASSUME IInv, NEW o \in Orders, NEW f \in FillIds, RecordFill(o, f)
    PROVE  IInv' /\ \A x \in Orders : OrderStep(x)
<1> DEFINE r == orders[o]
           r2 == WithFill(r, f, FillQty[f])
           n == IF f \in heard[o].fills THEN heard[o].quantity
                ELSE heard[o].quantity + FillQty[f]
           h == [heard[o] EXCEPT !.fills = heard[o].fills \cup {f}, !.quantity = n]
<1>1. /\ Tracked(o) /\ Put(o, r2) /\ newest' = newest
  BY DEF RecordFill
<1>2. r \in OrderRecords /\ r.filled <= r.approved
  BY <1>1, FilledWithinApproved DEF Tracked
<1>3. FillQty[f] \in Nat /\ r.approved \in Nat /\ r.filled \in Nat
  BY <1>2, FillQtyAssumption, QuantitiesAssumption DEF OrderRecords, Shares
<1>4. /\ Continues(r, r2) /\ r2.seen = r.seen \cup {f} /\ r2.brokerId = r.brokerId
      /\ r2.filled = IF f \in r.seen THEN r.filled
                     ELSE Smaller(r.filled + FillQty[f], r.approved)
  BY <1>2, <1>3, FillContinues
<1>5. /\ heard[o] \in Histories
      /\ r.seen = heard[o].fills /\ r.brokerId = heard[o].acked
      /\ r.filled = Smaller(heard[o].quantity, r.approved)
  BY <1>1 DEF IInv, TypeOK, HistoryMatches, FilledIsReported, Tracked
<1>6. n \in Nat BY <1>3, <1>5 DEF Histories
<1>7. heard' = [heard EXCEPT ![o] = h]
  <2>1. heard \in [Orders -> Histories]
    BY DEF IInv, TypeOK
  <2> QED BY <2>1 DEF RecordFill
<1> HIDE DEF r2
<1>8. /\ h \in Histories
      /\ h.fills = heard[o].fills \cup {f} /\ h.acked = heard[o].acked /\ h.quantity = n
  <2> HIDE DEF n
  <2> QED BY <1>5, <1>6 DEF Histories
<1>9. r2.filled = Smaller(n, r2.approved)
  <2>1. heard[o].quantity \in Nat /\ r2.approved = r.approved
    BY <1>4, <1>5 DEF Continues, Histories
  <2>2. CASE f \in heard[o].fills BY <1>4, <1>5, <2>1, <2>2
  <2>3. CASE f \notin heard[o].fills
    <3>1. r2.filled = Smaller(r.filled + FillQty[f], r.approved) BY <1>4, <1>5, <2>3
    <3>2. n = heard[o].quantity + FillQty[f] BY <2>3
    <3> QED BY <1>3, <1>5, <2>1, <3>1, <3>2 DEF Smaller
  <2> QED BY <2>2, <2>3
<1> HIDE DEF h, n
<1>10. r2.seen = h.fills /\ r2.brokerId = h.acked /\ r2.filled = Smaller(h.quantity, r2.approved)
  BY <1>4, <1>5, <1>8, <1>9
<1> QED BY <1>1, <1>4, <1>7, <1>8, <1>10, RewriteIsSafe

\* A call that leaves the history alone and keeps a subset of the orders, each
\* with its quantities and filters, preserves the invariant.
LEMMA SweepIsSafe ==
    ASSUME IInv, newest' = newest, heard' = heard,
           DOMAIN orders' \subseteq DOMAIN orders,
           orders' \in [DOMAIN orders' -> OrderRecords],
           \A o \in DOMAIN orders' :
              /\ Continues(orders[o], orders'[o])
              /\ orders'[o].filled = orders[o].filled
              /\ orders'[o].seen = orders[o].seen
              /\ orders'[o].brokerId = orders[o].brokerId,
           \A o \in DOMAIN orders \ DOMAIN orders' : Terminal(orders[o])
    PROVE  IInv' /\ \A x \in Orders : OrderStep(x)
<1>1. TypeOK' BY DEF IInv, TypeOK
<1>2. HistoryMatches' BY DEF IInv, HistoryMatches
<1>3. FilledIsReported' BY DEF IInv, FilledIsReported, Continues
<1>4. \A x \in Orders : OrderStep(x) BY DEF OrderStep
<1> QED BY <1>1, <1>2, <1>3, <1>4 DEF IInv

\* _map_broker_open_orders and resync on one record: its size stays, its filled
\* quantity becomes the larger one, and its status moves along the graph.
LEMMA ReconciledContinues ==
    ASSUME NEW r \in OrderRecords, NEW e, e.filled \in Nat, e.named \in BOOLEAN,
           r.filled <= r.approved
    PROVE  /\ Continues(r, Reconciled(r, e))
           /\ Reconciled(r, e).seen = r.seen
           /\ Reconciled(r, e).brokerId = (r.brokerId \/ e.named)
           /\ Reconciled(r, e).filled =
                  IF Smaller(e.filled, r.approved) > r.filled
                  THEN Smaller(e.filled, r.approved) ELSE r.filled
<1> DEFINE k == IF e.named THEN WithBrokerId(r) ELSE r
           adopts == e.filled > r.filled
           b == IF adopts THEN WithBrokerFill(k, e.filled) ELSE k
           to == ResyncStatus(b.status, IF adopts THEN "RECONCILIATION_HOLD" ELSE e.status)
<1>1. Reconciled(r, e) = Moved(b, to) BY DEF Reconciled, Resynced
<1>2. r.filled \in Nat /\ r.approved \in Nat /\ r.status \in OrderStatus /\ r.brokerId \in BOOLEAN
  BY QuantitiesAssumption DEF OrderRecords, Shares
<1>3. /\ k \in OrderRecords /\ k.filled = r.filled /\ k.approved = r.approved
      /\ k.status = r.status /\ k.seen = r.seen
  <2>1. CASE e.named
    <3>1. WithBrokerId(r) \in OrderRecords BY AnnotationsContinue DEF Continues
    <3> QED BY <2>1, <3>1 DEF WithBrokerId, OrderRecords
  <2> QED BY <2>1
<1>4. k.brokerId = (r.brokerId \/ e.named)
  <2>1. CASE e.named
    <3>1. WithBrokerId(r).brokerId = TRUE BY DEF WithBrokerId, OrderRecords
    <3> QED BY <2>1, <3>1
  <2>2. CASE ~e.named
    <3>1. k = r BY <2>2
    <3>2. (r.brokerId \/ e.named) = r.brokerId BY <1>2, <2>2
    <3> QED BY <3>1, <3>2
  <2> QED BY <2>1, <2>2
<1> HIDE DEF k
<1>5. /\ b \in OrderRecords /\ b.approved = r.approved /\ b.status = r.status
      /\ b.seen = r.seen /\ b.brokerId = k.brokerId /\ b.filled <= b.approved
      /\ b.filled = IF Smaller(e.filled, r.approved) > r.filled
                    THEN Smaller(e.filled, r.approved) ELSE r.filled
      /\ r.filled <= b.filled
  <2>1. CASE adopts
    <3>1. /\ Continues(k, WithBrokerFill(k, e.filled))
          /\ WithBrokerFill(k, e.filled).seen = k.seen
          /\ WithBrokerFill(k, e.filled).brokerId = k.brokerId
          /\ WithBrokerFill(k, e.filled).filled =
                 IF Smaller(e.filled, k.approved) > k.filled
                 THEN Smaller(e.filled, k.approved) ELSE k.filled
      BY <1>3, BrokerFillContinues
    <3>2. WithBrokerFill(k, e.filled).status = k.status
      BY <1>3 DEF WithBrokerFill, OrderRecords
    <3> QED BY <1>3, <2>1, <3>1, <3>2 DEF Continues
  <2>2. CASE ~adopts BY <1>2, <1>3, <2>2 DEF Smaller
  <2> QED BY <2>1, <2>2
<1> HIDE DEF b
<1>6. CanMove(b.status, to) BY ResyncIsAMove
<1>7. Continues(b, Moved(b, to)) BY <1>5, <1>6, MovedContinues
<1> HIDE DEF to
<1>8. /\ Moved(b, to).seen = b.seen /\ Moved(b, to).brokerId = b.brokerId
      /\ Moved(b, to).filled = b.filled
  BY <1>5 DEF Moved, OrderRecords
<1>9. Continues(r, Moved(b, to))
  BY <1>5, <1>7, <1>8 DEF Continues, Terminal
<1> QED BY <1>1, <1>4, <1>5, <1>8, <1>9

\* What an entry is made of.
LEMMA EntryFields ==
    ASSUME NEW e \in Entries
    PROVE  e.filled \in Nat /\ e.named \in BOOLEAN
<1>0. Named \subseteq BOOLEAN BY DEF Named
<1>1. CASE e = NoEntry BY <1>1 DEF NoEntry
<1>2. CASE e \in [status : BrokerTruth \ {"NO_RECORD"}, filled : {0}, named : Named]
  <2>1. e.named \in Named /\ e.filled = 0 BY <1>2
  <2> QED BY <1>0, <2>1
<1>3. CASE e \in [status : {"WORKING"}, filled : Reports, named : Named]
  <2>1. e.named \in Named /\ e.filled \in Reports BY <1>3
  <2> QED BY <1>0, <2>1, ReportsAssumption
<1> QED BY <1>1, <1>2, <1>3 DEF Entries

\* reconcile_open_orders: one pass moves many orders, each only along the graph.
LEMMA ReconcileOpenOrdersIsSafe ==
    ASSUME IInv, NEW entries \in [Matchable -> Entries], ReconcileOpenOrders(entries)
    PROVE  IInv' /\ \A x \in Orders : OrderStep(x)
<1>1. /\ DOMAIN orders' = DOMAIN orders /\ newest' = newest
      /\ orders' = [o \in DOMAIN orders |-> IF o \in Matchable
                                            THEN Reconciled(orders[o], entries[o])
                                            ELSE orders[o]]
      /\ heard' = [o \in Orders |-> IF o \in Matchable
                                    THEN HeardEntry(heard[o], entries[o]) ELSE heard[o]]
  BY DEF ReconcileOpenOrders
<1>2. DOMAIN orders \subseteq Orders /\ Matchable \subseteq DOMAIN orders
  BY DEF IInv, TypeOK, Matchable
<1>3. ASSUME NEW o \in Orders
      PROVE  heard[o] \in Histories /\ heard'[o] \in Histories
  <2>1. heard[o] \in Histories BY DEF IInv, TypeOK
  <2>2. CASE o \in Matchable
    <3>1. entries[o].filled \in Nat /\ entries[o].named \in BOOLEAN BY <2>2, EntryFields
    <3>2. HeardEntry(heard[o], entries[o]) \in Histories
      BY <2>1, <3>1 DEF HeardEntry, Histories
    <3> QED BY <1>1, <2>1, <2>2, <3>2
  <2>3. CASE o \notin Matchable BY <1>1, <2>1, <2>3
  <2> QED BY <2>2, <2>3
<1>4. ASSUME NEW o \in DOMAIN orders
      PROVE  /\ Continues(orders[o], orders'[o])
             /\ orders'[o].seen = heard'[o].fills
             /\ orders'[o].brokerId = heard'[o].acked
             /\ orders'[o].filled = Smaller(heard'[o].quantity, orders'[o].approved)
  <2>1. orders[o] \in OrderRecords /\ orders[o].filled <= orders[o].approved
    BY FilledWithinApproved
  <2>2. orders[o].filled \in Nat /\ orders[o].approved \in Nat
    BY <2>1, QuantitiesAssumption DEF OrderRecords, Shares
  <2>3. /\ orders[o].seen = heard[o].fills /\ orders[o].brokerId = heard[o].acked
        /\ orders[o].filled = Smaller(heard[o].quantity, orders[o].approved)
    BY DEF IInv, HistoryMatches, FilledIsReported
  <2>4. heard[o].quantity \in Nat BY <1>2, <1>3 DEF Histories
  <2>5. CASE o \in Matchable
    <3> DEFINE r2 == Reconciled(orders[o], entries[o])
               h2 == HeardEntry(heard[o], entries[o])
    <3>1. entries[o].filled \in Nat /\ entries[o].named \in BOOLEAN BY <2>5, EntryFields
    <3>2. orders'[o] = r2 /\ heard'[o] = h2 BY <1>1, <1>2, <2>5
    <3>3. /\ h2.fills = heard[o].fills
          /\ h2.acked = (heard[o].acked \/ entries[o].named)
          /\ h2.quantity = IF entries[o].filled > heard[o].quantity
                           THEN entries[o].filled ELSE heard[o].quantity
      BY DEF HeardEntry
    <3>4. /\ Continues(orders[o], r2) /\ r2.seen = orders[o].seen
          /\ r2.brokerId = (orders[o].brokerId \/ entries[o].named)
          /\ r2.filled = IF Smaller(entries[o].filled, orders[o].approved) > orders[o].filled
                         THEN Smaller(entries[o].filled, orders[o].approved)
                         ELSE orders[o].filled
      BY <2>1, <3>1, ReconciledContinues
    <3> HIDE DEF r2, h2
    <3>5. r2.approved = orders[o].approved BY <3>4 DEF Continues
    <3>6. r2.filled = Smaller(h2.quantity, r2.approved)
      BY <2>2, <2>3, <2>4, <3>1, <3>3, <3>4, <3>5 DEF Smaller
    <3> QED BY <2>3, <3>2, <3>3, <3>4, <3>6
  <2>6. CASE o \notin Matchable
    <3>1. orders'[o] = orders[o] /\ heard'[o] = heard[o] BY <1>1, <1>2, <2>6
    <3> QED BY <2>1, <2>2, <2>3, <3>1 DEF Continues
  <2> QED BY <2>5, <2>6
<1>5. TypeOK'
  <2>1. orders' \in [DOMAIN orders' -> OrderRecords] BY <1>1, <1>4 DEF Continues
  <2>2. heard' \in [Orders -> Histories] BY <1>1, <1>3
  <2> QED BY <1>1, <2>1, <2>2 DEF IInv, TypeOK
<1>6. HistoryMatches'
  <2>1. \A o \in DOMAIN orders' : o <= newest' BY <1>1 DEF IInv, HistoryMatches
  <2>2. ASSUME NEW o \in Orders, o > newest' PROVE heard'[o] = Silence
    <3>1. heard[o] = Silence BY <1>1, <2>2 DEF IInv, HistoryMatches
    <3>2. o \notin Matchable
      <4>1. o \in Nat /\ newest \in Nat BY OrdersAssumption DEF IInv, TypeOK
      <4> QED BY <1>1, <1>2, <2>2, <4>1 DEF IInv, HistoryMatches
    <3> QED BY <1>1, <3>1, <3>2
  <2> QED BY <1>1, <1>4, <2>1, <2>2 DEF HistoryMatches
<1>7. FilledIsReported' BY <1>1, <1>4 DEF FilledIsReported
<1>8. ASSUME NEW x \in Orders PROVE OrderStep(x) BY <1>1, <1>4 DEF OrderStep
<1> QED BY <1>5, <1>6, <1>7, <1>8 DEF IInv

\* prune_terminal: the orders that stay are untouched.
LEMMA PruneTerminalIsSafe ==
    ASSUME IInv, PruneTerminal
    PROVE  IInv' /\ \A x \in Orders : OrderStep(x)
<1>1. PICK kept \in SUBSET TerminalOrders :
          orders' = [o \in DOMAIN orders \ (TerminalOrders \ kept) |-> orders[o]]
  BY DEF PruneTerminal
<1>2. newest' = newest /\ heard' = heard BY DEF PruneTerminal
<1>3. DOMAIN orders' = DOMAIN orders \ (TerminalOrders \ kept) BY <1>1
<1>4. ASSUME NEW o \in DOMAIN orders'
      PROVE  orders'[o] = orders[o] /\ Continues(orders[o], orders'[o])
  <2>1. o \in DOMAIN orders /\ orders'[o] = orders[o] BY <1>1, <1>3
  <2>2. orders[o] \in OrderRecords /\ orders[o].filled <= orders[o].approved
    BY <2>1, FilledWithinApproved
  <2>3. orders[o].filled \in Nat BY <2>2 DEF OrderRecords
  <2> QED BY <2>1, <2>2, <2>3 DEF Continues
<1>5. orders' \in [DOMAIN orders' -> OrderRecords] BY <1>1, <1>4 DEF Continues
<1>6. \A o \in DOMAIN orders \ DOMAIN orders' : Terminal(orders[o])
  BY <1>3 DEF TerminalOrders
<1> QED BY <1>2, <1>3, <1>4, <1>5, <1>6, SweepIsSafe

\* snapshot_nonterminal and restore: the orders that survive come back whole.
LEMMA RestartIsSafe ==
    ASSUME IInv, Restart
    PROVE  IInv' /\ \A x \in Orders : OrderStep(x)
<1>1. /\ newest' = newest /\ heard' = heard
      /\ orders' = [o \in DOMAIN orders \ TerminalOrders |-> Restored(orders[o])]
      /\ DOMAIN orders' = DOMAIN orders \ TerminalOrders
  BY DEF Restart
<1>2. ASSUME NEW o \in DOMAIN orders'
      PROVE  orders'[o] = orders[o] /\ Continues(orders[o], orders'[o])
  <2>1. o \in DOMAIN orders /\ orders'[o] = Restored(orders[o]) BY <1>1
  <2>2. orders[o] \in OrderRecords /\ orders[o].filled <= orders[o].approved
    BY <2>1, FilledWithinApproved
  <2>3. orders'[o] = orders[o] BY <2>1, <2>2, RestoredIsSame
  <2>4. orders[o].filled \in Nat BY <2>2 DEF OrderRecords
  <2> QED BY <2>2, <2>3, <2>4 DEF Continues
<1>3. orders' \in [DOMAIN orders' -> OrderRecords] BY <1>1, <1>2 DEF Continues
<1>4. \A o \in DOMAIN orders \ DOMAIN orders' : Terminal(orders[o])
  BY <1>1 DEF TerminalOrders
<1> QED BY <1>1, <1>2, <1>3, <1>4, SweepIsSafe

\* Every method preserves the invariant.
LEMMA NextIsSafe ==
    ASSUME IInv, Next
    PROVE  IInv' /\ \A x \in Orders : OrderStep(x)
<1>1. CASE \E o \in Orders, q \in Quantities : Create(o, q)
  BY <1>1, CreateIsSafe
<1>2. CASE \E o \in Orders, q \in Reports : ReconcileBrokerFill(o, q)
  BY <1>2, ReconcileBrokerFillIsSafe
<1>3. CASE \E o \in Orders, to \in TransitionTargets : Transition(o, to)
  BY <1>3, TransitionIsSafe
<1>4. CASE \E o \in Orders : \/ MarkSubmissionUncertain(o)
                             \/ MarkBrokerUnknown(o)
                             \/ RequestCancel(o)
  BY <1>4, TransitionIsSafe DEF MarkSubmissionUncertain, MarkBrokerUnknown, RequestCancel
<1>5. CASE \E o \in Orders : SetBrokerOrderId(o)
  BY <1>5, SetBrokerOrderIdIsSafe
<1>6. CASE \E o \in Orders, f \in FillIds : RecordFill(o, f)
  BY <1>6, RecordFillIsSafe
<1>7. CASE \E o \in Orders : RecordCommission(o)
  BY <1>7, RecordCommissionIsSafe
<1>8. CASE \E entries \in [Matchable -> Entries] : ReconcileOpenOrders(entries)
  BY <1>8, ReconcileOpenOrdersIsSafe
<1>9. CASE PruneTerminal BY <1>9, PruneTerminalIsSafe
<1>10. CASE Restart BY <1>10, RestartIsSafe
<1> QED
  BY <1>1, <1>2, <1>3, <1>4, <1>5, <1>6, <1>7, <1>8, <1>9, <1>10 DEF Next

(***************************************************************************)
(* The theorems                                                            *)
(***************************************************************************)

\* The invariant of OrderLifecycle, for any orders, fills and quantities.
THEOREM Invariance == Spec => []IInv
<1>1. Init => IInv
  <2> SUFFICES ASSUME Init PROVE IInv OBVIOUS
  <2>1. DOMAIN orders = {} BY DEF Init
  <2>2. orders \in [DOMAIN orders -> OrderRecords] BY DEF Init
  <2>3. Silence \in Histories
    BY DEF Silence, Histories
  <2>4. newest = 0 /\ heard = [o \in Orders |-> Silence] BY DEF Init
  <2>5. TypeOK BY <2>1, <2>2, <2>3, <2>4 DEF TypeOK
  <2> QED
    BY <2>1, <2>4, <2>5 DEF IInv, HistoryMatches, FilledIsReported
<1>2. IInv /\ [Next]_vars => IInv'
  <2> SUFFICES ASSUME IInv, [Next]_vars PROVE IInv' OBVIOUS
  <2>1. CASE Next BY <2>1, NextIsSafe
  <2>2. CASE UNCHANGED vars
    BY <2>2 DEF vars, IInv, TypeOK, HistoryMatches, FilledIsReported
  <2> QED BY <2>1, <2>2
<1> QED BY <1>1, <1>2, PTL DEF Spec

\* Every order record keeps its type, and only created ids are tracked.
THEOREM TypeCorrect == Spec => []TypeOK
<1>1. IInv => TypeOK BY DEF IInv
<1> QED BY <1>1, Invariance, PTL

\* Fills are counted exactly once and never beyond the approved size, through
\* duplicates, late deliveries, resyncs and restarts.
THEOREM FillAccounting == Spec => []FilledIsReported
<1>1. IInv => FilledIsReported BY DEF IInv
<1> QED BY <1>1, Invariance, PTL

\* Where every answer names its order, whatever confirmed an order left its id.
ConfirmedIsNamed == \A o \in Orders : heard[o].confirmed => heard[o].acked

\* Every way the broker has of confirming an order writes the id down with it.
LEMMA ConfirmationsAreNamed ==
    ASSUME AlwaysNamed, IInv, ConfirmedIsNamed, Next
    PROVE  ConfirmedIsNamed'
<1>1. ASSUME NEW o \in Orders PROVE heard[o] \in Histories BY DEF IInv, TypeOK
<1>2. heard \in [Orders -> Histories] BY DEF IInv, TypeOK
<1>3. CASE UNCHANGED heard BY <1>3 DEF ConfirmedIsNamed
<1>4. ASSUME NEW o \in Orders, SetBrokerOrderId(o) PROVE ConfirmedIsNamed'
  <2>1. heard' = [heard EXCEPT ![o] = [heard[o] EXCEPT !.acked = TRUE, !.confirmed = TRUE]]
    BY <1>4 DEF SetBrokerOrderId
  <2>2. heard'[o].acked = TRUE BY <1>1, <1>2, <2>1 DEF Histories
  <2>3. \A x \in Orders : x # o => heard'[x] = heard[x] BY <1>2, <2>1
  <2> QED BY <2>2, <2>3 DEF ConfirmedIsNamed
<1>5. ASSUME NEW o \in Orders, NEW q \in Reports, ReconcileBrokerFill(o, q)
      PROVE  ConfirmedIsNamed'
  <2> DEFINE n == IF q > heard[o].quantity THEN q ELSE heard[o].quantity
  <2>1. heard' = [heard EXCEPT ![o] = [heard[o] EXCEPT !.quantity = n]]
    BY <1>5 DEF ReconcileBrokerFill
  <2> HIDE DEF n
  <2>2. heard'[o].acked = heard[o].acked /\ heard'[o].confirmed = heard[o].confirmed
    BY <1>1, <1>2, <2>1 DEF Histories
  <2>3. \A x \in Orders : x # o => heard'[x] = heard[x] BY <1>2, <2>1
  <2> QED BY <2>2, <2>3 DEF ConfirmedIsNamed
<1>6. ASSUME NEW o \in Orders, NEW f \in FillIds, RecordFill(o, f) PROVE ConfirmedIsNamed'
  <2> DEFINE n == IF f \in heard[o].fills THEN heard[o].quantity
                  ELSE heard[o].quantity + FillQty[f]
  <2>1. heard' = [heard EXCEPT ![o] = [heard[o] EXCEPT !.fills = heard[o].fills \cup {f},
                                                      !.quantity = n]]
    BY <1>2, <1>6 DEF RecordFill
  <2> HIDE DEF n
  <2>2. heard'[o].acked = heard[o].acked /\ heard'[o].confirmed = heard[o].confirmed
    BY <1>1, <1>2, <2>1 DEF Histories
  <2>3. \A x \in Orders : x # o => heard'[x] = heard[x] BY <1>2, <2>1
  <2> QED BY <2>2, <2>3 DEF ConfirmedIsNamed
<1>7. ASSUME NEW entries \in [Matchable -> Entries], ReconcileOpenOrders(entries)
      PROVE  ConfirmedIsNamed'
  <2> SUFFICES ASSUME NEW o \in Orders, heard'[o].confirmed PROVE heard'[o].acked
    BY DEF ConfirmedIsNamed
  <2>1. heard'[o] = IF o \in Matchable THEN HeardEntry(heard[o], entries[o]) ELSE heard[o]
    BY <1>7 DEF ReconcileOpenOrders
  <2>2. CASE o \notin Matchable BY <2>1, <2>2 DEF ConfirmedIsNamed
  <2>3. CASE o \in Matchable
    <3> DEFINE e == entries[o]
    <3>1. e \in Entries BY <2>3
    <3>2. e.named \/ e = NoEntry BY <3>1 DEF Entries, Named
    <3>3. e.named \/ e.status \notin Reached BY <3>2 DEF NoEntry, Reached
    <3> HIDE DEF e
    <3>4. /\ HeardEntry(heard[o], e).confirmed =
                (heard[o].confirmed \/ e.named \/ e.status \in Reached)
          /\ HeardEntry(heard[o], e).acked = (heard[o].acked \/ e.named)
      BY DEF HeardEntry
    <3>5. heard'[o] = HeardEntry(heard[o], e) BY <2>1, <2>3 DEF e
    <3>6. heard[o].confirmed => heard[o].acked BY DEF ConfirmedIsNamed
    <3> QED BY <3>3, <3>4, <3>5, <3>6
  <2> QED BY <2>2, <2>3
<1>8. \/ UNCHANGED heard
      \/ \E o \in Orders : SetBrokerOrderId(o)
      \/ \E o \in Orders, q \in Reports : ReconcileBrokerFill(o, q)
      \/ \E o \in Orders, f \in FillIds : RecordFill(o, f)
      \/ \E entries \in [Matchable -> Entries] : ReconcileOpenOrders(entries)
  BY DEF Next, Create, Transition, MarkSubmissionUncertain, MarkBrokerUnknown,
         RequestCancel, RecordCommission, PruneTerminal, Restart
<1> QED BY <1>3, <1>4, <1>5, <1>6, <1>7, <1>8

\* can_resubmit, with a broker whose every answer names its order (IBKR and
\* Alpaca do): an order it clears never reached the broker.  Without that
\* assumption TLC refutes it: resync to WORKING, then REJECTED.
THEOREM SafeResubmission ==
    ASSUME AlwaysNamed PROVE Spec => []ResubmitOnlyUnreached
<1>1. Init => ConfirmedIsNamed
  <2>1. ~Silence.confirmed BY DEF Silence
  <2> QED BY <2>1 DEF Init, ConfirmedIsNamed
<1>2. IInv /\ ConfirmedIsNamed /\ [Next]_vars => ConfirmedIsNamed'
  <2> SUFFICES ASSUME IInv, ConfirmedIsNamed, [Next]_vars PROVE ConfirmedIsNamed' OBVIOUS
  <2>1. CASE Next BY <2>1, ConfirmationsAreNamed
  <2>2. CASE UNCHANGED vars BY <2>2 DEF vars, ConfirmedIsNamed
  <2> QED BY <2>1, <2>2
<1>3. IInv /\ ConfirmedIsNamed => ResubmitOnlyUnreached
  <2> SUFFICES ASSUME IInv, ConfirmedIsNamed, NEW o \in DOMAIN orders, CanResubmit(orders[o])
               PROVE  ~heard[o].confirmed /\ heard[o].quantity = 0
    BY DEF ResubmitOnlyUnreached
  <2>1. orders[o] \in OrderRecords /\ o \in Orders BY DEF IInv, TypeOK
  <2>2. orders[o].approved \in Nat \ {0} BY <2>1, QuantitiesAssumption DEF OrderRecords, Shares
  <2>3. heard[o].quantity \in Nat BY <2>1 DEF IInv, TypeOK, Histories
  <2>4. ~heard[o].confirmed
    BY <2>1 DEF CanResubmit, IInv, HistoryMatches, ConfirmedIsNamed
  <2>5. Smaller(heard[o].quantity, orders[o].approved) = 0
    BY DEF CanResubmit, IInv, FilledIsReported
  <2> QED BY <2>2, <2>3, <2>4, <2>5 DEF Smaller
<1> QED BY <1>1, <1>2, <1>3, Invariance, PTL DEF Spec

\* seen_fill_ids and broker_order_id say of every tracked order exactly what the
\* broker was heard to say, prunes, duplicates, resyncs and restarts included,
\* and nobody heard of an id that was not created yet.
THEOREM HistoryIsKept == Spec => []HistoryMatches
<1>1. IInv => HistoryMatches BY DEF IInv
<1> QED BY <1>1, Invariance, PTL

\* The contract's step, from what the class's step does to each order.
LEMMA StepsKeepContract ==
    ASSUME IInv, IInv', \A x \in Orders : OrderStep(x)
    PROVE  Contract!Next
<1> SUFFICES ASSUME NEW o \in Orders
             PROVE  Contract!Same(o) \/ Contract!Open(o)
                    \/ Contract!Progress(o) \/ Contract!Forget(o)
  BY DEF Contract!Next
<1>1. OrderStep(o) OBVIOUS
<1>2. CASE o \notin DOMAIN orders /\ o \notin DOMAIN orders'
  <2>1. Contract!Same(o)
    BY <1>2 DEF Contract!Same, phase, approvedQty, filledQty, Tracked
  <2> QED BY <2>1
<1>3. CASE /\ o \notin DOMAIN orders /\ o \in DOMAIN orders'
           /\ \E q \in Quantities : orders'[o] = NewRecord(q)
  <2>1. PICK q \in Quantities : orders'[o] = NewRecord(q) BY <1>3
  <2>2. /\ ~Terminal(orders'[o]) /\ orders'[o].approved = q /\ orders'[o].filled = 0
    BY <2>1 DEF NewRecord, Terminal, TerminalStates
  <2>3. Contract!Open(o)
    BY <1>3, <2>2 DEF Contract!Open, phase, approvedQty, filledQty, Tracked, Terminal
  <2> QED BY <2>3
<1>4. CASE /\ o \in DOMAIN orders /\ o \in DOMAIN orders'
           /\ Continues(orders[o], orders'[o])
  <2>1. Contract!Progress(o)
    BY <1>4 DEF Continues, Contract!Progress, phase, approvedQty, filledQty, Tracked, Terminal
  <2> QED BY <2>1
<1>5. CASE /\ o \in DOMAIN orders /\ o \notin DOMAIN orders'
           /\ Terminal(orders[o])
  <2>1. Contract!Forget(o)
    BY <1>5 DEF Contract!Forget, phase, approvedQty, filledQty, Tracked
  <2> QED BY <2>1
<1> QED BY <1>1, <1>2, <1>3, <1>4, <1>5 DEF OrderStep

\* OrderLifecycle implements OrderContract: open orders are never forgotten,
\* finished ones never revived, fills never taken back.
THEOREM ContractKept == Spec => KeepsContract
<1>1. Init => Contract!Init
  BY DEF Init, Contract!Init, phase, approvedQty, filledQty, Tracked
<1>2. IInv /\ IInv' /\ [Next]_vars => [Contract!Next]_Contract!vars
  <2> SUFFICES ASSUME IInv, IInv', [Next]_vars PROVE [Contract!Next]_Contract!vars
    OBVIOUS
  <2>1. CASE Next BY <2>1, NextIsSafe, StepsKeepContract
  <2>2. CASE UNCHANGED vars
    BY <2>2 DEF vars, Contract!vars, phase, approvedQty, filledQty, Tracked, Terminal
  <2> QED BY <2>1, <2>2
<1> QED BY <1>1, <1>2, Invariance, PTL DEF Spec, Contract!Spec, KeepsContract
=============================================================================
