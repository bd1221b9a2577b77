-------------------------- MODULE LivePositionProofs --------------------------
(***************************************************************************)
(* Where the broker, the service and the audit trail agree, proved for any *)
(* universe, any number of cycles and slices: what rests at the broker is  *)
(* tracked, the durable ledger lies between the held book and the broker,  *)
(* and the real position stays between flat and the largest target.  Each  *)
(* needs something of the faults or of the points at which the process may *)
(* die, stated with its theorem.                                           *)
(***************************************************************************)
EXTENDS LiveTradingProofs

-----------------------------------------------------------------------------
(* Placing an order, and what the broker does on its own                   *)

\* Every answer of the broker leaves a record of what it filled.
LEMMA SubmitPlaces ==
    ASSUME AccountInv, Submit
    PROVE  \E p \in todo, r \in OrderRecords :
               /\ Placed(p, r) /\ r.approved = p.qty /\ r.filled <= p.qty
               /\ r.filled # p.qty => ~Terminal(r)
<1>1. PICK p \in todo : \/ PlaceDisconnected(p) \/ PlaceUnsent(p) \/ PlaceRaises(p)
                        \/ \E k \in 0 .. p.qty : PlaceAccepted(p, k)
  BY DEF Submit
<1> SUFFICES \E r \in OrderRecords : /\ Placed(p, r) /\ r.approved = p.qty /\ r.filled <= p.qty
                                     /\ r.filled # p.qty => ~Terminal(r)
  OBVIOUS
<1>2. p.qty \in Shares /\ 0 <= p.qty
  BY DEF AccountInv, LoopTypeOK, Shares
<1>3. {"BROKER_UNKNOWN", "WORKING", "SUBMISSION_UNCERTAIN", "SUBMIT_PENDING"}
        \subseteq OrderStatus \ TerminalStates
  BY DEF OrderStatus, ResubmitBlockingStates, TerminalStates
<1>4. \A to \in OrderStatus \ TerminalStates :
          /\ Moved(NewRecord(p.qty), to) \in OrderRecords
          /\ Moved(NewRecord(p.qty), to).filled = 0
          /\ Moved(NewRecord(p.qty), to).approved = p.qty
          /\ ~Terminal(Moved(NewRecord(p.qty), to))
  BY <1>2, SubmittedFields DEF Terminal
<1>5. CASE PlaceDisconnected(p)
  <2>1. Placed(p, Moved(NewRecord(p.qty), "BROKER_UNKNOWN"))
    BY <1>3, <1>4, <1>5 DEF PlaceDisconnected, Placed
  <2> QED BY <1>2, <1>3, <1>4, <2>1
<1>6. CASE PlaceUnsent(p)
  <2>1. Placed(p, Moved(NewRecord(p.qty), "WORKING"))
    BY <1>3, <1>4, <1>6 DEF PlaceUnsent, Placed
  <2> QED BY <1>2, <1>3, <1>4, <2>1
<1>7. CASE PlaceRaises(p)
  <2>1. Placed(p, Moved(NewRecord(p.qty), "SUBMISSION_UNCERTAIN"))
    BY <1>3, <1>4, <1>7 DEF PlaceRaises, Placed
  <2> QED BY <1>2, <1>3, <1>4, <2>1
<1>8. ASSUME NEW k \in 0 .. p.qty, PlaceAccepted(p, k)
      PROVE  \E r \in OrderRecords : /\ Placed(p, r) /\ r.approved = p.qty /\ r.filled <= p.qty
                                     /\ r.filled # p.qty => ~Terminal(r)
  <2> DEFINE acked == WithBrokerId(Moved(NewRecord(p.qty), "SUBMIT_PENDING"))
  <2>1. /\ acked \in OrderRecords /\ acked.filled = 0 /\ acked.approved = p.qty
        /\ acked.status = "SUBMIT_PENDING"
    BY <1>2, <1>3, SubmittedFields, BrokerIdFields
  <2>2. acked.seen = {}
    BY DEF WithBrokerId, Moved, NewRecord
  <2>3. /\ Submitting(p) /\ Accepts(p.id, p.qty, k)
        /\ k = 0 => Put(p.id, Moved(acked, "WORKING")) /\ fills' = fills
        /\ k # 0 => /\ Put(p.id, WithFill(acked, "exec", k))
                    /\ fills' = [o \in DOMAIN fills \cup {p.id} |-> IF o = p.id THEN k ELSE fills[o]]
    BY <1>8 DEF PlaceAccepted
  <2> HIDE DEF acked
  <2>4. CASE k = 0
    <3> DEFINE r == Moved(acked, "WORKING")
    <3>1. r \in OrderRecords /\ r.filled = 0 /\ r.approved = p.qty /\ ~Terminal(r)
      BY <1>3, <2>1, MovedFields DEF Terminal
    <3>2. Placed(p, r)
      BY <2>3, <2>4, <3>1 DEF Placed
    <3> HIDE DEF r
    <3> QED BY <1>2, <3>1, <3>2
  <2>5. CASE k # 0
    <3> DEFINE r == WithFill(acked, "exec", k)
    <3>1. FillStatus(acked, k) \in OrderStatus
      <4>1. FillStatus(acked, k) \in ResubmitBlockingStates \cup TerminalStates
        BY <2>1, FillSettles DEF ResubmitBlockingStates
      <4> QED BY <4>1, StatusesAreStatuses
    <3>2. k \in Nat /\ k \in Shares /\ k <= p.qty /\ "exec" \in FillIds
      BY <1>2, <2>5, FillIdsAssumption DEF Shares
    <3>3. /\ r \in OrderRecords /\ r.filled = k /\ r.approved = p.qty
          /\ r.status = FillStatus(acked, k)
      BY <2>1, <2>2, <3>1, <3>2, FilledFields
    <3>4. k # p.qty => FillStatus(acked, k) = "PARTIALLY_FILLED"
      <4>1. k # p.qty => ~(k >= acked.approved)
        BY <1>2, <2>1, <3>2 DEF Shares
      <4>2. CanMove(acked.status, "PARTIALLY_FILLED")
        BY <2>1 DEF CanMove, Allowed
      <4> QED BY <4>1, <4>2 DEF FillStatus
    <3>5. r.filled # p.qty => ~Terminal(r)
      BY <3>3, <3>4 DEF Terminal, TerminalStates
    <3>6. Placed(p, r)
      BY <2>3, <2>5, <3>2, <3>3 DEF Placed
    <3> HIDE DEF r
    <3> QED BY <3>2, <3>3, <3>5, <3>6
  <2> QED BY <2>4, <2>5
<1> QED BY <1>1, <1>5, <1>6, <1>7, <1>8

\* A record for an order nobody knew.
LEMMA PlacedIsNew ==
    ASSUME AccountInv, NEW p, NEW r \in OrderRecords, Placed(p, r),
           r.approved = p.qty, r.filled <= p.qty
    PROVE  /\ UNCHANGED <<pc, booked, items, resolving, disk, ledger, journal>>
           /\ pc = "submitting" /\ p.id \notin Known
           /\ \A i \in items \cup disk.items : i.order # p.id
<1>1. UNCHANGED <<pc, booked, items, resolving, disk, ledger, journal>> /\ pc = "submitting"
  BY DEF Placed, Submitting, audit
<1>2. p.id \notin Known
  BY PlacedFields
<1>3. \A i \in items \cup disk.items : i.order \in DOMAIN broker
  BY DEF AccountInv, Books, Book, ItemsAreSane
<1> QED BY <1>1, <1>2, <1>3 DEF Known

\* What the broker does on its own: orders stop resting, and where nothing fills
\* in pieces a fill completes its order.
LEMMA BrokerNextFills ==
    ASSUME BrokerOK(broker), BrokerNext
    PROVE  /\ OpenAtBroker' \subseteq OpenAtBroker
           /\ DOMAIN broker' = DOMAIN broker
           /\ \A o \in DOMAIN broker :
                 /\ broker'[o].qty = broker[o].qty
                 /\ "pieces" \notin Faults =>
                      broker'[o].filled = broker[o].filled \/ broker'[o].filled = broker[o].qty
                 /\ o \notin OpenAtBroker => broker'[o] = broker[o]
<1>1. ASSUME NEW o \in OpenAtBroker, NEW k \in 1 .. broker[o].qty, Fills(o, k)
      PROVE  /\ OpenAtBroker' \subseteq OpenAtBroker
             /\ DOMAIN broker' = DOMAIN broker
             /\ \A x \in DOMAIN broker :
                   /\ broker'[x].qty = broker[x].qty
                   /\ "pieces" \notin Faults =>
                        broker'[x].filled = broker[x].filled \/ broker'[x].filled = broker[x].qty
                   /\ x \notin OpenAtBroker => broker'[x] = broker[x]
  <2>1. /\ o \in DOMAIN broker
        /\ broker[o] \in [qty : Shares, filled : Nat, open : BOOLEAN]
        /\ broker[o].filled \in Nat /\ broker[o].qty \in Nat
    BY DEF OpenAtBroker, BrokerOK, Shares
  <2>2. k \in Nat
    BY <2>1
  <2>3. /\ DOMAIN broker' = DOMAIN broker
        /\ broker'[o] = [broker[o] EXCEPT !.filled = @ + k,
                                          !.open = @ /\ broker[o].filled + k < broker[o].qty]
        /\ \A x \in DOMAIN broker : x # o => broker'[x] = broker[x]
        /\ broker[o].filled + k <= broker[o].qty
        /\ broker[o].filled + k < broker[o].qty => "pieces" \in Faults
    BY <1>1, <2>1 DEF Fills
  <2>4. /\ broker'[o].qty = broker[o].qty /\ broker'[o].filled = broker[o].filled + k
    BY <2>1, <2>3
  <2>5. "pieces" \notin Faults => broker'[o].filled = broker[o].qty
    BY <2>1, <2>2, <2>3, <2>4
  <2>6. OpenAtBroker' \subseteq OpenAtBroker
    <3> SUFFICES ASSUME NEW x \in OpenAtBroker' PROVE x \in OpenAtBroker
      OBVIOUS
    <3>1. CASE x = o
      BY <3>1
    <3>2. CASE x # o
      BY <2>3, <3>2 DEF OpenAtBroker
    <3> QED BY <3>1, <3>2
  <2> QED BY <2>3, <2>4, <2>5, <2>6
<1>2. ASSUME NEW o \in OpenAtBroker, Closes(o)
      PROVE  /\ OpenAtBroker' \subseteq OpenAtBroker
             /\ DOMAIN broker' = DOMAIN broker
             /\ \A x \in DOMAIN broker : /\ broker'[x].qty = broker[x].qty
                                         /\ broker'[x].filled = broker[x].filled
                                         /\ x \notin OpenAtBroker => broker'[x] = broker[x]
  <2>1. /\ DOMAIN broker' = DOMAIN broker
        /\ broker'[o] = [broker[o] EXCEPT !.open = FALSE]
        /\ \A x \in DOMAIN broker : x # o => broker'[x] = broker[x]
        /\ broker[o] \in [qty : Shares, filled : Nat, open : BOOLEAN]
    BY <1>2 DEF Closes, OpenAtBroker, BrokerOK
  <2>2. broker'[o].qty = broker[o].qty /\ broker'[o].filled = broker[o].filled
    BY <2>1
  <2>3. OpenAtBroker' \subseteq OpenAtBroker
    <3> SUFFICES ASSUME NEW x \in OpenAtBroker' PROVE x \in OpenAtBroker
      OBVIOUS
    <3>1. CASE x = o
      BY <3>1
    <3>2. CASE x # o
      BY <2>1, <3>2 DEF OpenAtBroker
    <3> QED BY <3>1, <3>2
  <2> QED BY <2>1, <2>2, <2>3
<1>3. \/ \E o \in OpenAtBroker : Closes(o) \/ \E k \in 1 .. broker[o].qty : Fills(o, k)
      \/ UNCHANGED broker
  BY DEF BrokerNext, Disconnects, Reconnects
<1>4. UNCHANGED broker => OpenAtBroker' = OpenAtBroker
  BY DEF OpenAtBroker
<1> QED BY <1>1, <1>2, <1>3, <1>4

\* book_reconciled_fill and cancel_reconciled_order leave the quantity alone.
LEMMA ResolvedFields ==
    ASSUME StackInv, AccountInv, NEW i
    PROVE  i.order \in DOMAIN orders =>
             /\ BookReconciled(orders[i.order]).filled = orders[i.order].filled
             /\ CancelReconciled(orders[i.order]).filled = orders[i.order].filled
<1>1. i.order \in DOMAIN orders =>
        /\ orders[i.order] \in OrderRecords
        /\ orders[i.order].status \in ResubmitBlockingStates \cup TerminalStates
  BY DEF AccountInv, Books, Book, BookType, StackInv, Settled
<1> QED BY <1>1, SettledFields

-----------------------------------------------------------------------------
(* A broker that fills a resting order in one piece                        *)

\* A record has all the broker filled, or the broker has filled it all since;
\* and a reconciliation item is of an order that is filled completely.
Whole(os, its, bro) ==
    /\ \A o \in DOMAIN os \cap DOMAIN bro :
          os[o].filled = bro[o].filled \/ bro[o].filled = bro[o].qty
    /\ \A i \in its : i.upTo = bro[i.order].qty /\ bro[i.order].filled = bro[i.order].qty

WholeInv == "pieces" \notin Faults => /\ Whole(orders, items, broker)
                                      /\ Whole(disk.orders, disk.items, broker)

\* Neither a restart nor a write that raises can make a fill partial.
LEMMA SnapshotIsWhole ==
    ASSUME Whole(orders', items', broker'), Whole(disk.orders, disk.items, broker'),
           disk' = Snapshot' \/ disk' = disk
    PROVE  Whole(disk'.orders, disk'.items, broker')
<1>1. CASE disk' = Snapshot'
  <2>1. /\ disk'.orders = [o \in Pending' |-> orders'[o]] /\ disk'.items = items'
        /\ Pending' \subseteq DOMAIN orders'
    BY <1>1 DEF Snapshot, Pending
  <2> QED BY <2>1 DEF Whole
<1> QED BY <1>1

\* resync adopts a fill the broker has completed.
LEMMA ResyncKeepsWhole ==
    ASSUME StackInv, AccountInv, WholeInv, NEW read \in Reads, Resync(read)
    PROVE  WholeInv'
<1>1. UNCHANGED <<disk, broker>>
  BY DEF Resync, brokerVars
<1>2. CASE read.kind = "raised"
  BY <1>1, <1>2 DEF Resync, WholeInv
<1>3. CASE read.kind # "raised"
  <2> DEFINE found == Discovered(read.ids)
  <2>1. ApplyTruth(read.ids) /\ read.ids \in SUBSET DOMAIN broker
    BY <1>3 DEF Resync, Reads, Answers, Failures, Reported, Listable, OpenAtBroker
  <2>2. /\ DOMAIN orders' = DOMAIN orders
        /\ items' = items \cup {Discovery(orders, broker, o) : o \in found}
        /\ found \in SUBSET (DOMAIN orders \cap DOMAIN broker)
        /\ \A o \in DOMAIN orders :
              orders'[o].filled = IF o \in found THEN broker[o].filled ELSE orders[o].filled
    BY <2>1, ApplyTruthFields DEF AccountInv
  <2>3. /\ \A o \in found : broker[o].filled > orders[o].filled
        /\ \A o \in DOMAIN broker : broker[o].filled \in Nat
        /\ \A o \in DOMAIN orders : orders[o].filled \in Nat
    BY DEF Discovered, AccountInv, Books, BrokerOK, Book, BookType, OrderRecords
  <2> HIDE DEF found
  <2>4. ASSUME "pieces" \notin Faults
        PROVE  Whole(orders', items', broker)
    <3>1. Whole(orders, items, broker)
      BY <2>4 DEF WholeInv
    <3>2. \A o \in found : broker[o].filled = broker[o].qty
      BY <2>2, <2>3, <3>1 DEF Whole
    <3>3. \A o \in found : /\ Discovery(orders, broker, o).order = o
                           /\ Discovery(orders, broker, o).upTo = broker[o].filled
      BY DEF Discovery
    <3> QED BY <2>2, <3>1, <3>2, <3>3 DEF Whole
  <2> QED BY <1>1, <2>4 DEF WholeInv
<1> QED BY <1>2, <1>3

\* OrderManager.place records what the broker filled while it waited.
LEMMA SubmitKeepsWhole ==
    ASSUME AccountInv, WholeInv, Submit
    PROVE  WholeInv'
<1>1. PICK p \in todo, r \in OrderRecords :
          Placed(p, r) /\ r.approved = p.qty /\ r.filled <= p.qty
  BY SubmitPlaces
<1> DEFINE o == p.id
<1>2. /\ UNCHANGED <<items, disk>> /\ o \notin Known
      /\ \A i \in items \cup disk.items : i.order # o
  BY <1>1, PlacedIsNew
<1>3. /\ DOMAIN orders' = DOMAIN orders \cup {o} /\ orders'[o] = r
      /\ \A x \in DOMAIN orders : x # o => orders'[x] = orders[x]
      /\ DOMAIN broker \subseteq DOMAIN broker' /\ DOMAIN broker' \subseteq DOMAIN broker \cup {o}
      /\ \A x \in DOMAIN broker : broker'[x] = broker[x]
      /\ o \in DOMAIN broker' => broker'[o].filled = r.filled
  BY <1>1, PlacedFields
<1> HIDE DEF o
<1>4. \A i \in items \cup disk.items : i.order \in DOMAIN broker
  BY DEF AccountInv, Books, Book, ItemsAreSane
<1>5. ASSUME Whole(orders, items, broker) PROVE Whole(orders', items, broker')
  BY <1>2, <1>3, <1>4, <1>5 DEF Whole, Known
<1>6. ASSUME Whole(disk.orders, disk.items, broker)
      PROVE  Whole(disk.orders, disk.items, broker')
  BY <1>2, <1>3, <1>4, <1>6 DEF Whole, Known
<1> QED BY <1>2, <1>5, <1>6 DEF WholeInv

\* resolve_reconciliation closes an item and settles its order.
LEMMA ResolveKeepsWhole ==
    ASSUME StackInv, AccountInv, WholeInv, FinishAccept \/ \E i \in items : Reject(i)
    PROVE  WholeInv'
<1>1. ASSUME NEW i \in items, NEW state, NEW settled, Close(i, state, settled),
             UNCHANGED broker,
             i.order \in DOMAIN orders => settled.filled = orders[i.order].filled
      PROVE  WholeInv'
  <2>1. /\ items' = (items \ {i}) \cup {[i EXCEPT !.state = state]}
        /\ orders' = [x \in DOMAIN orders |-> IF x = i.order THEN settled ELSE orders[x]]
        /\ disk' = Snapshot' \/ disk' = disk
    BY <1>1 DEF Close
  <2>2. /\ [i EXCEPT !.state = state].upTo = i.upTo
        /\ [i EXCEPT !.state = state].order = i.order
    BY DEF AccountInv, Books, Book, BookType, Items
  <2>3. DOMAIN orders' = DOMAIN orders /\ \A o \in DOMAIN orders' : orders'[o].filled = orders[o].filled
    BY <1>1, <2>1
  <2>4. \A j \in items' : \E k \in items : j.upTo = k.upTo /\ j.order = k.order
    BY <2>1, <2>2
  <2>5. Whole(orders, items, broker) => Whole(orders', items', broker')
    BY <1>1, <2>3, <2>4 DEF Whole
  <2> QED BY <1>1, <2>1, <2>5, SnapshotIsWhole DEF WholeInv
<1>2. ASSUME NEW i
      PROVE  i.order \in DOMAIN orders =>
               /\ BookReconciled(orders[i.order]).filled = orders[i.order].filled
               /\ CancelReconciled(orders[i.order]).filled = orders[i.order].filled
  BY ResolvedFields
<1>3. CASE FinishAccept
  <2>1. /\ \E i \in resolving : Close(i, "ACCEPTED", BookReconciled(orders[i.order]))
        /\ UNCHANGED broker /\ resolving \subseteq items
    BY <1>3 DEF FinishAccept, brokerVars, AccountInv, LoopTypeOK
  <2> QED BY <1>1, <1>2, <2>1
<1>4. ASSUME NEW i \in items, Reject(i)
      PROVE  WholeInv'
  <2>1. Close(i, "REJECTED", CancelReconciled(orders[i.order])) /\ UNCHANGED broker
    BY <1>4 DEF Reject, brokerVars
  <2> QED BY <1>1, <1>2, <2>1
<1> QED BY <1>3, <1>4

LEMMA NextKeepsWhole ==
    ASSUME StackInv, AccountInv, WholeInv, [Next]_vars
    PROVE  WholeInv'
<1>1. ASSUME \/ SkipResync \/ PriceFails \/ PlanNothing \/ PlanSome \/ RecordCycle
             \/ StateStoreFails \/ StartRefused \/ UNCHANGED vars
             \/ \E i \in items : Accept(i) \/ AcceptUnaudited(i)
      PROVE  WholeInv'
  <2>1. UNCHANGED <<orders, items, disk, broker>>
    BY <1>1 DEF SkipResync, PriceFails, PlanNothing, PlanSome, Plan, RecordCycle, StateStoreFails,
                StartRefused, Accept, AcceptUnaudited, vars, memory, brokerVars
  <2> QED BY <2>1 DEF WholeInv
<1>2. CASE \E read \in Reads : Resync(read)
  BY <1>2, ResyncKeepsWhole
<1>3. CASE Submit
  BY <1>3, SubmitKeepsWhole
<1>4. CASE FinishOrders
  <2>1. /\ UNCHANGED <<items, disk, broker>> /\ DOMAIN orders' \subseteq DOMAIN orders
        /\ \A o \in DOMAIN orders' : orders'[o] = orders[o]
    BY <1>4 DEF FinishOrders, Pending, TerminalOrders, brokerVars
  <2>2. Whole(orders, items, broker) => Whole(orders', items, broker)
    BY <2>1 DEF Whole
  <2> QED BY <2>1, <2>2 DEF WholeInv
<1>5. CASE Persist
  <2>1. UNCHANGED <<orders, items, broker>> /\ (disk' = Snapshot' \/ disk' = disk)
    BY <1>5 DEF Persist, Snapshot, Pending, memory, brokerVars
  <2> QED BY <2>1, SnapshotIsWhole DEF WholeInv
<1>6. CASE FinishAccept \/ \E i \in items : Reject(i)
  BY <1>6, ResolveKeepsWhole
<1>7. CASE Crash
  <2>1. UNCHANGED <<disk, broker>> /\ DOMAIN orders' = {} /\ items' = {}
    BY <1>7 DEF Crash, NoOrders, brokerVars
  <2> QED BY <2>1 DEF WholeInv, Whole
<1>8. CASE Start
  <2>1. UNCHANGED <<disk, broker>> /\ items' = disk.items
    BY <1>8 DEF Start
  <2> QED BY <1>8, <2>1, StartRestores DEF WholeInv
<1>9. CASE Environment
  <2>1. BrokerNext /\ UNCHANGED <<orders, items, disk>>
    BY <1>9 DEF Environment, memory
  <2>2. /\ DOMAIN broker' = DOMAIN broker
        /\ \A o \in DOMAIN broker :
              /\ broker'[o].qty = broker[o].qty
              /\ "pieces" \notin Faults =>
                   broker'[o].filled = broker[o].filled \/ broker'[o].filled = broker[o].qty
    BY <2>1, BrokerNextFills DEF AccountInv, Books
  <2>3. \A i \in items \cup disk.items : i.order \in DOMAIN broker
    BY DEF AccountInv, Books, Book, ItemsAreSane
  <2>4. ASSUME NEW os, NEW its, its \subseteq items \cup disk.items,
               Whole(os, its, broker), "pieces" \notin Faults
        PROVE  Whole(os, its, broker')
    BY <2>2, <2>3, <2>4 DEF Whole
  <2> QED BY <2>1, <2>4 DEF WholeInv
<1> QED
  BY <1>1, <1>2, <1>3, <1>4, <1>5, <1>6, <1>7, <1>8, <1>9 DEF Next, Service, Operator

-----------------------------------------------------------------------------
(* What rests at the broker is tracked                                     *)

\* What the service writes is written, it does not die between placing an order
\* and persisting it, and nobody rejects the fill of an order that fills in
\* pieces.
OrdersAreWritten ==
    /\ CrashPoints \cap {"submitting", "ran", "recorded"} = {}
    /\ {"disk", "state_store"} \cap Faults = {}
    /\ ~({"pieces", "reject"} \subseteq Faults)

\* The points at which the disk has every order the broker may be resting.
Persisted == {"idle", "synced", "resolving", "down"}

RestInv ==
    /\ \A o \in DOMAIN disk.orders : ~Terminal(disk.orders[o])
    /\ WholeInv
    /\ pc # "down" => OpenAtBroker \subseteq Pending
    /\ pc \in Persisted => OpenAtBroker \subseteq DOMAIN disk.orders

\* A step that changes neither the orders nor the broker.
LEMMA IdleStepKeepsRest ==
    ASSUME RestInv, UNCHANGED <<orders, items, disk, broker>>,
           pc # "down", pc' # "down", pc' \in Persisted => pc \in Persisted
    PROVE  RestInv'
<1>1. Pending' = Pending /\ OpenAtBroker' = OpenAtBroker
  BY DEF Pending, OpenAtBroker
<1> QED BY <1>1 DEF RestInv, WholeInv

\* _persist: the snapshot of the orders in flight.
LEMMA SnapshotKeepsRest ==
    ASSUME RestInv, disk' = Snapshot', pc' # "down",
           OpenAtBroker' \subseteq Pending', WholeInv'
    PROVE  RestInv'
<1>1. /\ disk'.orders = [o \in Pending' |-> orders'[o]]
      /\ DOMAIN disk'.orders = Pending'
  BY DEF Snapshot
<1>2. Pending' \subseteq DOMAIN orders' /\ \A o \in Pending' : ~Terminal(orders'[o])
  BY DEF Pending
<1>3. \A o \in DOMAIN disk'.orders : ~Terminal(disk'.orders[o])
  BY <1>1, <1>2
<1> QED BY <1>1, <1>3 DEF RestInv

\* The broker's word for a resting order never ends it.
LEMMA OpenIsNotOver ==
    ASSUME NEW o, NEW reported, broker[o].open, broker[o].filled \in Nat,
           NEW s \in OrderStatus, s \notin TerminalStates
    PROVE  ResyncStatus(s, TruthOf(reported, o)) \notin TerminalStates
<1>1. TruthOf(reported, o) \in
        {"RECONCILIATION_HOLD", "WORKING", "PARTIALLY_FILLED", "NO_RECORD"}
  <2>1. BrokerStatus(o) \in {"WORKING", "PARTIALLY_FILLED"}
    BY DEF BrokerStatus
  <2> QED BY <2>1 DEF TruthOf
<1> QED BY <1>1 DEF ResyncStatus, TerminalStates

LEMMA ResyncKeepsRest ==
    ASSUME StackInv, AccountInv, RestInv, WholeInv', NEW read \in Reads, Resync(read)
    PROVE  RestInv'
<1>1. UNCHANGED <<disk, broker>> /\ pc = "idle" /\ pc' = "synced"
  BY DEF Resync, brokerVars
<1>2. CASE read.kind = "raised"
  BY <1>1, <1>2, IdleStepKeepsRest DEF Resync, Persisted
<1>3. CASE read.kind # "raised"
  <2> DEFINE reported == read.ids
  <2>1. ApplyTruth(reported) /\ reported \in SUBSET DOMAIN broker
    BY <1>3 DEF Resync, Reads, Answers, Failures, Reported, Listable, OpenAtBroker
  <2>2. /\ DOMAIN orders' = DOMAIN orders
        /\ \A o \in DOMAIN orders :
              orders'[o].status = ResyncStatus(orders[o].status, TruthOf(reported, o))
    BY <2>1, ApplyTruthFields DEF AccountInv
  <2>3. \A o \in DOMAIN orders : orders[o].status \in OrderStatus
    BY StatusesAreStatuses DEF StackInv, Settled
  <2>4. \A o \in DOMAIN broker : broker[o].filled \in Nat
    BY DEF AccountInv, Books, BrokerOK
  <2> HIDE DEF reported
  <2>5. OpenAtBroker' \subseteq Pending'
    <3> SUFFICES ASSUME NEW o \in OpenAtBroker
                 PROVE  o \in Pending'
      BY <1>1 DEF OpenAtBroker
    <3>1. o \in DOMAIN orders /\ orders[o].status \notin TerminalStates
      BY <1>1 DEF RestInv, Pending, Terminal
    <3>2. broker[o].open /\ broker[o].filled \in Nat
      BY <2>4 DEF OpenAtBroker
    <3>3. orders'[o].status \notin TerminalStates
      BY <2>2, <2>3, <3>1, <3>2, OpenIsNotOver
    <3> QED BY <2>2, <3>1, <3>3 DEF Pending, Terminal
  <2>6. OpenAtBroker' = OpenAtBroker
    BY <1>1 DEF OpenAtBroker
  <2> QED BY <1>1, <2>5, <2>6 DEF RestInv, Persisted
<1> QED BY <1>2, <1>3

\* OrderManager.place: what the broker rests, the service has just recorded.
LEMMA SubmitKeepsRest ==
    ASSUME AccountInv, RestInv, WholeInv', Submit
    PROVE  RestInv'
<1>1. PICK p \in todo, r \in OrderRecords :
          /\ Placed(p, r) /\ r.approved = p.qty /\ r.filled <= p.qty
          /\ r.filled # p.qty => ~Terminal(r)
  BY SubmitPlaces
<1> DEFINE o == p.id
<1>2. pc = "submitting" /\ pc' = pc /\ disk' = disk /\ o \notin Known
  BY <1>1, PlacedIsNew
<1>3. /\ DOMAIN orders' = DOMAIN orders \cup {o} /\ orders'[o] = r
      /\ \A x \in DOMAIN orders : x # o => orders'[x] = orders[x]
      /\ DOMAIN broker' \subseteq DOMAIN broker \cup {o}
      /\ \A x \in DOMAIN broker : broker'[x] = broker[x]
      /\ o \in DOMAIN broker' => broker'[o].qty = p.qty /\ broker'[o].filled = r.filled
      /\ BrokerOK(broker')
  BY <1>1, PlacedFields
<1> HIDE DEF o
<1>4. o \in OpenAtBroker' => r.filled # p.qty
  BY <1>3 DEF OpenAtBroker, BrokerOK, Shares
<1>5. OpenAtBroker' \subseteq Pending'
  <2> SUFFICES ASSUME NEW x \in OpenAtBroker'
               PROVE  x \in Pending'
    OBVIOUS
  <2>1. CASE x = o
    BY <1>1, <1>3, <1>4, <2>1 DEF Pending
  <2>2. CASE x # o
    <3>1. x \in OpenAtBroker
      BY <1>3, <2>2 DEF OpenAtBroker
    <3>2. x \in Pending
      BY <1>2, <3>1 DEF RestInv
    <3> QED BY <1>3, <2>2, <3>2 DEF Pending
  <2> QED BY <2>1, <2>2
<1> QED BY <1>2, <1>5 DEF RestInv, Persisted

\* prune_terminal evicts finished orders only.
LEMMA FinishOrdersKeepsRest ==
    ASSUME RestInv, WholeInv', FinishOrders
    PROVE  RestInv'
<1>1. /\ UNCHANGED <<items, disk, broker>> /\ pc = "submitting" /\ pc' = "ran"
  BY DEF FinishOrders, brokerVars
<1>2. PICK kept \in SUBSET TerminalOrders : orders' = [o \in Pending \cup kept |-> orders[o]]
  BY DEF FinishOrders
<1>3. Pending \subseteq Pending'
  BY <1>2 DEF Pending, TerminalOrders
<1>4. OpenAtBroker' = OpenAtBroker
  BY <1>1 DEF OpenAtBroker
<1> QED BY <1>1, <1>3, <1>4 DEF RestInv, Persisted

\* The write of loop_state.json, which does not raise.
LEMMA PersistKeepsRest ==
    ASSUME OrdersAreWritten, RestInv, WholeInv', Persist
    PROVE  RestInv'
<1>1. UNCHANGED <<orders, items, broker>> /\ pc = "recorded" /\ pc' = "idle"
  BY DEF Persist, memory, brokerVars
<1>2. disk' = Snapshot'
  BY DEF Persist, Snapshot, Pending, OrdersAreWritten, memory
<1>3. Pending' = Pending /\ OpenAtBroker' = OpenAtBroker
  BY <1>1 DEF Pending, OpenAtBroker
<1> QED BY <1>1, <1>2, <1>3, SnapshotKeepsRest DEF RestInv

\* Close leaves an order that rests at the broker in flight.
LEMMA CloseKeepsRest ==
    ASSUME OrdersAreWritten, RestInv, WholeInv', pc # "down", NEW i \in items, NEW state,
           NEW settled, Close(i, state, settled), UNCHANGED broker,
           i.order \in OpenAtBroker => ~Terminal(settled)
    PROVE  RestInv'
<1>1. /\ orders' = [x \in DOMAIN orders |-> IF x = i.order THEN settled ELSE orders[x]]
      /\ pc' = "idle" /\ disk' = Snapshot'
  BY DEF Close, OrdersAreWritten
<1>2. OpenAtBroker' = OpenAtBroker
  BY DEF OpenAtBroker
<1>3. OpenAtBroker' \subseteq Pending'
  <2>1. OpenAtBroker \subseteq Pending
    BY DEF RestInv
  <2> QED BY <1>1, <1>2, <2>1 DEF Pending
<1> QED BY <1>1, <1>3, SnapshotKeepsRest

\* book_reconciled_fill ends an order the broker filled completely, and so does
\* cancel_reconciled_order when nothing fills in pieces.
LEMMA ResolveKeepsRest ==
    ASSUME OrdersAreWritten, StackInv, AccountInv, RestInv, WholeInv',
           FinishAccept \/ \E i \in items : Reject(i)
    PROVE  RestInv'
<1>1. BrokerOK(broker) /\ Agrees(orders, broker)
  BY DEF AccountInv, Books, Book, BookType
<1>2. ASSUME NEW i
      PROVE  i.order \in DOMAIN orders =>
               /\ orders[i.order] \in OrderRecords
               /\ orders[i.order].status \in ResubmitBlockingStates \cup TerminalStates
  BY DEF AccountInv, Books, Book, BookType, StackInv, Settled
<1>3. \A o \in OpenAtBroker :
          /\ o \in DOMAIN broker /\ broker[o].filled \in Nat /\ broker[o].qty \in Nat
          /\ broker[o].filled < broker[o].qty
  BY <1>1 DEF OpenAtBroker, BrokerOK, Shares
<1>4. CASE FinishAccept
  <2>1. PICK i \in resolving : Close(i, "ACCEPTED", BookReconciled(orders[i.order]))
    BY <1>4 DEF FinishAccept
  <2>2. UNCHANGED broker /\ pc = "resolving"
    BY <1>4 DEF FinishAccept, brokerVars
  <2>3. i \in items
    BY <2>2 DEF AccountInv, PcInv
  <2>4. ASSUME i.order \in OpenAtBroker
        PROVE  ~Terminal(BookReconciled(orders[i.order]))
    <3> DEFINE r == orders[i.order]
    <3>1. i.order \in Pending
      BY <2>2, <2>4 DEF RestInv
    <3>2. r \in OrderRecords /\ r.status \notin TerminalStates
      BY <1>2, <3>1 DEF Pending, Terminal
    <3>3. ~(r.filled >= r.approved)
      <4>1. r.approved = broker[i.order].qty /\ r.filled <= broker[i.order].filled
        BY <1>1, <1>3, <2>4, <3>1 DEF Pending, Agrees
      <4>2. r.filled \in Nat
        BY <3>2 DEF OrderRecords
      <4> QED BY <1>3, <2>4, <4>1, <4>2
    <3> HIDE DEF r
    <3>4. FillStatus(r, r.filled) \in {"PARTIALLY_FILLED", r.status}
      BY <3>3 DEF FillStatus
    <3>5. FillStatus(r, r.filled) \notin TerminalStates
      BY <3>2, <3>4 DEF TerminalStates
    <3>6. FillStatus(r, r.filled) \in OrderStatus
      BY <3>2, <3>4 DEF OrderRecords, OrderStatus, ResubmitBlockingStates
    <3>7. BookReconciled(r).status = FillStatus(r, r.filled)
      BY <3>2, <3>6, MovedFields DEF BookReconciled
    <3> QED BY <3>5, <3>7 DEF Terminal, r
  <2> QED BY <2>1, <2>2, <2>3, <2>4, CloseKeepsRest
<1>5. ASSUME NEW i \in items, Reject(i)
      PROVE  RestInv'
  <2>1. /\ pc = "idle" /\ UNCHANGED broker /\ "reject" \in Faults
        /\ Close(i, "REJECTED", CancelReconciled(orders[i.order]))
    BY <1>5 DEF Reject, brokerVars
  <2>2. broker[i.order].filled = broker[i.order].qty
    BY <2>1 DEF OrdersAreWritten, RestInv, WholeInv, Whole
  <2>3. i.order \notin OpenAtBroker
    BY <1>3, <2>2
  <2> QED BY <2>1, <2>3, CloseKeepsRest
<1> QED BY <1>4, <1>5

\* A crash leaves what the disk has, and a restart restores it all.
LEMMA CrashKeepsRest ==
    ASSUME OrdersAreWritten, AccountInv, RestInv, WholeInv', Crash
    PROVE  RestInv'
<1>1. UNCHANGED <<disk, broker>> /\ pc' = "down" /\ pc \in CrashPoints
  BY DEF Crash, brokerVars
<1>2. OpenAtBroker \subseteq DOMAIN disk.orders
  BY <1>1 DEF OrdersAreWritten, Persisted, RestInv, AccountInv, LoopTypeOK, Points
<1>3. OpenAtBroker' = OpenAtBroker
  BY <1>1 DEF OpenAtBroker
<1> QED BY <1>1, <1>2, <1>3 DEF RestInv

LEMMA StartKeepsRest ==
    ASSUME AccountInv, RestInv, WholeInv', Start
    PROVE  RestInv'
<1>1. UNCHANGED <<disk, broker>> /\ pc = "down"
  BY DEF Start
<1>2. orders' = disk.orders
  BY StartRestores
<1>3. Pending' = DOMAIN disk.orders
  BY <1>2 DEF RestInv, Pending
<1>4. OpenAtBroker' = OpenAtBroker /\ OpenAtBroker \subseteq DOMAIN disk.orders
  BY <1>1 DEF RestInv, Persisted, OpenAtBroker
<1> QED BY <1>1, <1>2, <1>3, <1>4 DEF RestInv

LEMMA EnvironmentKeepsRest ==
    ASSUME AccountInv, RestInv, WholeInv', Environment
    PROVE  RestInv'
<1>1. BrokerNext /\ UNCHANGED <<pc, orders, items, disk>>
  BY DEF Environment, memory
<1>2. OpenAtBroker' \subseteq OpenAtBroker
  BY <1>1, BrokerNextFills DEF AccountInv, Books
<1>3. Pending' = Pending
  BY <1>1 DEF Pending
<1> QED BY <1>1, <1>2, <1>3 DEF RestInv

\* Every step keeps the disk and the orders in flight ahead of the broker.
LEMMA NextKeepsRest ==
    ASSUME OrdersAreWritten, StackInv, AccountInv, RestInv, [Next]_vars
    PROVE  RestInv'
<1>0. WholeInv'
  BY NextKeepsWhole DEF RestInv
<1>1. CASE SkipResync \/ PriceFails \/ PlanNothing \/ RecordCycle
  <2>1. /\ UNCHANGED <<orders, items, disk, broker>>
        /\ pc # "down" /\ pc' # "down"
        /\ pc' \in Persisted => pc \in Persisted
    BY <1>1 DEF SkipResync, PriceFails, PlanNothing, RecordCycle, memory, brokerVars, Persisted
  <2> QED BY <2>1, IdleStepKeepsRest
<1>2. CASE StateStoreFails
  BY <1>2 DEF StateStoreFails, OrdersAreWritten
<1>3. CASE \E read \in Reads : Resync(read)
  BY <1>0, <1>3, ResyncKeepsRest
<1>4. CASE PlanSome
  <2>1. /\ UNCHANGED <<orders, items, disk, broker>> /\ pc = "synced" /\ pc' = "submitting"
    BY <1>4 DEF PlanSome, Plan, brokerVars
  <2> QED BY <2>1, IdleStepKeepsRest DEF Persisted
<1>5. CASE Submit
  BY <1>0, <1>5, SubmitKeepsRest
<1>6. CASE FinishOrders
  BY <1>0, <1>6, FinishOrdersKeepsRest
<1>7. CASE Persist
  BY <1>0, <1>7, PersistKeepsRest
<1>8. CASE \E i \in items : Accept(i) \/ AcceptUnaudited(i)
  <2>1. /\ UNCHANGED <<orders, items, disk, broker>>
        /\ pc = "idle" /\ pc' \in {"idle", "resolving"}
    BY <1>8 DEF Accept, AcceptUnaudited, memory, brokerVars
  <2> QED BY <2>1, IdleStepKeepsRest DEF Persisted
<1>9. CASE FinishAccept \/ \E i \in items : Reject(i)
  BY <1>0, <1>9, ResolveKeepsRest
<1>10. CASE Crash
  BY <1>0, <1>10, CrashKeepsRest
<1>11. CASE Start
  BY <1>0, <1>11, StartKeepsRest
<1>12. CASE Environment
  BY <1>0, <1>12, EnvironmentKeepsRest
<1>13. CASE StartRefused \/ UNCHANGED vars
  <2>1. UNCHANGED <<pc, orders, items, disk, broker>>
    BY <1>13 DEF StartRefused, vars, memory, brokerVars
  <2>2. Pending' = Pending /\ OpenAtBroker' = OpenAtBroker
    BY <2>1 DEF Pending, OpenAtBroker
  <2> QED BY <1>0, <2>1, <2>2 DEF RestInv
<1> QED
  BY <1>1, <1>2, <1>3, <1>4, <1>5, <1>6, <1>7, <1>8, <1>9, <1>10, <1>11, <1>12, <1>13
  DEF Next, Service, Operator

LEMMA RestInvEver ==
    ASSUME OrdersAreWritten
    PROVE  Spec => [](StackInv /\ AccountInv /\ RestInv)
<1>1. Init => RestInv
  <2> SUFFICES ASSUME Init PROVE RestInv
    OBVIOUS
  <2>1. /\ orders = NoOrders /\ items = {} /\ disk.orders = NoOrders /\ disk.items = {}
        /\ broker = NoOrders /\ DOMAIN NoOrders = {}
    BY DEF Init, Blank, BrokerInit, NoOrders
  <2> QED BY <2>1 DEF RestInv, WholeInv, Whole, OpenAtBroker
<1>2. StackInv /\ AccountInv /\ RestInv /\ [Next]_vars => RestInv'
  BY NextKeepsRest
<1> QED BY <1>1, <1>2, AccountInvEver, PTL DEF Spec

\* LoopState.open_orders: where the service writes what it sends before it can
\* die, an order that rests at the broker is never forgotten, whatever the
\* broker answers, fills, loses or fails to report.
THEOREM RestingIsTrackedEver ==
    ASSUME OrdersAreWritten
    PROVE  Spec => []RestingIsTracked
<1>1. RestInv => RestingIsTracked
  BY DEF RestInv, RestingIsTracked
<1> QED BY <1>1, RestInvEver, PTL
-----------------------------------------------------------------------------
(* The durable ledger lies between the held book and the broker            *)

\* No append is lost: none raises, nothing ends a cycle between booking its
\* fills and appending them, and a resting order fills in one piece, so that an
\* order has one reconciliation at most.  The process may die at any point, and
\* the write of loop_state.json may raise.
AppendsSucceed == {"ledger", "state_store", "pieces"} \cap Faults = {}

\* The orders of which the ledger has a reconciliation.
Reconciled == {id[1] : id \in ledger.ids}

\* What record_cycle has yet to append, and the ledger once it has what the held
\* book has.
FillOf(o) == IF o \in DOMAIN fills THEN fills[o] ELSE 0
Due == [o \in OrderIds |-> ledger.qty[o] + IF pc = "ran" THEN FillOf(o) ELSE 0]

\* A book has no more of an order without a reconciliation than is due.  Of one
\* it still tracks or has an item of it has exactly that, and the item asks for
\* the rest of what the broker filled.
InStep(os, bk, its, due, done) ==
    \A o \in OrderIds \ done :
        /\ bk[o] <= due[o]
        /\ o \in DOMAIN os => bk[o] = due[o]
        /\ \A i \in its : i.order = o => bk[o] = due[o] /\ bk[o] + i.delta = i.upTo

LedgerInv ==
    /\ pc # "down" => journal.ids = ledger.ids
    /\ \A id \in ledger.ids :
          /\ id[1] \in DOMAIN broker /\ id[2] = broker[id[1]].qty
          /\ broker[id[1]].filled = id[2] /\ ledger.qty[id[1]] = id[2]
    /\ \A o \in OrderIds : ledger.qty[o] + FillOf(o) <= FilledIn(broker, o)
    /\ InStep(orders, booked, items, Due, Reconciled)
    /\ InStep(disk.orders, disk.booked, disk.items, ledger.qty, Reconciled)
    /\ \A o \in DOMAIN fills : /\ o \notin DOMAIN disk.orders
                               /\ \A i \in items \cup disk.items : i.order # o
    /\ \A i \in resolving : <<i.order, i.upTo>> \in ledger.ids

\* The ledger's quantities, and what of this cycle is not on it yet.
LEMMA DueIsTyped ==
    ASSUME LoopTypeOK
    PROVE  /\ ledger.qty \in [OrderIds -> Nat] /\ \A o \in OrderIds : FillOf(o) \in Nat
           /\ pc # "ran" \/ DOMAIN fills = {} => Due = ledger.qty
<1>1. ledger.qty \in [OrderIds -> Nat] /\ \A o \in OrderIds : FillOf(o) \in Nat
  BY DEF LoopTypeOK, FillOf, Shares
<1>2. ASSUME pc # "ran" \/ DOMAIN fills = {}
      PROVE  \A o \in OrderIds : Due[o] = ledger.qty[o]
  BY <1>1, <1>2 DEF Due, FillOf
<1> QED BY <1>1, <1>2 DEF Due

LEMMA NothingDueNext ==
    ASSUME LoopTypeOK', pc' # "ran" \/ DOMAIN fills' = {}
    PROVE  Due' = ledger'.qty
<1>1. ledger'.qty \in [OrderIds -> Nat]
  BY DEF LoopTypeOK
<1>2. Due' = [o \in OrderIds |-> ledger'.qty[o] + IF pc' = "ran" THEN FillOf(o)' ELSE 0]
  BY DEF Due
<1>3. \A o \in OrderIds : Due'[o] = ledger'.qty[o]
  BY <1>1, <1>2 DEF FillOf
<1> QED BY <1>1, <1>2, <1>3

\* Orders may leave and items change in their state alone; more may be reconciled.
LEMMA FewerInStep ==
    ASSUME NEW os, NEW kept, NEW bk, NEW its, NEW same, NEW due, NEW done, NEW more,
           InStep(os, bk, its, due, done), DOMAIN kept \subseteq DOMAIN os, done \subseteq more,
           \A j \in same : \E i \in its : /\ j.order = i.order /\ j.upTo = i.upTo
                                          /\ j.delta = i.delta
    PROVE  InStep(kept, bk, same, due, more)
  BY DEF InStep

\* An audit note adds no quantity and no id.
LEMMA NoteAddsNothing ==
    ASSUME AppendsSucceed, LoopTypeOK, Noted \/ UNCHANGED audit
    PROVE  /\ ledger'.qty = ledger.qty /\ ledger'.ids = ledger.ids
           /\ journal'.ids = journal.ids
<1>1. CASE UNCHANGED audit
  BY <1>1 DEF audit
<1>2. CASE Noted
  <2>1. Appended(NothingYet, {})
    BY <1>2 DEF Noted, AppendRaises, AppendsSucceed
  <2>2. /\ ledger'.qty = [o \in OrderIds |-> ledger.qty[o] + NothingYet[o]]
        /\ ledger'.ids = ledger.ids \cup {}
    BY <2>1 DEF Appended
  <2>3. journal'.ids = journal.ids \cup {}
    BY <2>1 DEF Appended, LoopTypeOK
  <2>4. [o \in OrderIds |-> ledger.qty[o] + NothingYet[o]] = ledger.qty
    <3>1. ledger.qty \in [OrderIds -> Nat]
      BY DEF LoopTypeOK
    <3>2. \A o \in OrderIds : ledger.qty[o] + NothingYet[o] = ledger.qty[o]
      BY <3>1 DEF NothingYet
    <3> QED BY <3>1, <3>2
  <2> QED BY <2>2, <2>3, <2>4
<1> QED BY <1>1, <1>2

\* A step between cycles or at their edge, that appends nothing but notes.
LEMMA LedgerStays ==
    ASSUME LedgerInv, AccountInv, AccountInv', UNCHANGED broker,
           ledger'.qty = ledger.qty, ledger'.ids = ledger.ids,
           pc' # "down" => journal'.ids = ledger.ids,
           DOMAIN fills' = {}, Due' = ledger.qty,
           InStep(orders', booked', items', ledger.qty, Reconciled),
           InStep(disk'.orders, disk'.booked, disk'.items, ledger.qty, Reconciled),
           \A i \in resolving' : <<i.order, i.upTo>> \in ledger.ids
    PROVE  LedgerInv'
<1>1. \A o \in OrderIds : ledger'.qty[o] + FillOf(o)' <= FilledIn(broker', o)
  <2>1. \A o \in OrderIds : /\ ledger.qty[o] \in Nat /\ FillOf(o) \in Nat /\ FillOf(o)' = 0
                            /\ FilledIn(broker, o) \in Nat
    BY DueIsTyped DEF FillOf, AccountInv, Books, BrokerOK, FilledIn
  <2> QED BY <2>1 DEF LedgerInv
<1>2. Reconciled' = Reconciled
  BY DEF Reconciled
<1> QED BY <1>1, <1>2 DEF LedgerInv

\* A step that books nothing, appends nothing and persists nothing.
LEMMA QuietStepKeepsLedger ==
    ASSUME LedgerInv, AccountInv, AccountInv',
           UNCHANGED <<orders, booked, items, resolving, disk, ledger, journal, fills, broker>>,
           pc # "down", pc' # "down",
           pc = pc' \/ DOMAIN fills = {} \/ (pc # "ran" /\ pc' # "ran")
    PROVE  LedgerInv'
<1>1. Due' = Due
  BY DueIsTyped DEF AccountInv, Due, FillOf
<1>2. Reconciled' = Reconciled /\ \A o : FillOf(o)' = FillOf(o)
  BY DEF Reconciled, FillOf
<1> QED BY <1>1, <1>2 DEF LedgerInv

\* resync: what it discovers is not on the ledger, or is of an order whose one
\* reconciliation is.
LEMMA ResyncKeepsLedger ==
    ASSUME AppendsSucceed, StackInv, AccountInv, AccountInv', WholeInv, LedgerInv,
           NEW read \in Reads, Resync(read)
    PROVE  LedgerInv'
<1>1. /\ UNCHANGED <<booked, resolving, disk, broker, fills>> /\ pc = "idle" /\ pc' = "synced"
      /\ Noted \/ UNCHANGED audit
  BY DEF Resync, brokerVars
<1>2. /\ ledger'.qty = ledger.qty /\ ledger'.ids = ledger.ids /\ journal'.ids = journal.ids
  BY <1>1, NoteAddsNothing DEF AccountInv
<1>3. DOMAIN fills = {} /\ Due = ledger.qty /\ Due' = ledger.qty
  BY <1>1, <1>2, DueIsTyped, NothingDueNext DEF AccountInv, PcInv
<1>4. InStep(orders, booked, items, ledger.qty, Reconciled)
  BY <1>3 DEF LedgerInv
<1>5. InStep(orders', booked, items', ledger.qty, Reconciled)
  <2>1. CASE read.kind = "raised"
    BY <1>4, <2>1 DEF Resync
  <2>2. CASE read.kind # "raised"
    <3> DEFINE found == Discovered(read.ids)
    <3>1. ApplyTruth(read.ids) /\ read.ids \in SUBSET DOMAIN broker
      BY <2>2 DEF Resync, Reads, Answers, Failures, Reported, Listable, OpenAtBroker
    <3>2. /\ DOMAIN orders' = DOMAIN orders
          /\ items' = items \cup {Discovery(orders, broker, o) : o \in found}
          /\ found \in SUBSET (DOMAIN orders \cap DOMAIN broker)
      BY <3>1, ApplyTruthFields DEF AccountInv
    <3>3. ASSUME NEW o \in found
          PROVE  /\ o \in OrderIds /\ booked[o] = orders[o].filled
                 /\ orders[o].filled \in Nat /\ broker[o].filled \in Nat
      <4>1. /\ o \in OrderIds /\ o \in DOMAIN orders /\ o \in DOMAIN broker
            /\ broker[o].filled > orders[o].filled /\ broker[o].filled <= broker[o].qty
            /\ broker[o].filled \in Nat /\ broker[o].qty \in Nat
            /\ orders[o].filled \in Nat
        BY <3>2 DEF Discovered, AccountInv, Books, BrokerOK, Book, BookType, OrderRecords, Shares
      <4>2. ItemsOf(items, o, {"OPEN", "REJECTED"}) = {}
        <5> SUFFICES ASSUME NEW i \in items, i.order = o PROVE FALSE
          BY DEF ItemsOf
        <5>1. i.upTo = broker[o].qty /\ i.upTo <= orders[o].filled
          BY <4>1 DEF WholeInv, AppendsSucceed, Whole, AccountInv, Books, Book, ItemsAreSane
        <5> QED BY <4>1, <5>1
      <4>3. DeltaOf(items, o, {"OPEN", "REJECTED"}) = 0 /\ Late[o] = 0
        BY <1>1, <4>1, <4>2, NoItemsNoDelta DEF Late
      <4>4. orders[o].filled = booked[o] + DeltaOf(items, o, {"OPEN", "REJECTED"}) + Late[o]
        BY <4>1 DEF AccountInv, Books, Book, Balanced
      <4>5. booked[o] \in Nat
        BY <4>1 DEF AccountInv, Books, Book, BookType
      <4> QED BY <4>1, <4>3, <4>4, <4>5
    <3>4. \A o \in found : /\ Discovery(orders, broker, o).order = o
                           /\ Discovery(orders, broker, o).upTo = broker[o].filled
                           /\ Discovery(orders, broker, o).delta = broker[o].filled - orders[o].filled
      BY DEF Discovery
    <3> HIDE DEF found
    <3>5. \A o \in found :
              booked[o] + Discovery(orders, broker, o).delta = Discovery(orders, broker, o).upTo
      BY <3>3, <3>4
    <3> QED BY <1>4, <3>2, <3>4, <3>5 DEF InStep
  <2> QED BY <2>1, <2>2
<1> QED BY <1>1, <1>2, <1>3, <1>5, LedgerStays DEF LedgerInv

\* OrderManager.place: nothing is due of an order nobody had sent.
LEMMA SubmitKeepsLedger ==
    ASSUME AccountInv, AccountInv', LedgerInv, Submit
    PROVE  LedgerInv'
<1>1. PICK p \in todo, r \in OrderRecords :
          Placed(p, r) /\ r.approved = p.qty /\ r.filled <= p.qty
  BY SubmitPlaces
<1> DEFINE o == p.id
<1>2. /\ UNCHANGED <<pc, booked, items, resolving, disk, ledger, journal>>
      /\ pc = "submitting" /\ o \notin Known
      /\ \A i \in items \cup disk.items : i.order # o
  BY <1>1, PlacedIsNew
<1>3. /\ o \in OrderIds /\ r.filled \in Nat /\ booked[o] = 0
      /\ DOMAIN orders' = DOMAIN orders \cup {o}
      /\ DOMAIN broker \subseteq DOMAIN broker'
      /\ \A x \in DOMAIN broker : broker'[x] = broker[x]
      /\ o \in DOMAIN broker' => broker'[o].filled = r.filled
      /\ o \notin DOMAIN broker' => r.filled = 0
      /\ DOMAIN broker' \subseteq DOMAIN broker \cup {o}
  BY <1>1, PlacedFields
<1>4. /\ DOMAIN fills' \subseteq DOMAIN fills \cup {o}
      /\ \A x \in OrderIds : FillOf(x)' = IF x = o THEN r.filled ELSE FillOf(x)
  <2>1. Late' [o] = r.filled /\ \A x \in OrderIds : x # o => Late'[x] = Late[x]
    BY <1>1, PlacedFields
  <2>2. \A x \in OrderIds : Late[x] = FillOf(x) /\ Late'[x] = FillOf(x)'
    BY <1>2 DEF Late, FillOf
  <2>3. DOMAIN fills' \subseteq DOMAIN fills \cup {o}
    BY <1>1 DEF Placed
  <2> QED BY <1>3, <2>1, <2>2, <2>3
<1> HIDE DEF o
<1>5. ledger.qty \in [OrderIds -> Nat] /\ \A x \in OrderIds : FillOf(x) \in Nat
  BY DueIsTyped DEF AccountInv
<1>6. Due = ledger.qty /\ Due' = ledger.qty /\ Reconciled' = Reconciled
  BY <1>2, DueIsTyped, NothingDueNext DEF AccountInv, Reconciled
<1>7. ledger.qty[o] = 0
  <2>1. FilledIn(broker, o) = 0 /\ ledger.qty[o] + FillOf(o) <= FilledIn(broker, o)
    BY <1>2, <1>3 DEF Known, FilledIn, LedgerInv
  <2> QED BY <1>3, <1>5, <2>1
<1>8. \A x \in OrderIds : ledger.qty[x] + FillOf(x)' <= FilledIn(broker', x)
  <2> SUFFICES ASSUME NEW x \in OrderIds
               PROVE  ledger.qty[x] + FillOf(x)' <= FilledIn(broker', x)
    OBVIOUS
  <2>1. CASE x = o
    <3>1. FillOf(x)' = r.filled /\ ledger.qty[x] = 0 /\ FilledIn(broker', x) = r.filled
      BY <1>3, <1>4, <1>7, <2>1 DEF FilledIn
    <3> QED BY <1>3, <3>1
  <2>2. CASE x # o
    <3>1. FillOf(x)' = FillOf(x) /\ FilledIn(broker', x) = FilledIn(broker, x)
      BY <1>3, <1>4, <2>2 DEF FilledIn
    <3> QED BY <3>1 DEF LedgerInv
  <2> QED BY <2>1, <2>2
<1>9. InStep(orders', booked, items, ledger.qty, Reconciled)
  <2>1. InStep(orders, booked, items, ledger.qty, Reconciled)
    BY <1>6 DEF LedgerInv
  <2> QED BY <1>3, <1>7, <2>1 DEF InStep
<1>10. \A x \in DOMAIN fills' : /\ x \notin DOMAIN disk.orders
                                /\ \A i \in items \cup disk.items : i.order # x
  BY <1>2, <1>4 DEF LedgerInv, Known
<1>11. \A id \in ledger.ids : broker'[id[1]] = broker[id[1]] /\ id[1] \in DOMAIN broker'
  BY <1>3 DEF LedgerInv
<1> QED BY <1>2, <1>6, <1>8, <1>9, <1>10, <1>11 DEF LedgerInv

\* The end of STEP 12 books the fills of this cycle, and so runs ahead.
LEMMA FinishOrdersKeepsLedger ==
    ASSUME AccountInv, LedgerInv, FinishOrders
    PROVE  LedgerInv'
<1>1. /\ UNCHANGED <<items, fills, resolving, disk, broker, ledger, journal>>
      /\ pc = "submitting" /\ pc' = "ran"
      /\ \A o \in OrderIds : booked'[o] = booked[o] + FillOf(o)
      /\ DOMAIN orders' \subseteq DOMAIN orders
  BY DEF FinishOrders, brokerVars, audit, FillOf, Pending, TerminalOrders
<1>2. /\ ledger.qty \in [OrderIds -> Nat] /\ \A o \in OrderIds : FillOf(o) \in Nat
      /\ booked \in [OrderIds -> Nat]
      /\ Due = ledger.qty
  BY <1>1, DueIsTyped DEF AccountInv, Books, Book, BookType
<1>3. Reconciled' = Reconciled /\ \A o \in OrderIds : FillOf(o)' = FillOf(o)
  BY <1>1 DEF Reconciled, FillOf
<1>4. \A o \in OrderIds : Due'[o] = ledger.qty[o] + FillOf(o)
  BY <1>1, <1>3 DEF Due
<1>5. \A i \in items : FillOf(i.order) = 0
  BY DEF LedgerInv, FillOf
<1>6. InStep(orders', booked', items, Due', Reconciled)
  <2> SUFFICES ASSUME NEW o \in OrderIds \ Reconciled
               PROVE  /\ booked'[o] <= Due'[o]
                      /\ o \in DOMAIN orders' => booked'[o] = Due'[o]
                      /\ \A i \in items : i.order = o =>
                            booked'[o] = Due'[o] /\ booked'[o] + i.delta = i.upTo
    BY DEF InStep
  <2>1. /\ booked[o] <= ledger.qty[o]
        /\ o \in DOMAIN orders => booked[o] = ledger.qty[o]
        /\ \A i \in items : i.order = o => booked[o] = ledger.qty[o] /\ booked[o] + i.delta = i.upTo
    BY <1>2 DEF LedgerInv, InStep
  <2>2. /\ booked'[o] = booked[o] + FillOf(o) /\ Due'[o] = ledger.qty[o] + FillOf(o)
        /\ booked[o] \in Nat /\ ledger.qty[o] \in Nat /\ FillOf(o) \in Nat
    BY <1>1, <1>2, <1>4
  <2>3. ASSUME NEW i \in items, i.order = o
        PROVE  booked'[o] = booked[o]
    BY <1>5, <2>2, <2>3
  <2> QED BY <1>1, <2>1, <2>2, <2>3
<1> QED BY <1>1, <1>3, <1>6 DEF LedgerInv

\* record_cycle appends them, and the trail has caught up.
LEMMA RecordCycleKeepsLedger ==
    ASSUME AppendsSucceed, AccountInv, AccountInv', LedgerInv, RecordCycle
    PROVE  LedgerInv'
<1>1. /\ UNCHANGED <<orders, booked, items, resolving, disk, broker>>
      /\ pc = "ran" /\ pc' = "recorded" /\ fills' = NoOrders
      /\ Appended([o \in OrderIds |-> FillOf(o)], {})
  BY DEF RecordCycle, brokerVars, FillOf, RecordPart, AppendsSucceed
<1>2. /\ ledger'.qty = [o \in OrderIds |-> ledger.qty[o] + FillOf(o)]
      /\ ledger'.ids = ledger.ids \cup {}
  BY <1>1 DEF Appended
<1>3. journal'.ids = journal.ids \cup {}
  BY <1>1 DEF Appended, AccountInv, LoopTypeOK
<1>4. ledger'.qty = Due
  BY <1>1, <1>2 DEF Due
<1>5. DOMAIN fills' = {} /\ Due' = ledger'.qty /\ \A o \in OrderIds : FillOf(o)' = 0
  BY <1>1, NothingDueNext DEF NoOrders, AccountInv, FillOf
<1>6. Reconciled' = Reconciled /\ ledger'.ids = ledger.ids /\ journal'.ids = journal.ids
  BY <1>2, <1>3 DEF Reconciled
<1>7. ledger.qty \in [OrderIds -> Nat] /\ \A o \in OrderIds : FillOf(o) \in Nat
  BY DueIsTyped DEF AccountInv
<1>8. \A o \in OrderIds : /\ ledger'.qty[o] = ledger.qty[o] + FillOf(o)
                          /\ ledger'.qty[o] + FillOf(o)' <= FilledIn(broker', o)
  <2> SUFFICES ASSUME NEW o \in OrderIds
               PROVE  /\ ledger'.qty[o] = ledger.qty[o] + FillOf(o)
                      /\ ledger'.qty[o] + FillOf(o)' <= FilledIn(broker', o)
    OBVIOUS
  <2>1. ledger.qty[o] + FillOf(o) <= FilledIn(broker, o) /\ FilledIn(broker', o) = FilledIn(broker, o)
    BY <1>1 DEF LedgerInv
  <2> QED BY <1>2, <1>5, <1>7, <2>1
<1>9. \A id \in ledger.ids : FillOf(id[1]) = 0
  <2> SUFFICES ASSUME NEW id \in ledger.ids
               PROVE  FillOf(id[1]) = 0
    OBVIOUS
  <2>1. id[1] \in OrderIds /\ id[1] \in DOMAIN broker /\ broker[id[1]].filled \in Nat
    BY DEF LedgerInv, AccountInv, Books, BrokerOK
  <2>2. ledger.qty[id[1]] = FilledIn(broker, id[1])
    BY <2>1 DEF LedgerInv, FilledIn
  <2>3. ledger.qty[id[1]] + FillOf(id[1]) <= FilledIn(broker, id[1])
    BY <2>1 DEF LedgerInv
  <2> QED BY <1>7, <2>1, <2>2, <2>3
<1>10. \A id \in ledger.ids : ledger'.qty[id[1]] = ledger.qty[id[1]]
  <2>1. \A id \in ledger.ids : id[1] \in OrderIds
    BY DEF LedgerInv, AccountInv, Books, BrokerOK
  <2> QED BY <1>7, <1>8, <1>9, <2>1
<1>11. InStep(disk.orders, disk.booked, disk.items, ledger'.qty, Reconciled)
  <2>1. InStep(disk.orders, disk.booked, disk.items, ledger.qty, Reconciled)
    BY DEF LedgerInv
  <2>2. \A o \in DOMAIN disk.orders \cup {i.order : i \in disk.items} : FillOf(o) = 0
    BY DEF LedgerInv, FillOf
  <2>3. disk.booked \in [OrderIds -> Nat]
    BY DEF AccountInv, Books, Book, BookType
  <2>4. \A o \in OrderIds : /\ ledger.qty[o] <= ledger'.qty[o]
                            /\ FillOf(o) = 0 => ledger'.qty[o] = ledger.qty[o]
    BY <1>7, <1>8
  <2>5. \A o \in OrderIds : disk.booked[o] \in Nat /\ ledger.qty[o] \in Nat /\ ledger'.qty[o] \in Nat
    BY <1>7, <1>8, <2>3
  <2> QED BY <2>1, <2>2, <2>4, <2>5 DEF InStep
<1>12. InStep(orders', booked', items', Due', Reconciled)
  BY <1>1, <1>4, <1>5 DEF LedgerInv
<1> QED BY <1>1, <1>5, <1>6, <1>8, <1>10, <1>11, <1>12 DEF LedgerInv

\* _persist: the disk has the book in memory or the one it had.
LEMMA SnapshotInStep ==
    ASSUME NEW due, NEW done, InStep(orders', booked', items', due, done),
           InStep(disk.orders, disk.booked, disk.items, due, done),
           disk' = Snapshot' \/ disk' = disk
    PROVE  InStep(disk'.orders, disk'.booked, disk'.items, due, done)
<1>1. CASE disk' = Snapshot'
  <2>1. /\ DOMAIN disk'.orders \subseteq DOMAIN orders'
        /\ disk'.booked = booked' /\ disk'.items = items'
    BY <1>1 DEF Snapshot, Pending
  <2> QED BY <2>1, FewerInStep
<1> QED BY <1>1

LEMMA PersistKeepsLedger ==
    ASSUME AccountInv, AccountInv', LedgerInv, Persist
    PROVE  LedgerInv'
<1>1. /\ UNCHANGED <<orders, booked, items, fills, resolving, broker, ledger, journal>>
      /\ pc = "recorded" /\ pc' = "idle"
      /\ disk' = Snapshot' \/ disk' = disk
  BY DEF Persist, Snapshot, Pending, memory, audit, brokerVars
<1>2. DOMAIN fills' = {} /\ Due = ledger.qty /\ Due' = ledger.qty
  BY <1>1, DueIsTyped, NothingDueNext DEF AccountInv, PcInv
<1>3. /\ InStep(orders', booked', items', ledger.qty, Reconciled)
      /\ InStep(disk.orders, disk.booked, disk.items, ledger.qty, Reconciled)
  BY <1>1, <1>2 DEF LedgerInv
<1>4. InStep(disk'.orders, disk'.booked, disk'.items, ledger.qty, Reconciled)
  BY <1>1, <1>3, SnapshotInStep
<1>5. journal'.ids = ledger.ids /\ \A i \in resolving' : <<i.order, i.upTo>> \in ledger.ids
  BY <1>1 DEF LedgerInv
<1> QED BY <1>1, <1>2, <1>3, <1>4, <1>5, LedgerStays

\* ACCEPT appends a reconciliation the trail does not have: the first one of its
\* order, which brings the ledger up to all the broker filled.
LEMMA AcceptKeepsLedger ==
    ASSUME AppendsSucceed, AccountInv, AccountInv', WholeInv, LedgerInv, NEW i \in items, Accept(i)
    PROVE  LedgerInv'
<1> DEFINE o   == i.order
           id  == <<i.order, i.upTo>>
           qty == [NothingYet EXCEPT ![i.order] = i.delta]
<1>1. /\ UNCHANGED <<orders, booked, items, fills, disk, broker>>
      /\ pc = "idle" /\ pc' = "resolving" /\ resolving' = {i}
  BY DEF Accept, brokerVars
<1>2. /\ o \in OrderIds /\ i.delta \in Nat /\ o \in DOMAIN broker
      /\ i.upTo = broker[o].qty /\ broker[o].filled = i.upTo
      /\ booked \in [OrderIds -> Nat] /\ ledger.qty \in [OrderIds -> Nat]
      /\ \A x \in OrderIds : FilledIn(broker, x) \in Nat
  <2>1. i \in Items /\ booked \in [OrderIds -> Nat] /\ o \in DOMAIN broker
    BY DEF AccountInv, Books, Book, BookType, ItemsAreSane
  <2>2. Whole(orders, items, broker)
    BY DEF WholeInv, AppendsSucceed
  <2>3. /\ \A x \in OrderIds : FilledIn(broker, x) \in Nat
        /\ ledger.qty \in [OrderIds -> Nat]
    BY DueIsTyped DEF AccountInv, Books, BrokerOK, FilledIn
  <2> QED BY <2>1, <2>2, <2>3 DEF Whole, Items, Shares
<1>3. /\ DOMAIN fills = {} /\ Due = ledger.qty /\ Due' = ledger'.qty
      /\ journal.ids = ledger.ids
  BY <1>1, DueIsTyped, NothingDueNext DEF AccountInv, PcInv, LedgerInv
<1>4. CASE id \in ledger.ids
  <2>1. UNCHANGED <<ledger, journal>>
    BY <1>3, <1>4 DEF Accept, audit
  <2> QED BY <1>1, <1>3, <1>4, <2>1, LedgerStays DEF LedgerInv
<1>5. CASE id \notin ledger.ids
  <2>1. /\ ledger'.qty = [x \in OrderIds |-> ledger.qty[x] + qty[x]]
        /\ ledger'.ids = ledger.ids \cup {id}
    BY <1>3, <1>5 DEF Accept, Appended
  <2>2. journal'.ids = journal.ids \cup {id}
    BY <1>3, <1>5 DEF Accept, Appended, AccountInv, LoopTypeOK
  <2>3. o \notin Reconciled
    <3> SUFFICES ASSUME NEW other \in ledger.ids, other[1] = o PROVE FALSE
      BY DEF Reconciled
    <3>1. other = <<other[1], other[2]>>
      BY DEF AccountInv, LoopTypeOK
    <3>2. other[2] = i.upTo
      BY <1>2 DEF LedgerInv
    <3> QED BY <1>5, <3>1, <3>2
  <2>4. booked[o] = ledger.qty[o] /\ booked[o] + i.delta = i.upTo
    BY <1>2, <1>3, <2>3 DEF LedgerInv, InStep
  <2>5. \A x \in OrderIds : ledger'.qty[x] = IF x = o THEN i.upTo ELSE ledger.qty[x]
    <3>1. \A x \in OrderIds : qty[x] = IF x = o THEN i.delta ELSE 0
      BY <1>2 DEF NothingYet
    <3> HIDE DEF qty, o
    <3>2. \A x \in OrderIds : ledger.qty[x] + qty[x] = IF x = o THEN i.upTo ELSE ledger.qty[x]
      BY <1>2, <2>4, <3>1
    <3> QED BY <2>1, <3>2
  <2>6. id[1] = o /\ id[2] = i.upTo
    OBVIOUS
  <2> HIDE DEF id, qty
  <2>7. Reconciled' = Reconciled \cup {o}
    BY <2>1, <2>6 DEF Reconciled
  <2> HIDE DEF o
  <2>8. \A x \in OrderIds : ledger'.qty[x] + FillOf(x)' <= FilledIn(broker', x)
    <3> SUFFICES ASSUME NEW x \in OrderIds
                 PROVE  ledger'.qty[x] + FillOf(x)' <= FilledIn(broker', x)
      OBVIOUS
    <3>1. FillOf(x)' = 0 /\ FillOf(x) = 0 /\ FilledIn(broker', x) = FilledIn(broker, x)
      BY <1>1, <1>3 DEF FillOf
    <3>2. CASE x = o
      <4>1. ledger'.qty[x] = i.upTo /\ FilledIn(broker, x) = i.upTo
        BY <1>2, <2>5, <3>2 DEF FilledIn
      <4>2. FilledIn(broker, x) \in Nat
        BY <1>2
      <4> QED BY <3>1, <4>1, <4>2
    <3>3. CASE x # o
      <4>1. ledger'.qty[x] = ledger.qty[x]
        BY <2>5, <3>3
      <4>2. ledger.qty[x] + FillOf(x) <= FilledIn(broker, x)
        BY DEF LedgerInv
      <4> QED BY <3>1, <4>1, <4>2
    <3> QED BY <3>2, <3>3
  <2>9. ASSUME NEW os, NEW bk, NEW its, InStep(os, bk, its, ledger.qty, Reconciled)
        PROVE  InStep(os, bk, its, ledger'.qty, Reconciled')
    BY <2>5, <2>7, <2>9 DEF InStep
  <2>10. /\ InStep(orders', booked', items', Due', Reconciled')
         /\ InStep(disk'.orders, disk'.booked, disk'.items, ledger'.qty, Reconciled')
    BY <1>1, <1>3, <2>9 DEF LedgerInv
  <2>11. \A x \in ledger'.ids :
            /\ x[1] \in DOMAIN broker' /\ x[2] = broker'[x[1]].qty
            /\ broker'[x[1]].filled = x[2] /\ ledger'.qty[x[1]] = x[2]
    <3>1. \A x \in ledger.ids : x[1] \in OrderIds /\ x[1] # o
      BY <2>3 DEF LedgerInv, AccountInv, Books, BrokerOK, Reconciled
    <3>2. \A x \in ledger.ids : ledger'.qty[x[1]] = ledger.qty[x[1]]
      BY <2>5, <3>1
    <3>3. ledger'.qty[o] = i.upTo
      BY <1>2, <2>5
    <3> QED BY <1>1, <1>2, <2>1, <2>6, <3>2, <3>3 DEF LedgerInv
  <2>12. \A j \in resolving' : <<j.order, j.upTo>> \in ledger'.ids
    BY <1>1, <2>1 DEF id
  <2>13. journal'.ids = ledger'.ids
    BY <1>3, <2>1, <2>2
  <2> QED BY <1>1, <1>3, <2>8, <2>10, <2>11, <2>12, <2>13 DEF LedgerInv
<1> QED BY <1>4, <1>5

\* The rest of ACCEPT books what the ledger has already, and REJECT nothing.
LEMMA ResolveKeepsLedger ==
    ASSUME AppendsSucceed, AccountInv, AccountInv', LedgerInv,
           FinishAccept \/ \E i \in items : Reject(i)
    PROVE  LedgerInv'
<1>1. ASSUME NEW i \in items, NEW state, NEW settled, Close(i, state, settled),
             UNCHANGED <<broker, fills>>, resolving' = {}, pc \in {"idle", "resolving"},
             \A o \in OrderIds \ Reconciled : booked'[o] = booked[o]
      PROVE  LedgerInv'
  <2>1. /\ items' = (items \ {i}) \cup {[i EXCEPT !.state = state]}
        /\ DOMAIN orders' = DOMAIN orders /\ pc' = "idle" /\ Noted
        /\ disk' = Snapshot' \/ disk' = disk
    BY <1>1 DEF Close
  <2>2. ledger'.qty = ledger.qty /\ ledger'.ids = ledger.ids /\ journal'.ids = journal.ids
    BY <2>1, NoteAddsNothing DEF AccountInv
  <2>3. DOMAIN fills' = {} /\ Due = ledger.qty /\ Due' = ledger.qty
    BY <1>1, <2>1, <2>2, DueIsTyped, NothingDueNext DEF AccountInv, PcInv
  <2>4. /\ [i EXCEPT !.state = state].upTo = i.upTo
        /\ [i EXCEPT !.state = state].order = i.order
        /\ [i EXCEPT !.state = state].delta = i.delta
    BY DEF AccountInv, Books, Book, BookType, Items
  <2>5. \A j \in items' : \E k \in items : /\ j.order = k.order /\ j.upTo = k.upTo
                                           /\ j.delta = k.delta
    BY <2>1, <2>4
  <2>6. InStep(orders', booked, items', ledger.qty, Reconciled)
    <3>1. InStep(orders, booked, items, ledger.qty, Reconciled)
      BY <2>3 DEF LedgerInv
    <3> QED BY <2>1, <2>5, <3>1, FewerInStep
  <2>7. InStep(orders', booked', items', ledger.qty, Reconciled)
    BY <1>1, <2>6 DEF InStep
  <2>8. InStep(disk'.orders, disk'.booked, disk'.items, ledger.qty, Reconciled)
    <3>1. InStep(disk.orders, disk.booked, disk.items, ledger.qty, Reconciled)
      BY DEF LedgerInv
    <3> QED BY <2>1, <2>7, <3>1, SnapshotInStep
  <2>9. journal'.ids = ledger.ids
    BY <1>1, <2>2 DEF LedgerInv
  <2> QED BY <1>1, <2>2, <2>3, <2>7, <2>8, <2>9, LedgerStays
<1>2. CASE FinishAccept
  <2>1. PICK i \in resolving : /\ booked' = [booked EXCEPT ![i.order] = @ + i.delta]
                               /\ Close(i, "ACCEPTED", BookReconciled(orders[i.order]))
    BY <1>2 DEF FinishAccept
  <2>2. UNCHANGED <<broker, fills>> /\ pc = "resolving" /\ resolving' = {} /\ i \in items
    BY <1>2 DEF FinishAccept, brokerVars, AccountInv, LoopTypeOK
  <2>3. i.order \in Reconciled
    <3>1. <<i.order, i.upTo>> \in ledger.ids
      BY DEF LedgerInv
    <3> QED BY <3>1 DEF Reconciled
  <2>4. \A o \in OrderIds \ Reconciled : booked'[o] = booked[o]
    BY <2>1, <2>3 DEF AccountInv, Books, Book, BookType
  <2> QED BY <1>1, <2>1, <2>2, <2>4
<1>3. ASSUME NEW i \in items, Reject(i)
      PROVE  LedgerInv'
  <2>1. /\ pc = "idle" /\ UNCHANGED <<broker, booked, fills, resolving>>
        /\ Close(i, "REJECTED", CancelReconciled(orders[i.order]))
    BY <1>3 DEF Reject, brokerVars
  <2>2. resolving' = {}
    BY <2>1 DEF AccountInv, PcInv
  <2> QED BY <1>1, <2>1, <2>2
<1> QED BY <1>2, <1>3

\* A crash anywhere, also between an append and the write of loop_state.json.
LEMMA RestartKeepsLedger ==
    ASSUME AccountInv, AccountInv', LedgerInv, Crash \/ Start
    PROVE  LedgerInv'
<1>1. /\ InStep(disk.orders, disk.booked, disk.items, ledger.qty, Reconciled)
      /\ ledger.qty \in [OrderIds -> Nat]
  BY DueIsTyped DEF LedgerInv, AccountInv
<1>2. CASE Crash
  <2>1. /\ UNCHANGED <<disk, ledger, broker>> /\ pc' = "down" /\ DOMAIN fills' = {}
        /\ DOMAIN orders' = {} /\ booked' = NothingYet /\ items' = {} /\ resolving' = {}
    BY <1>2 DEF Crash, NoOrders, brokerVars
  <2>2. Due' = ledger.qty
    BY <2>1, NothingDueNext DEF AccountInv
  <2>3. InStep(orders', booked', items', ledger.qty, Reconciled)
    BY <1>1, <2>1 DEF InStep, NothingYet
  <2> QED BY <1>1, <2>1, <2>2, <2>3, LedgerStays
<1>3. CASE Start
  <2>1. /\ UNCHANGED <<disk, ledger, broker, resolving, fills>> /\ pc = "down" /\ pc' = "idle"
        /\ items' = disk.items /\ booked' = disk.booked /\ journal'.ids = ledger.ids
    BY <1>3 DEF Start
  <2>2. orders' = disk.orders
    BY <1>3, StartRestores
  <2>3. resolving' = {} /\ DOMAIN fills' = {} /\ Due' = ledger.qty
    BY <2>1, NothingDueNext DEF AccountInv, PcInv
  <2> QED BY <1>1, <2>1, <2>2, <2>3, LedgerStays
<1> QED BY <1>2, <1>3

\* The broker fills nothing of an order that is on the ledger in full.
LEMMA EnvironmentKeepsLedger ==
    ASSUME AccountInv, LedgerInv, Environment
    PROVE  LedgerInv'
<1>1. /\ UNCHANGED <<pc, orders, booked, items, fills, resolving, disk, ledger, journal>>
      /\ BrokerNext
  BY DEF Environment, memory, audit
<1>2. /\ DOMAIN broker' = DOMAIN broker
      /\ \A o \in DOMAIN broker : o \notin OpenAtBroker => broker'[o] = broker[o]
  BY <1>1, BrokerNextFills DEF AccountInv, Books
<1>3. BrokerMoves(broker, broker') /\ BrokerOK(broker) /\ BrokerOK(broker')
  BY <1>1, BrokerNextMoves DEF AccountInv, Books
<1>4. ASSUME NEW id \in ledger.ids
      PROVE  broker'[id[1]] = broker[id[1]]
  <2>1. /\ id[1] \in DOMAIN broker /\ broker[id[1]].filled = broker[id[1]].qty
        /\ broker[id[1]].filled \in Nat
    BY <1>3 DEF LedgerInv, BrokerOK
  <2>2. id[1] \notin OpenAtBroker
    BY <1>3, <2>1 DEF OpenAtBroker, BrokerOK
  <2> QED BY <1>2, <2>1, <2>2
<1>5. ASSUME NEW o \in OrderIds
      PROVE  ledger.qty[o] + FillOf(o) <= FilledIn(broker', o)
  <2>1. ledger.qty[o] + FillOf(o) <= FilledIn(broker, o)
    BY DEF LedgerInv
  <2>2. FilledIn(broker, o) <= FilledIn(broker', o)
    BY <1>2, <1>3 DEF BrokerMoves, FilledIn
  <2>3. /\ ledger.qty[o] \in Nat /\ FillOf(o) \in Nat
        /\ FilledIn(broker, o) \in Nat /\ FilledIn(broker', o) \in Nat
    BY <1>3, DueIsTyped DEF AccountInv, FilledIn, BrokerOK
  <2> QED BY <2>1, <2>2, <2>3
<1>6. Due' = Due /\ Reconciled' = Reconciled /\ \A o : FillOf(o)' = FillOf(o)
  BY <1>1 DEF Due, Reconciled, FillOf
<1> QED BY <1>1, <1>2, <1>4, <1>5, <1>6 DEF LedgerInv

LEMMA NextKeepsLedger ==
    ASSUME AppendsSucceed, StackInv, AccountInv, AccountInv', WholeInv, LedgerInv, [Next]_vars
    PROVE  LedgerInv'
<1>1. CASE SkipResync \/ PriceFails \/ PlanNothing \/ PlanSome
  <2>1. /\ UNCHANGED <<orders, booked, items, fills, resolving, disk, broker, ledger, journal>>
        /\ pc \in {"idle", "synced"} /\ pc' # "down"
    BY <1>1 DEF SkipResync, PriceFails, PlanNothing, PlanSome, Plan, memory, audit, brokerVars
  <2>2. DOMAIN fills = {}
    BY <2>1 DEF AccountInv, PcInv
  <2> QED BY <2>1, <2>2, QuietStepKeepsLedger
<1>2. CASE StateStoreFails \/ \E i \in items : AcceptUnaudited(i)
  BY <1>2 DEF StateStoreFails, AcceptUnaudited, AppendRaises, AppendsSucceed
<1>3. CASE \E read \in Reads : Resync(read)
  BY <1>3, ResyncKeepsLedger
<1>4. CASE Submit
  BY <1>4, SubmitKeepsLedger
<1>5. CASE FinishOrders
  BY <1>5, FinishOrdersKeepsLedger
<1>6. CASE RecordCycle
  BY <1>6, RecordCycleKeepsLedger
<1>7. CASE Persist
  BY <1>7, PersistKeepsLedger
<1>8. CASE \E i \in items : Accept(i)
  BY <1>8, AcceptKeepsLedger
<1>9. CASE FinishAccept \/ \E i \in items : Reject(i)
  BY <1>9, ResolveKeepsLedger
<1>10. CASE Crash \/ Start
  BY <1>10, RestartKeepsLedger
<1>11. CASE Environment
  BY <1>11, EnvironmentKeepsLedger
<1>12. CASE StartRefused \/ UNCHANGED vars
  <2>1. UNCHANGED <<pc, orders, booked, items, fills, resolving, disk, ledger, journal, broker>>
    BY <1>12 DEF StartRefused, vars, memory, audit, brokerVars
  <2>2. Due' = Due /\ Reconciled' = Reconciled /\ \A o : FillOf(o)' = FillOf(o)
    BY <2>1 DEF Due, Reconciled, FillOf
  <2> QED BY <2>1, <2>2 DEF LedgerInv
<1> QED
  BY <1>1, <1>2, <1>3, <1>4, <1>5, <1>6, <1>7, <1>8, <1>9, <1>10, <1>11, <1>12
  DEF Next, Service, Operator

\* Of a reconciled order the ledger has all the broker filled, of another one it
\* has what is due.
LEMMA LedgerInvSuffices ==
    ASSUME AccountInv, LedgerInv
    PROVE  LedgerIsBetween
<1> SUFFICES ASSUME pc = "idle", NEW o \in OrderIds
             PROVE  booked[o] <= ledger.qty[o] /\ ledger.qty[o] <= FilledAtBroker[o]
  BY DEF LedgerIsBetween
<1>1. /\ ledger.qty[o] \in Nat /\ FillOf(o) = 0 /\ Due = ledger.qty
      /\ FilledAtBroker[o] = FilledIn(broker, o) /\ FilledIn(broker, o) \in Nat
  BY DueIsTyped DEF AccountInv, PcInv, FillOf, FilledAtBroker, FilledIn, Books, BrokerOK
<1>2. ledger.qty[o] <= FilledAtBroker[o]
  <2>1. ledger.qty[o] + FillOf(o) <= FilledIn(broker, o)
    BY DEF LedgerInv
  <2> QED BY <1>1, <2>1
<1>3. CASE o \in Reconciled
  <2>1. PICK id \in ledger.ids : id[1] = o
    BY <1>3 DEF Reconciled
  <2>2. ledger.qty[o] = FilledIn(broker, o)
    BY <2>1 DEF LedgerInv, FilledIn
  <2>3. /\ booked[o] \in Nat /\ Late[o] \in Nat /\ DeltaOf(items, o, {"OPEN"}) \in Nat
        /\ booked[o] + DeltaOf(items, o, {"OPEN"}) + Late[o] <= FilledIn(broker, o)
    BY BookNumbers, LateIsTyped DEF AccountInv, Books
  <2> QED BY <1>1, <1>2, <2>2, <2>3
<1>4. CASE o \notin Reconciled
  BY <1>1, <1>2, <1>4 DEF LedgerInv, InStep
<1> QED BY <1>3, <1>4

\* record_cycle and resolve_reconciliation: between cycles the durable ledger has
\* all the held book has of an order, and nothing of it twice, wherever the
\* process died before, an append and the write of loop_state.json included,
\* however often that write raised and an item was resolved again, and whatever
\* the operator rejected.
THEOREM LedgerIsBetweenEver ==
    ASSUME AppendsSucceed
    PROVE  Spec => []LedgerIsBetween
<1>1. Init => WholeInv /\ LedgerInv
  <2> SUFFICES ASSUME Init PROVE WholeInv /\ LedgerInv
    OBVIOUS
  <2>1. /\ DOMAIN orders = {} /\ items = {} /\ DOMAIN disk.orders = {} /\ disk.items = {}
        /\ booked = NothingYet /\ disk.booked = NothingYet
        /\ pc = "idle" /\ resolving = {} /\ DOMAIN fills = {} /\ DOMAIN broker = {}
        /\ ledger.qty = NothingYet /\ ledger.ids = {} /\ journal.ids = {}
    BY DEF Init, Blank, NewJournal, NoOrders, BrokerInit
  <2>2. WholeInv
    BY <2>1 DEF WholeInv, Whole
  <2>3. Due = NothingYet
    BY <2>1 DEF Due, NothingYet
  <2>4. \A o \in OrderIds : ledger.qty[o] + FillOf(o) <= FilledIn(broker, o)
    BY <2>1 DEF FillOf, FilledIn, NothingYet
  <2>5. /\ InStep(orders, booked, items, Due, Reconciled)
        /\ InStep(disk.orders, disk.booked, disk.items, ledger.qty, Reconciled)
    BY <2>1, <2>3 DEF InStep, NothingYet
  <2> QED BY <2>1, <2>2, <2>4, <2>5 DEF LedgerInv
<1>2. /\ StackInv /\ AccountInv /\ (StackInv /\ AccountInv)'
      /\ WholeInv /\ LedgerInv /\ [Next]_vars
      => WholeInv' /\ LedgerInv'
  <2> SUFFICES ASSUME StackInv, AccountInv, AccountInv', WholeInv, LedgerInv, [Next]_vars
               PROVE  WholeInv' /\ LedgerInv'
    OBVIOUS
  <2> QED BY NextKeepsWhole, NextKeepsLedger
<1>3. AccountInv /\ LedgerInv => LedgerIsBetween
  BY LedgerInvSuffices
<1> QED BY <1>1, <1>2, <1>3, AccountInvEver, PTL DEF Spec

-----------------------------------------------------------------------------
(* The real position stays between flat and the largest target             *)

\* Orders are written, none fills in pieces after its submission, and the
\* operator accepts what the broker filled.
FillsAreWhole == OrdersAreWritten /\ {"pieces", "reject"} \cap Faults = {}

\* What an order in flight waits in.
Waiting == ResyncResolvable \cup {"RECONCILIATION_HOLD"}

\* An order with an open item is held until the operator has decided.
OpenItemsHold(os, its) ==
    \A i \in its : i.state = "OPEN" =>
        i.order \in DOMAIN os /\ os[i.order].status = "RECONCILIATION_HOLD"

\* Of an order that left the flight, all the broker filled is booked: STEP 11
\* may size against the held book and forget it.
SettleInv ==
    /\ \A o \in Pending : orders[o].status \in Waiting
    /\ \A o \in DOMAIN disk.orders : disk.orders[o].status \in Waiting
    /\ OpenItemsHold(orders, items) /\ OpenItemsHold(disk.orders, disk.items)
    /\ \A i \in items \cup disk.items : i.state # "REJECTED"
    /\ pc # "down" => \A o \in DOMAIN broker \ Pending : booked[o] + Late[o] = broker[o].filled
    /\ pc \in Persisted =>
          \A o \in DOMAIN broker \ DOMAIN disk.orders : disk.booked[o] = broker[o].filled

\* A tracked order without an open item has all the held book owes it.
LEMMA BookedInFull ==
    ASSUME NEW os, NEW bk, NEW its, NEW late \in [OrderIds -> Nat], NEW bro,
           BrokerOK(bro), Book(os, bk, its, late, bro), NEW o \in DOMAIN os,
           ItemsOf(its, o, {"OPEN", "REJECTED"}) = {}
    PROVE  bk[o] + late[o] = os[o].filled
<1>1. o \in OrderIds
  BY DEF Book, BookType
<1>2. bk[o] \in Nat /\ late[o] \in Nat
  BY <1>1, BookNumbers
<1>3. DeltaOf(its, o, {"OPEN", "REJECTED"}) = 0
  BY NoItemsNoDelta
<1>4. os[o].filled = bk[o] + DeltaOf(its, o, {"OPEN", "REJECTED"}) + late[o]
  BY DEF Book, Balanced
<1> QED BY <1>2, <1>3, <1>4

\* The same of the next state.
LEMMA NextBookedInFull ==
    ASSUME BrokerOK(broker'), Book(orders', booked', items', NothingYet, broker'),
           NEW o \in DOMAIN orders', ItemsOf(items', o, {"OPEN", "REJECTED"}) = {}
    PROVE  booked'[o] + NothingYet[o] = orders'[o].filled
  BY BookedInFull, NothingIsTyped

\* A step that changes none of what settles an order.
LEMMA IdleStepKeepsSettle ==
    ASSUME SettleInv, UNCHANGED <<orders, booked, items, disk, broker>>, Late' = Late,
           pc # "down", pc' # "down", pc' \in Persisted => pc \in Persisted
    PROVE  SettleInv'
<1>1. Pending' = Pending
  BY DEF Pending
<1> QED BY <1>1 DEF SettleInv

\* _persist.
LEMMA SnapshotKeepsSettle ==
    ASSUME disk' = Snapshot', pc' # "down", Late' = NothingYet,
           booked' \in [OrderIds -> Nat], DOMAIN broker' \subseteq OrderIds,
           \A o \in Pending' : orders'[o].status \in Waiting,
           OpenItemsHold(orders', items'),
           \A i \in items' : i.state # "REJECTED",
           \A o \in DOMAIN broker' \ Pending' : booked'[o] = broker'[o].filled
    PROVE  SettleInv'
<1>1. /\ disk'.orders = [o \in Pending' |-> orders'[o]] /\ disk'.items = items'
      /\ disk'.booked = booked' /\ DOMAIN disk'.orders = Pending'
  BY DEF Snapshot
<1>2. OpenItemsHold(disk'.orders, disk'.items)
  BY <1>1 DEF OpenItemsHold, Pending, Terminal, TerminalStates
<1>3. \A o \in DOMAIN broker' : booked'[o] + Late'[o] = booked'[o]
  BY DEF NothingYet
<1> QED BY <1>1, <1>2, <1>3 DEF SettleInv
\* resync of an order that waits: a discovery holds it, anything else leaves it
\* waiting or ends it.
LEMMA ResyncOfWaiting ==
    ASSUME NEW s \in Waiting, NEW reported, NEW o
    PROVE  /\ ResyncStatus(s, TruthOf(reported, o)) \in Waiting \cup TerminalStates
           /\ o \in Discovered(reported) =>
                ResyncStatus(s, TruthOf(reported, o)) = "RECONCILIATION_HOLD"
           /\ s = "RECONCILIATION_HOLD" =>
                ResyncStatus(s, TruthOf(reported, o)) = "RECONCILIATION_HOLD"
           /\ ResyncStatus(s, TruthOf(reported, o)) \in TerminalStates => o \in reported
<1>1. TruthOf(reported, o) \in {"RECONCILIATION_HOLD", "WORKING", "PARTIALLY_FILLED", "FILLED",
                                "CANCELLED", "NO_RECORD"}
  BY DEF TruthOf, BrokerStatus
<1>2. /\ o \in Discovered(reported) => TruthOf(reported, o) = "RECONCILIATION_HOLD"
      /\ o \notin reported => TruthOf(reported, o) = "NO_RECORD"
  BY DEF TruthOf, Discovered
<1>3. s # "RECONCILIATION_HOLD" => CanMove(s, "RECONCILIATION_HOLD") /\ s \in ResyncResolvable
  BY DEF Waiting, ResyncResolvable, Unconfirmed, CanMove, Allowed
<1>4. s \notin TerminalStates /\ "RECONCILIATION_HOLD" \notin ResyncResolvable
  BY DEF Waiting, ResyncResolvable, Unconfirmed, TerminalStates
<1>5. ResyncStatus(s, TruthOf(reported, o)) \in Waiting \cup TerminalStates
  BY <1>1 DEF ResyncStatus, Waiting, ResyncResolvable, Unconfirmed, TerminalStates
<1>6. o \in Discovered(reported) =>
        ResyncStatus(s, TruthOf(reported, o)) = "RECONCILIATION_HOLD"
  BY <1>2, <1>3 DEF ResyncStatus
<1>7. s = "RECONCILIATION_HOLD" =>
        ResyncStatus(s, TruthOf(reported, o)) = "RECONCILIATION_HOLD"
  BY <1>4 DEF ResyncStatus
<1>8. ResyncStatus(s, TruthOf(reported, o)) \in TerminalStates => o \in reported
  BY <1>2, <1>4 DEF ResyncStatus, TerminalStates
<1> QED BY <1>5, <1>6, <1>7, <1>8

LEMMA ResyncKeepsSettle ==
    ASSUME StackInv, AccountInv, AccountInv', SettleInv, NEW read \in Reads, Resync(read)
    PROVE  SettleInv'
<1>1. UNCHANGED <<booked, fills, disk, broker>> /\ pc = "idle" /\ pc' = "synced"
  BY DEF Resync, brokerVars
<1>2. Late = NothingYet /\ Late' = NothingYet
  BY <1>1 DEF Late, NothingYet
<1>3. CASE read.kind = "raised"
  BY <1>1, <1>2, <1>3, IdleStepKeepsSettle DEF Resync, Persisted
<1>4. CASE read.kind # "raised"
  <2> DEFINE reported == read.ids
             found    == Discovered(reported)
  <2>1. ApplyTruth(reported) /\ reported \in SUBSET DOMAIN broker
    BY <1>4 DEF Resync, Reads, Answers, Failures, Reported, Listable, OpenAtBroker
  <2>2. /\ DOMAIN orders' = DOMAIN orders
        /\ items' = items \cup {Discovery(orders, broker, o) : o \in found}
        /\ found \in SUBSET (DOMAIN orders \cap DOMAIN broker)
        /\ \A o \in DOMAIN orders :
              /\ orders'[o].filled = IF o \in found THEN broker[o].filled ELSE orders[o].filled
              /\ orders'[o].status = ResyncStatus(orders[o].status, TruthOf(reported, o))
    BY <2>1, ApplyTruthFields DEF AccountInv
  <2>3. \A o \in found : o \in Pending /\ broker[o].filled > orders[o].filled
    BY DEF Discovered
  <2>4. \A o \in found : /\ Discovery(orders, broker, o).order = o
                         /\ Discovery(orders, broker, o).state = "OPEN"
    BY DEF Discovery
  <2>5. \A o \in Pending : o \in DOMAIN orders /\ orders[o].status \in Waiting
    BY DEF SettleInv, Pending
  <2>6. \A o \in DOMAIN orders \ Pending : orders'[o].status = orders[o].status
    <3> SUFFICES ASSUME NEW o \in DOMAIN orders, orders[o].status \in TerminalStates
                 PROVE  orders'[o].status = orders[o].status
      BY DEF Pending, Terminal
    <3> QED BY <2>2, TerminalIsFinal DEF ResyncStatus
  <2>7. ASSUME NEW o \in Pending
        PROVE  /\ orders'[o].status \in Waiting \cup TerminalStates
               /\ o \in found => orders'[o].status = "RECONCILIATION_HOLD"
               /\ orders[o].status = "RECONCILIATION_HOLD" =>
                    orders'[o].status = "RECONCILIATION_HOLD"
               /\ orders'[o].status \in TerminalStates => o \in reported
    BY <2>2, <2>5, ResyncOfWaiting
  <2> HIDE DEF reported, found
  <2>8. \A o \in Pending' : o \in Pending /\ orders'[o].status \in Waiting
    <3> SUFFICES ASSUME NEW o \in DOMAIN orders, orders'[o].status \notin TerminalStates
                 PROVE  o \in Pending /\ orders'[o].status \in Waiting
      BY <2>2 DEF Pending, Terminal
    <3>1. o \in Pending
      BY <2>6 DEF Pending, Terminal
    <3> QED BY <2>7, <3>1
  <2>9. OpenItemsHold(orders', items')
    <3> SUFFICES ASSUME NEW i \in items', i.state = "OPEN"
                 PROVE  i.order \in DOMAIN orders /\ orders'[i.order].status = "RECONCILIATION_HOLD"
      BY <2>2 DEF OpenItemsHold
    <3>1. CASE i \in items
      <4>1. i.order \in DOMAIN orders /\ orders[i.order].status = "RECONCILIATION_HOLD"
        BY <3>1 DEF SettleInv, OpenItemsHold
      <4>2. i.order \in Pending
        BY <4>1 DEF Pending, Terminal, TerminalStates
      <4> QED BY <2>7, <4>1, <4>2
    <3>2. CASE i \notin items
      <4>1. PICK o \in found : i = Discovery(orders, broker, o)
        BY <2>2, <3>2
      <4> QED BY <2>3, <2>4, <2>5, <2>7, <4>1
    <3> QED BY <3>1, <3>2
  <2>10. \A i \in items' : i.state # "REJECTED"
    BY <2>2, <2>4 DEF SettleInv
  <2>11. ASSUME NEW o \in DOMAIN broker \ Pending'
         PROVE  booked[o] + Late'[o] = broker[o].filled
    <3>1. CASE o \notin Pending
      BY <1>1, <1>2, <3>1 DEF SettleInv
    <3>2. CASE o \in Pending
      <4>1. o \in DOMAIN orders' /\ orders'[o].status \in TerminalStates
        BY <2>2, <2>5, <2>11, <3>2 DEF Pending, Terminal
      <4>2. o \in reported /\ o \notin found
        BY <2>7, <3>2, <4>1 DEF TerminalStates
      <4>3. orders'[o].filled = orders[o].filled
        BY <2>2, <4>1, <4>2
      <4>4. orders[o].filled = broker[o].filled
        <5>1. orders[o].filled <= broker[o].filled
          BY <2>5, <2>11, <3>2 DEF AccountInv, Books, Book, Agrees
        <5>2. ~(broker[o].filled > orders[o].filled)
          BY <3>2, <4>2 DEF Discovered, found
        <5>3. orders[o].filled \in Nat /\ broker[o].filled \in Nat
          BY <2>5, <2>11, <3>2 DEF AccountInv, Books, Book, BookType, BrokerOK, OrderRecords
        <5> QED BY <5>1, <5>2, <5>3
      <4>5. ItemsOf(items', o, {"OPEN", "REJECTED"}) = {}
        BY <2>9, <2>10, <4>1 DEF ItemsOf, OpenItemsHold, TerminalStates
      <4>6. booked'[o] + Late'[o] = orders'[o].filled
        <5>1. /\ Book(orders', booked', items', NothingYet, broker') /\ BrokerOK(broker')
              /\ NothingYet \in [OrderIds -> Nat]
          BY <1>2, NothingIsTyped DEF AccountInv, Books
        <5>2. o \in DOMAIN orders'
          BY <4>1
        <5>3. booked'[o] + NothingYet[o] = orders'[o].filled
          BY <4>5, <5>1, <5>2, NextBookedInFull
        <5> QED BY <1>2, <5>3
      <4> QED BY <1>1, <4>3, <4>4, <4>6
    <3> QED BY <3>1, <3>2
  <2> QED BY <1>1, <2>2, <2>8, <2>9, <2>10, <2>11 DEF SettleInv, Persisted
<1> QED BY <1>3, <1>4
\* OrderManager.place: what the broker filled on the spot this cycle will book.
LEMMA PlacingKeepsSettle ==
    ASSUME AccountInv, SettleInv, NEW p, NEW r \in OrderRecords, Placed(p, r),
           r.approved = p.qty, r.filled <= p.qty, r.status \in Waiting \cup TerminalStates
    PROVE  SettleInv'
<1> DEFINE o == p.id
<1>1. UNCHANGED <<pc, booked, items, disk>> /\ pc = "submitting"
  BY DEF Placed, Submitting
<1>2. /\ o \in OrderIds /\ o \notin Known /\ booked[o] = 0 /\ r.filled \in Nat
      /\ Late'[o] = r.filled /\ \A x \in OrderIds : x # o => Late'[x] = Late[x]
      /\ DOMAIN orders' = DOMAIN orders \cup {o} /\ orders'[o] = r
      /\ \A x \in DOMAIN orders : x # o => orders'[x] = orders[x]
      /\ DOMAIN broker' \subseteq DOMAIN broker \cup {o}
      /\ \A x \in DOMAIN broker : broker'[x] = broker[x]
      /\ o \in DOMAIN broker' => broker'[o].filled = r.filled
  BY PlacedFields
<1>3. DOMAIN broker \subseteq OrderIds
  BY DEF AccountInv, Books, BrokerOK
<1> HIDE DEF o
<1>4. o \notin DOMAIN orders /\ o \notin DOMAIN broker
  BY <1>2 DEF Known
<1>5. /\ Pending' \subseteq Pending \cup {o} /\ Pending \subseteq Pending'
      /\ \A x \in Pending : x \in DOMAIN orders
  BY <1>2, <1>4 DEF Pending
<1>6. ASSUME NEW x \in Pending'
      PROVE  orders'[x].status \in Waiting
  <2>1. CASE x = o
    BY <1>2, <2>1 DEF Pending, Terminal
  <2>2. CASE x # o
    BY <1>2, <1>5, <2>2 DEF SettleInv
  <2> QED BY <2>1, <2>2
<1>7. OpenItemsHold(orders', items')
  BY <1>1, <1>2, <1>4 DEF SettleInv, OpenItemsHold
<1>8. ASSUME NEW x \in DOMAIN broker' \ Pending'
      PROVE  booked[x] + Late'[x] = broker'[x].filled
  <2>1. CASE x = o
    BY <1>2, <2>1
  <2>2. CASE x # o
    BY <1>1, <1>2, <1>3, <1>5, <2>2 DEF SettleInv
  <2> QED BY <2>1, <2>2
<1> QED BY <1>1, <1>6, <1>7, <1>8 DEF SettleInv, Persisted

LEMMA SubmitKeepsSettle ==
    ASSUME AccountInv, SettleInv, Submit
    PROVE  SettleInv'
<1>1. PICK p \in todo : \/ PlaceDisconnected(p) \/ PlaceUnsent(p) \/ PlaceRaises(p)
                        \/ \E k \in 0 .. p.qty : PlaceAccepted(p, k)
  BY DEF Submit
<1>2. p.qty \in Shares /\ 0 <= p.qty
  BY DEF AccountInv, LoopTypeOK, Shares
<1>3. /\ {"BROKER_UNKNOWN", "WORKING", "SUBMISSION_UNCERTAIN", "SUBMIT_PENDING"} \subseteq OrderStatus
      /\ {"BROKER_UNKNOWN", "WORKING", "SUBMISSION_UNCERTAIN", "PARTIALLY_FILLED"} \subseteq Waiting
  BY DEF OrderStatus, ResubmitBlockingStates, Waiting, ResyncResolvable, Unconfirmed
<1>4. \A to \in OrderStatus : /\ Moved(NewRecord(p.qty), to) \in OrderRecords
                              /\ Moved(NewRecord(p.qty), to).filled = 0
                              /\ Moved(NewRecord(p.qty), to).approved = p.qty
                              /\ Moved(NewRecord(p.qty), to).status = to
  BY <1>2, SubmittedFields
<1>5. CASE PlaceDisconnected(p)
  BY <1>2, <1>3, <1>4, <1>5, PlacingKeepsSettle DEF PlaceDisconnected, Placed
<1>6. CASE PlaceUnsent(p)
  BY <1>2, <1>3, <1>4, <1>6, PlacingKeepsSettle DEF PlaceUnsent, Placed
<1>7. CASE PlaceRaises(p)
  BY <1>2, <1>3, <1>4, <1>7, PlacingKeepsSettle DEF PlaceRaises, Placed
<1>8. ASSUME NEW k \in 0 .. p.qty, PlaceAccepted(p, k)
      PROVE  SettleInv'
  <2> DEFINE acked == WithBrokerId(Moved(NewRecord(p.qty), "SUBMIT_PENDING"))
  <2>1. /\ acked \in OrderRecords /\ acked.filled = 0 /\ acked.approved = p.qty
        /\ acked.status = "SUBMIT_PENDING"
    BY <1>2, <1>3, SubmittedFields, BrokerIdFields
  <2>2. acked.seen = {}
    BY DEF WithBrokerId, Moved, NewRecord
  <2>3. /\ Submitting(p) /\ Accepts(p.id, p.qty, k)
        /\ k = 0 => Put(p.id, Moved(acked, "WORKING")) /\ fills' = fills
        /\ k # 0 => /\ Put(p.id, WithFill(acked, "exec", k))
                    /\ fills' = [o \in DOMAIN fills \cup {p.id} |-> IF o = p.id THEN k ELSE fills[o]]
    BY <1>8 DEF PlaceAccepted
  <2> HIDE DEF acked
  <2>4. CASE k = 0
    <3>1. /\ Moved(acked, "WORKING") \in OrderRecords /\ Moved(acked, "WORKING").filled = 0
          /\ Moved(acked, "WORKING").approved = p.qty
          /\ Moved(acked, "WORKING").status \in Waiting
      BY <1>3, <2>1, MovedFields
    <3> QED BY <1>2, <2>3, <2>4, <3>1, PlacingKeepsSettle DEF Placed
  <2>5. CASE k # 0
    <3> DEFINE r == WithFill(acked, "exec", k)
    <3>1. FillStatus(acked, k) \in {"FILLED", "PARTIALLY_FILLED"}
      <4>1. CanMove(acked.status, "PARTIALLY_FILLED") /\ CanMove(acked.status, "FILLED")
        BY <2>1 DEF CanMove, Allowed
      <4> QED BY <4>1 DEF FillStatus
    <3>2. k \in Nat /\ k \in Shares /\ k <= p.qty /\ "exec" \in FillIds
      BY <1>2, <2>5, FillIdsAssumption DEF Shares
    <3>3. FillStatus(acked, k) \in OrderStatus /\ FillStatus(acked, k) \in Waiting \cup TerminalStates
      BY <1>3, <3>1 DEF OrderStatus, TerminalStates, ResubmitBlockingStates
    <3>4. r \in OrderRecords /\ r.filled = k /\ r.approved = p.qty
          /\ r.status = FillStatus(acked, k)
      BY <2>1, <2>2, <3>2, <3>3, FilledFields
    <3>5. Put(p.id, r)
      BY <2>3, <2>5
    <3> HIDE DEF r
    <3> QED BY <2>3, <2>5, <3>2, <3>3, <3>4, <3>5, PlacingKeepsSettle DEF Placed
  <2> QED BY <2>4, <2>5
<1> QED BY <1>1, <1>5, <1>6, <1>7, <1>8

\* The end of STEP 12 books what was late; only finished orders are evicted.
LEMMA FinishOrdersKeepsSettle ==
    ASSUME AccountInv, SettleInv, FinishOrders
    PROVE  SettleInv'
<1>1. /\ UNCHANGED <<items, disk, broker>> /\ pc = "submitting" /\ pc' = "ran"
      /\ booked' = [o \in OrderIds |-> booked[o] + IF o \in DOMAIN fills THEN fills[o] ELSE 0]
  BY DEF FinishOrders, brokerVars
<1>2. PICK kept \in SUBSET TerminalOrders : orders' = [o \in Pending \cup kept |-> orders[o]]
  BY DEF FinishOrders
<1>3. /\ \A o \in DOMAIN orders' : o \in DOMAIN orders /\ orders'[o] = orders[o]
      /\ Pending' = Pending /\ Pending \subseteq DOMAIN orders'
  BY <1>2 DEF Pending, TerminalOrders
<1>4. DOMAIN broker \subseteq OrderIds /\ booked \in [OrderIds -> Nat] /\ Late \in [OrderIds -> Nat]
  BY LateIsTyped DEF AccountInv, Books, BrokerOK, Book, BookType
<1>5. \A o \in OrderIds : booked'[o] + Late'[o] = booked[o] + Late[o]
  <2>1. \A o \in OrderIds : booked'[o] = booked[o] + Late[o] /\ Late'[o] = 0
    BY <1>1 DEF Late
  <2> QED BY <1>4, <2>1
<1>6. OpenItemsHold(orders', items')
  <2>1. \A i \in items : i.state = "OPEN" => i.order \in Pending
    BY DEF SettleInv, OpenItemsHold, Pending, Terminal, TerminalStates
  <2> QED BY <1>1, <1>3, <2>1 DEF SettleInv, OpenItemsHold
<1>7. \A o \in Pending' : orders'[o].status \in Waiting
  BY <1>3 DEF SettleInv
<1>8. \A o \in DOMAIN broker' \ Pending' : booked'[o] + Late'[o] = broker'[o].filled
  BY <1>1, <1>3, <1>4, <1>5 DEF SettleInv
<1> QED BY <1>1, <1>6, <1>7, <1>8 DEF SettleInv, Persisted

LEMMA PersistKeepsSettle ==
    ASSUME FillsAreWhole, AccountInv, SettleInv, Persist
    PROVE  SettleInv'
<1>1. UNCHANGED <<orders, booked, items, fills, broker>> /\ pc = "recorded" /\ pc' = "idle"
  BY DEF Persist, memory, brokerVars
<1>2. disk' = Snapshot'
  BY DEF Persist, Snapshot, Pending, FillsAreWhole, OrdersAreWritten, memory
<1>3. Late = NothingYet /\ Late' = NothingYet
  BY <1>1 DEF Late, NothingYet
<1>4. /\ Pending' = Pending /\ DOMAIN broker \subseteq OrderIds /\ booked \in [OrderIds -> Nat]
  BY <1>1 DEF Pending, AccountInv, Books, BrokerOK, Book, BookType
<1>5. \A o \in DOMAIN broker \ Pending : booked[o] = broker[o].filled
  <2>1. \A o \in DOMAIN broker \ Pending : booked[o] + NothingYet[o] = broker[o].filled
    BY <1>1, <1>3 DEF SettleInv
  <2>2. \A o \in OrderIds : booked[o] + NothingYet[o] = booked[o]
    BY <1>4 DEF NothingYet
  <2> QED BY <1>4, <2>1, <2>2
<1>6. /\ \A o \in Pending' : orders'[o].status \in Waiting
      /\ OpenItemsHold(orders', items') /\ \A i \in items' : i.state # "REJECTED"
  BY <1>1, <1>4 DEF SettleInv
<1>7. \A o \in DOMAIN broker' \ Pending' : booked'[o] = broker'[o].filled
  BY <1>1, <1>4, <1>5
<1> QED BY <1>1, <1>2, <1>3, <1>4, <1>6, <1>7, SnapshotKeepsSettle
\* ACCEPT of a completed order: it is FILLED, it has no other open item, and its
\* book is complete.
LEMMA AcceptedIsFilled ==
    ASSUME NEW r \in OrderRecords, r.status = "RECONCILIATION_HOLD", r.filled >= r.approved
    PROVE  BookReconciled(r).status = "FILLED" /\ BookReconciled(r).filled = r.filled
<1>1. FillStatus(r, r.filled) = "FILLED"
  <2>1. CanMove(r.status, "FILLED")
    BY DEF CanMove, Allowed, TerminalStates
  <2> QED BY <2>1 DEF FillStatus
<1>2. "FILLED" \in OrderStatus
  BY DEF OrderStatus, TerminalStates
<1> QED BY <1>1, <1>2, MovedFields DEF BookReconciled

LEMMA FinishAcceptKeepsSettle ==
    ASSUME FillsAreWhole, AccountInv, AccountInv', RestInv, SettleInv, FinishAccept
    PROVE  SettleInv'
<1>1. PICK i \in resolving : /\ booked' = [booked EXCEPT ![i.order] = @ + i.delta]
                             /\ Close(i, "ACCEPTED", BookReconciled(orders[i.order]))
  BY DEF FinishAccept
<1>2. UNCHANGED <<broker, fills>> /\ pc = "resolving"
  BY DEF FinishAccept, brokerVars
<1> DEFINE o    == i.order
           done == [i EXCEPT !.state = "ACCEPTED"]
<1>3. /\ items' = (items \ {i}) \cup {done} /\ pc' = "idle" /\ disk' = Snapshot'
      /\ orders' = [x \in DOMAIN orders |-> IF x = o THEN BookReconciled(orders[o]) ELSE orders[x]]
  BY <1>1 DEF Close, FillsAreWhole, OrdersAreWritten
<1>4. i \in items /\ i.state = "OPEN" /\ i \in Items /\ items \subseteq Items
  BY <1>2 DEF AccountInv, PcInv, Books, Book, BookType
<1>5. done.order = o /\ done.state = "ACCEPTED"
  BY <1>4 DEF Items
<1> HIDE DEF done
<1>6. Late = NothingYet /\ Late' = NothingYet
  BY <1>2, <1>3 DEF Late, NothingYet
<1>7. /\ o \in DOMAIN orders /\ orders[o].status = "RECONCILIATION_HOLD"
      /\ orders[o] \in OrderRecords /\ o \in DOMAIN broker
  BY <1>4 DEF SettleInv, OpenItemsHold, AccountInv, Books, Book, BookType, ItemsAreSane
<1>8. /\ \A j \in items : j.upTo = broker[j.order].qty
      /\ broker[o].filled = broker[o].qty
  BY <1>4 DEF RestInv, WholeInv, Whole, FillsAreWhole
<1>9. /\ orders[o].filled = broker[o].filled /\ orders[o].filled >= orders[o].approved
  <2>1. /\ orders[o].approved = broker[o].qty /\ orders[o].filled <= broker[o].filled
        /\ i.upTo <= orders[o].filled
    BY <1>4, <1>7 DEF AccountInv, Books, Book, Agrees, ItemsAreSane
  <2>2. orders[o].filled \in Nat /\ broker[o].filled \in Nat
    BY <1>7 DEF OrderRecords, AccountInv, Books, BrokerOK
  <2>3. i.upTo = broker[o].filled
    BY <1>4, <1>8
  <2> QED BY <1>8, <2>1, <2>2, <2>3
<1>10. /\ DOMAIN orders' = DOMAIN orders
       /\ orders'[o].status = "FILLED" /\ orders'[o].filled = broker[o].filled
       /\ \A x \in DOMAIN orders : x # o => orders'[x] = orders[x]
  <2>1. BookReconciled(orders[o]).status = "FILLED"
        /\ BookReconciled(orders[o]).filled = orders[o].filled
    BY <1>7, <1>9, AcceptedIsFilled
  <2> HIDE DEF o
  <2> QED BY <1>3, <1>7, <1>9, <2>1
<1>11. \A j \in items : j.state = "OPEN" /\ j # i => j.order # o
  <2>1. \A j, k \in items : j.order = k.order /\ j.upTo = k.upTo => j = k
    BY DEF AccountInv, Books, Book, ItemsAreSane
  <2> QED BY <1>4, <1>8, <2>1
<1> HIDE DEF o
<1>12. OpenItemsHold(orders', items') /\ \A j \in items' : j.state # "REJECTED"
  BY <1>3, <1>5, <1>10, <1>11 DEF SettleInv, OpenItemsHold
<1>13. o \notin Pending' /\ Pending \subseteq Pending' \cup {o} /\ Pending' \subseteq Pending
  BY <1>7, <1>10 DEF Pending, Terminal, TerminalStates
<1>14. \A x \in Pending' : orders'[x].status \in Waiting
  <2>1. \A x \in Pending' : x \in Pending /\ x # o /\ x \in DOMAIN orders
    BY <1>13 DEF Pending
  <2> QED BY <1>10, <2>1 DEF SettleInv
<1>15. booked \in [OrderIds -> Nat] /\ booked' \in [OrderIds -> Nat] /\ DOMAIN broker \subseteq OrderIds
  BY DEF AccountInv, Books, Book, BookType, BrokerOK
<1>16. booked'[o] = broker'[o].filled
  <2>1. ItemsOf(items', o, {"OPEN", "REJECTED"}) = {}
    BY <1>3, <1>5, <1>11, <1>12 DEF ItemsOf
  <2>2. /\ Book(orders', booked', items', NothingYet, broker') /\ BrokerOK(broker')
        /\ NothingYet \in [OrderIds -> Nat]
    BY <1>6, NothingIsTyped DEF AccountInv, Books
  <2>3. o \in DOMAIN orders' /\ o \in OrderIds
    BY <1>7, <1>10, <1>15
  <2>4. o \in DOMAIN orders'
    BY <2>3
  <2>5. booked'[o] + NothingYet[o] = orders'[o].filled
    BY <2>1, <2>2, <2>4, NextBookedInFull
  <2>6. booked'[o] + NothingYet[o] = booked'[o]
    BY <1>15, <2>3 DEF NothingYet
  <2> QED BY <1>2, <1>10, <2>5, <2>6
<1>17. ASSUME NEW x \in DOMAIN broker' \ Pending'
       PROVE  booked'[x] = broker'[x].filled
  <2>1. CASE x = o
    BY <1>16, <2>1
  <2>2. CASE x # o
    <3>1. booked[x] + NothingYet[x] = broker[x].filled
      BY <1>2, <1>6, <1>13, <2>2 DEF SettleInv
    <3>2. booked'[x] = booked[x]
      BY <1>1, <1>2, <1>15, <2>2 DEF o
    <3>3. booked[x] + NothingYet[x] = booked[x]
      BY <1>2, <1>15 DEF NothingYet
    <3> QED BY <1>2, <3>1, <3>2, <3>3
  <2> QED BY <2>1, <2>2
<1> QED BY <1>2, <1>3, <1>6, <1>12, <1>14, <1>15, <1>17, SnapshotKeepsSettle

\* After a restart the orders that are not restored are settled on the disk.
LEMMA RestartKeepsSettle ==
    ASSUME FillsAreWhole, AccountInv, RestInv, SettleInv, Crash \/ Start
    PROVE  SettleInv'
<1>1. CASE Crash
  <2>1. /\ UNCHANGED <<disk, broker>> /\ pc' = "down" /\ orders' = NoOrders /\ items' = {}
        /\ pc \in CrashPoints
    BY <1>1 DEF Crash, brokerVars
  <2>2. pc \in Persisted
    BY <2>1 DEF FillsAreWhole, OrdersAreWritten, Persisted, AccountInv, LoopTypeOK, Points
  <2>3. DOMAIN NoOrders = {}
    BY DEF NoOrders
  <2> QED BY <2>1, <2>2, <2>3 DEF SettleInv, OpenItemsHold, Pending
<1>2. CASE Start
  <2>1. /\ UNCHANGED <<disk, broker, fills>> /\ pc = "down" /\ pc' = "idle"
        /\ items' = disk.items /\ booked' = disk.booked
    BY <1>2 DEF Start
  <2>2. orders' = disk.orders
    BY <1>2, StartRestores
  <2>3. Pending' = DOMAIN disk.orders
    BY <2>2 DEF RestInv, Pending
  <2>4. \A o \in DOMAIN broker : disk.booked[o] + Late'[o] = disk.booked[o]
    <3>1. disk.booked \in [OrderIds -> Nat] /\ DOMAIN broker \subseteq OrderIds
      BY DEF AccountInv, Books, Book, BookType, BrokerOK
    <3>2. \A o \in OrderIds : Late'[o] = 0
      BY <2>1 DEF Late
    <3> QED BY <3>1, <3>2
  <2> QED BY <2>1, <2>2, <2>3, <2>4 DEF SettleInv, Persisted
<1> QED BY <1>1, <1>2

LEMMA EnvironmentKeepsSettle ==
    ASSUME AccountInv, RestInv, SettleInv, Environment
    PROVE  SettleInv'
<1>1. BrokerNext /\ UNCHANGED <<pc, orders, booked, items, fills, disk>>
  BY DEF Environment, memory
<1>2. /\ DOMAIN broker' = DOMAIN broker
      /\ \A o \in DOMAIN broker : o \notin OpenAtBroker => broker'[o] = broker[o]
  BY <1>1, BrokerNextFills DEF AccountInv, Books
<1>3. Pending' = Pending /\ Late' = Late
  BY <1>1 DEF Pending, Late
<1> QED BY <1>1, <1>2, <1>3 DEF SettleInv, RestInv

LEMMA NextKeepsSettle ==
    ASSUME FillsAreWhole, StackInv, AccountInv, AccountInv', RestInv, SettleInv, [Next]_vars
    PROVE  SettleInv'
<1>1. CASE SkipResync \/ PriceFails \/ PlanNothing \/ RecordCycle
  <2>1. /\ UNCHANGED <<orders, booked, items, disk, broker>>
        /\ pc # "down" /\ pc' # "down" /\ pc # "submitting" /\ pc' # "submitting"
        /\ pc' \in Persisted => pc \in Persisted
    BY <1>1 DEF SkipResync, PriceFails, PlanNothing, RecordCycle, memory, brokerVars, Persisted
  <2>2. Late' = Late
    BY <2>1 DEF Late
  <2> QED BY <2>1, <2>2, IdleStepKeepsSettle
<1>2. CASE StateStoreFails
  BY <1>2 DEF StateStoreFails, FillsAreWhole, OrdersAreWritten
<1>3. CASE \E read \in Reads : Resync(read)
  BY <1>3, ResyncKeepsSettle
<1>4. CASE PlanSome
  <2>1. /\ UNCHANGED <<orders, booked, items, fills, disk, broker>>
        /\ pc = "synced" /\ pc' = "submitting"
    BY <1>4 DEF PlanSome, Plan, brokerVars
  <2>2. Late' = Late
    BY <2>1 DEF Late, AccountInv, PcInv
  <2> QED BY <2>1, <2>2, IdleStepKeepsSettle DEF Persisted
<1>5. CASE Submit
  BY <1>5, SubmitKeepsSettle
<1>6. CASE FinishOrders
  BY <1>6, FinishOrdersKeepsSettle
<1>7. CASE Persist
  BY <1>7, PersistKeepsSettle
<1>8. CASE \E i \in items : Accept(i) \/ AcceptUnaudited(i)
  <2>1. /\ UNCHANGED <<orders, booked, items, fills, disk, broker>>
        /\ pc = "idle" /\ pc' \in {"idle", "resolving"}
    BY <1>8 DEF Accept, AcceptUnaudited, memory, brokerVars
  <2>2. Late' = Late
    BY <2>1 DEF Late
  <2> QED BY <2>1, <2>2, IdleStepKeepsSettle DEF Persisted
<1>9. CASE FinishAccept
  BY <1>9, FinishAcceptKeepsSettle
<1>10. CASE \E i \in items : Reject(i)
  BY <1>10 DEF Reject, FillsAreWhole
<1>11. CASE Crash \/ Start
  BY <1>11, RestartKeepsSettle
<1>12. CASE Environment
  BY <1>12, EnvironmentKeepsSettle
<1>13. CASE StartRefused \/ UNCHANGED vars
  <2>1. UNCHANGED <<pc, orders, booked, items, fills, disk, broker>>
    BY <1>13 DEF StartRefused, vars, memory, brokerVars
  <2>2. Pending' = Pending /\ Late' = Late
    BY <2>1 DEF Pending, Late
  <2> QED BY <2>1, <2>2 DEF SettleInv
<1> QED
  BY <1>1, <1>2, <1>3, <1>4, <1>5, <1>6, <1>7, <1>8, <1>9, <1>10, <1>11, <1>12, <1>13
  DEF Next, Service, Operator
\* What a slice yet to be placed asks for, and the most that may be filled of an
\* order: all of one that is resting or not yet placed.
TodoQty(td, o) ==
    IF \E p \in td : p.id = o THEN (CHOOSE p \in td : p.id = o).qty ELSE 0
Worst(td, bro, o) ==
    IF o \in DOMAIN bro
    THEN IF bro[o].open THEN bro[o].qty ELSE bro[o].filled
    ELSE TodoQty(td, o)

\* The largest and the smallest position that s may still reach.
Most(td, bro)  == [o \in OrderIds |-> IF Sign(o) = 1 THEN Worst(td, bro, o) ELSE -FilledIn(bro, o)]
Least(td, bro) == [o \in OrderIds |-> IF Sign(o) = 1 THEN FilledIn(bro, o) ELSE -Worst(td, bro, o)]
Top(td, bro, s)    == SumFunctionOnSet(Most(td, bro), OfSymbol(OrderIds, s))
Bottom(td, bro, s) == SumFunctionOnSet(Least(td, bro), OfSymbol(OrderIds, s))

InReach(td, bro) ==
    \A s \in Symbols : Top(td, bro, s) <= MaxTarget /\ Bottom(td, bro, s) >= 0

ReachInv == InReach(todo, broker)

OneSliceEach(td) ==
    /\ td \subseteq [id : OrderIds, qty : Shares]
    /\ \A p, q \in td : p.id = q.id => p = q

LEMMA TodoIs ==
    ASSUME NEW td, OneSliceEach(td)
    PROVE  /\ \A p \in td : TodoQty(td, p.id) = p.qty
           /\ \A o : (\A p \in td : p.id # o) => TodoQty(td, o) = 0
           /\ \A o : TodoQty(td, o) \in Nat
<1>1. ASSUME NEW p \in td
      PROVE  TodoQty(td, p.id) = p.qty
  <2> DEFINE q == CHOOSE q \in td : q.id = p.id
  <2>1. q \in td /\ q.id = p.id
    OBVIOUS
  <2>2. q = p
    BY <2>1 DEF OneSliceEach
  <2>3. TodoQty(td, p.id) = q.qty
    BY DEF TodoQty
  <2> QED BY <2>2, <2>3
<1>2. \A o : (\A p \in td : p.id # o) => TodoQty(td, o) = 0
  BY DEF TodoQty
<1>3. \A p \in td : p.qty \in Nat
  BY DEF OneSliceEach, Shares
<1> HIDE DEF OneSliceEach
<1>4. \A o : TodoQty(td, o) \in Nat
  BY <1>1, <1>2, <1>3
<1> QED BY <1>1, <1>2, <1>4

LEMMA ReachTypes ==
    ASSUME NEW td, OneSliceEach(td), NEW bro, BrokerOK(bro)
    PROVE  \A o \in OrderIds :
             /\ Worst(td, bro, o) \in Nat /\ FilledIn(bro, o) \in Nat
             /\ FilledIn(bro, o) <= Worst(td, bro, o)
             /\ Most(td, bro)[o] \in Int /\ Least(td, bro)[o] \in Int
<1> SUFFICES ASSUME NEW o \in OrderIds
             PROVE  /\ Worst(td, bro, o) \in Nat /\ FilledIn(bro, o) \in Nat
                    /\ FilledIn(bro, o) <= Worst(td, bro, o)
                    /\ Most(td, bro)[o] \in Int /\ Least(td, bro)[o] \in Int
  OBVIOUS
<1>1. TodoQty(td, o) \in Nat
  BY TodoIs
<1>2. /\ Worst(td, bro, o) \in Nat /\ FilledIn(bro, o) \in Nat
      /\ FilledIn(bro, o) <= Worst(td, bro, o)
  BY <1>1 DEF Worst, FilledIn, BrokerOK, Shares
<1> QED BY <1>2 DEF Most, Least

\* What can still be reached shrinks with what is left to fill.
LEMMA ReachShrinks ==
    ASSUME NEW td, OneSliceEach(td), NEW bro, BrokerOK(bro),
           NEW left, OneSliceEach(left), NEW now, BrokerOK(now),
           \A o \in OrderIds : /\ Worst(left, now, o) <= Worst(td, bro, o)
                               /\ FilledIn(bro, o) <= FilledIn(now, o),
           InReach(td, bro)
    PROVE  InReach(left, now)
<1> SUFFICES ASSUME NEW s \in Symbols
             PROVE  Top(left, now, s) <= MaxTarget /\ Bottom(left, now, s) >= 0
  BY DEF InReach
<1> DEFINE S == OfSymbol(OrderIds, s)
<1>1. IsFiniteSet(S) /\ S \subseteq OrderIds
  BY OrdersOfASymbolAreFinite DEF OfSymbol
<1>2. \A o \in OrderIds : /\ Worst(td, bro, o) \in Nat /\ FilledIn(bro, o) \in Nat
                          /\ Worst(left, now, o) \in Nat /\ FilledIn(now, o) \in Nat
  BY ReachTypes
<1>3. \A o \in OrderIds : /\ Most(left, now)[o] \in Int /\ Most(td, bro)[o] \in Int
                          /\ Most(left, now)[o] <= Most(td, bro)[o]
                          /\ Least(left, now)[o] \in Int /\ Least(td, bro)[o] \in Int
                          /\ Least(td, bro)[o] <= Least(left, now)[o]
  BY <1>2 DEF Most, Least
<1> HIDE DEF S
<1>4. SumFunctionOnSet(Most(left, now), S) <= SumFunctionOnSet(Most(td, bro), S)
  BY <1>1, <1>3, SumCompares
<1>5. SumFunctionOnSet(Least(td, bro), S) <= SumFunctionOnSet(Least(left, now), S)
  BY <1>1, <1>3, SumCompares
<1>6. /\ SumFunctionOnSet(Most(left, now), S) \in Int /\ SumFunctionOnSet(Most(td, bro), S) \in Int
      /\ SumFunctionOnSet(Least(left, now), S) \in Int /\ SumFunctionOnSet(Least(td, bro), S) \in Int
  BY <1>1, <1>3, SumOneMore
<1>7. Top(td, bro, s) <= MaxTarget /\ Bottom(td, bro, s) >= 0
  BY DEF InReach
<1> QED BY <1>4, <1>5, <1>6, <1>7, TargetAssumption DEF S, Top, Bottom
LEMMA TodoIsOneEach == AccountInv => OneSliceEach(todo) /\ BrokerOK(broker)
  BY DEF AccountInv, LoopTypeOK, FreshInv, Books, OneSliceEach

\* The broker fills or closes what was resting.
LEMMA EnvironmentKeepsReach ==
    ASSUME AccountInv, AccountInv', ReachInv, Environment
    PROVE  ReachInv'
<1>1. BrokerNext /\ todo' = todo
  BY DEF Environment, memory
<1>2. /\ OneSliceEach(todo) /\ BrokerOK(broker) /\ BrokerOK(broker')
  BY TodoIsOneEach DEF AccountInv, Books
<1>3. /\ DOMAIN broker' = DOMAIN broker
      /\ \A o \in DOMAIN broker : /\ broker'[o].qty = broker[o].qty
                                  /\ o \notin OpenAtBroker => broker'[o] = broker[o]
  BY <1>1, <1>2, BrokerNextFills
<1>4. BrokerMoves(broker, broker')
  BY <1>1, <1>2, BrokerNextMoves
<1>5. ASSUME NEW o \in OrderIds
      PROVE  /\ Worst(todo, broker', o) <= Worst(todo, broker, o)
             /\ FilledIn(broker, o) <= FilledIn(broker', o)
  <2>1. CASE o \notin DOMAIN broker
    <3>1. TodoQty(todo, o) \in Nat
      BY <1>2, TodoIs
    <3> QED BY <1>3, <2>1, <3>1 DEF Worst, FilledIn
  <2>2. CASE o \in DOMAIN broker
    <3>1. /\ broker[o].filled \in Nat /\ broker'[o].filled \in Nat
          /\ broker[o].qty \in Nat /\ broker[o].filled <= broker'[o].filled
          /\ broker'[o].filled <= broker'[o].qty /\ broker'[o].qty = broker[o].qty
      BY <1>2, <1>3, <1>4, <2>2 DEF BrokerOK, BrokerMoves, Shares
    <3>2. broker[o].open \/ broker'[o] = broker[o]
      BY <1>3, <2>2 DEF OpenAtBroker
    <3>3. FilledIn(broker, o) <= FilledIn(broker', o)
      BY <1>3, <2>2, <3>1 DEF FilledIn
    <3>4. Worst(todo, broker', o) <= Worst(todo, broker, o)
      BY <1>3, <2>2, <3>1, <3>2 DEF Worst
    <3> QED BY <3>3, <3>4
  <2> QED BY <2>1, <2>2
<1> QED BY <1>1, <1>2, <1>5, ReachShrinks DEF ReachInv

\* OrderManager.place: the slice is with the broker, or nowhere any more.
LEMMA PlacingKeepsReach ==
    ASSUME AccountInv, AccountInv', ReachInv, NEW p, Submitting(p),
           \/ broker' = broker
           \/ \E k \in 0 .. p.qty : Accepts(p.id, p.qty, k)
    PROVE  ReachInv'
<1>1. p \in todo /\ todo' = todo \ {p}
  BY DEF Submitting
<1>2. /\ OneSliceEach(todo) /\ BrokerOK(broker) /\ OneSliceEach(todo') /\ BrokerOK(broker')
  <2>1. OneSliceEach(todo) /\ BrokerOK(broker) /\ BrokerOK(broker')
    BY TodoIsOneEach DEF AccountInv, Books
  <2> QED BY <1>1, <2>1 DEF OneSliceEach
<1>3. /\ TodoQty(todo, p.id) = p.qty /\ TodoQty(todo', p.id) = 0 /\ p.qty \in Nat
  <2>1. \A q \in todo' : q.id # p.id
    BY <1>1, <1>2 DEF OneSliceEach
  <2> QED BY <1>1, <1>2, <2>1, TodoIs DEF OneSliceEach, Shares
<1>4. ASSUME NEW o \in OrderIds, o # p.id
      PROVE  TodoQty(todo', o) = TodoQty(todo, o)
  <2>1. CASE \E q \in todo : q.id = o
    <3>1. PICK q \in todo : q.id = o
      BY <2>1
    <3>2. q \in todo'
      BY <1>1, <1>4, <3>1
    <3> QED BY <1>2, <3>1, <3>2, TodoIs
  <2>2. CASE \A q \in todo : q.id # o
    BY <1>1, <1>2, <2>2, TodoIs
  <2> QED BY <2>1, <2>2
<1>5. p.id \notin DOMAIN broker
  BY <1>1 DEF AccountInv, FreshInv, Known
<1>6. ASSUME NEW o \in OrderIds, o # p.id
      PROVE  Worst(todo', broker', o) = Worst(todo, broker, o)
             /\ FilledIn(broker', o) = FilledIn(broker, o)
  <2>1. /\ o \in DOMAIN broker' <=> o \in DOMAIN broker
        /\ o \in DOMAIN broker => broker'[o] = broker[o]
    BY <1>6 DEF Accepts
  <2>2. FilledIn(broker', o) = FilledIn(broker, o)
    BY <2>1 DEF FilledIn
  <2> QED BY <1>4, <1>6, <2>1, <2>2 DEF Worst
<1>7. /\ Worst(todo', broker', p.id) <= p.qty
      /\ Worst(todo, broker, p.id) = p.qty /\ FilledIn(broker, p.id) = 0
      /\ FilledIn(broker', p.id) >= 0
  <2>1. CASE broker' = broker
    BY <1>3, <1>5, <2>1 DEF Worst, FilledIn
  <2>2. ASSUME NEW k \in 0 .. p.qty, Accepts(p.id, p.qty, k)
        PROVE  /\ Worst(todo', broker', p.id) <= p.qty /\ FilledIn(broker', p.id) >= 0
    <3>1. p.id \in DOMAIN broker' /\ broker'[p.id] = [qty |-> p.qty, filled |-> k, open |-> k < p.qty]
      BY <2>2 DEF Accepts
    <3> QED BY <1>3, <3>1 DEF Worst, FilledIn
  <2>3. Worst(todo, broker, p.id) = p.qty /\ FilledIn(broker, p.id) = 0
    BY <1>3, <1>5 DEF Worst, FilledIn
  <2> QED BY <2>1, <2>2, <2>3
<1>8. \A o \in OrderIds : /\ Worst(todo', broker', o) <= Worst(todo, broker, o)
                          /\ FilledIn(broker, o) <= FilledIn(broker', o)
  <2> SUFFICES ASSUME NEW o \in OrderIds
               PROVE  /\ Worst(todo', broker', o) <= Worst(todo, broker, o)
                      /\ FilledIn(broker, o) <= FilledIn(broker', o)
    OBVIOUS
  <2>1. Worst(todo, broker, o) \in Nat /\ FilledIn(broker, o) \in Nat
    BY <1>2, ReachTypes
  <2> QED BY <1>6, <1>7, <2>1
<1> QED BY <1>2, <1>8, ReachShrinks DEF ReachInv

LEMMA SubmitKeepsReach ==
    ASSUME AccountInv, AccountInv', ReachInv, Submit
    PROVE  ReachInv'
<1>1. PICK p \in todo : \/ PlaceDisconnected(p) \/ PlaceUnsent(p) \/ PlaceRaises(p)
                        \/ \E k \in 0 .. p.qty : PlaceAccepted(p, k)
  BY DEF Submit
<1>2. p.qty \in Nat
  BY DEF AccountInv, LoopTypeOK, Shares
<1>3. Submitting(p) /\ (broker' = broker \/ \E k \in 0 .. p.qty : Accepts(p.id, p.qty, k))
  BY <1>1, <1>2 DEF PlaceDisconnected, PlaceUnsent, PlaceRaises, PlaceAccepted
<1> QED BY <1>3, PlacingKeepsReach
\* STEP 11 sees a symbol without an order that blocks it as it is at the broker:
\* nothing is in flight and the held book is the position.
LEMMA UnblockedIsSettled ==
    ASSUME StackInv, AccountInv, RestInv, SettleInv, pc = "synced",
           NEW s \in Symbols, ~BlockedSymbol(s)
    PROVE  /\ Overlay(s) = 0
           /\ \A o \in OfSymbol(OrderIds, s) :
                 /\ Worst({}, broker, o) = booked[o] /\ FilledIn(broker, o) = booked[o]
           /\ Top({}, broker, s) = Held(s) /\ Bottom({}, broker, s) = Held(s)
<1> DEFINE S == OfSymbol(OrderIds, s)
<1>1. OfSymbol(Pending, s) = {}
  <2> SUFFICES ASSUME NEW o \in Pending, SymbolOf(o) = s
               PROVE  FALSE
    BY DEF OfSymbol
  <2>1. o \in DOMAIN orders /\ orders[o].status \in ResubmitBlockingStates
    BY DEF Pending, StackInv, Settled, Terminal
  <2> QED BY <2>1 DEF BlockedSymbol, OfSymbol
<1>2. Overlay(s) = 0
  BY <1>1, SumOfNone DEF Overlay, SignedSum
<1>3. /\ Late = NothingYet /\ NothingYet \in [OrderIds -> Nat]
      /\ booked \in [OrderIds -> Nat] /\ BrokerOK(broker)
      /\ Book(orders, booked, items, NothingYet, broker)
  <2>1. Late = NothingYet
    BY DEF Late, NothingYet
  <2> QED BY <2>1, NothingIsTyped DEF AccountInv, Books, Book, BookType
<1>4. ASSUME NEW o \in S
      PROVE  Worst({}, broker, o) = booked[o] /\ FilledIn(broker, o) = booked[o]
  <2>1. o \in OrderIds /\ o \notin Pending
    BY <1>1 DEF OfSymbol
  <2>2. CASE o \notin DOMAIN broker
    <3>1. booked[o] = 0
      BY <1>3, <2>1, <2>2, NothingBeforeTheBroker
    <3> QED BY <2>2, <3>1 DEF Worst, FilledIn, TodoQty
  <2>3. CASE o \in DOMAIN broker
    <3>1. booked[o] + NothingYet[o] = broker[o].filled
      BY <1>3, <2>1, <2>3 DEF SettleInv
    <3>2. booked[o] = broker[o].filled
      BY <1>3, <2>1, <3>1 DEF NothingYet
    <3>3. ~broker[o].open
      BY <2>1, <2>3 DEF RestInv, OpenAtBroker
    <3> QED BY <2>3, <3>2, <3>3 DEF Worst, FilledIn
  <2> QED BY <2>2, <2>3
<1>5. IsFiniteSet(S) /\ S \subseteq OrderIds
  BY OrdersOfASymbolAreFinite DEF OfSymbol
<1> DEFINE held == [o \in S |-> Sign(o) * booked[o]]
<1>6. \A o \in S : /\ held[o] \in Int
                   /\ Most({}, broker)[o] = held[o] /\ Least({}, broker)[o] = held[o]
  <2> SUFFICES ASSUME NEW o \in S
               PROVE  /\ held[o] \in Int
                      /\ Most({}, broker)[o] = held[o] /\ Least({}, broker)[o] = held[o]
    OBVIOUS
  <2>1. o \in OrderIds /\ booked[o] \in Nat /\ held[o] = Sign(o) * booked[o]
    BY <1>3, <1>5
  <2>2. Sign(o) \in {1, -1}
    BY DEF Sign
  <2> HIDE DEF held
  <2> QED BY <1>4, <2>1, <2>2 DEF Most, Least
<1>7. Held(s) = SumFunctionOnSet(held, S)
  BY DEF Held, SignedSum
<1> HIDE DEF S, held
<1>8. /\ SumFunctionOnSet(Most({}, broker), S) = SumFunctionOnSet(held, S)
      /\ SumFunctionOnSet(Least({}, broker), S) = SumFunctionOnSet(held, S)
  BY <1>5, <1>6, SumSame
<1> QED BY <1>2, <1>4, <1>7, <1>8 DEF Top, Bottom, S

\* schedule_order: the slices together are no larger than the delta.
LEMMA SlicesAddUp ==
    ASSUME NEW d \in Nat, NEW part \in {1, 2}, NEW n \in Nat \ {0}
    PROVE  /\ (d \div part) \div n \in Nat
           /\ \A k \in Nat : k <= n => k * ((d \div part) \div n) <= d
<1> DEFINE size == d \div part
           each == size \div n
<1>1. size \in Nat /\ size <= d
  <2>1. d \div 1 = d /\ d \div 2 \in Nat /\ d \div 2 <= d
    OBVIOUS
  <2> QED BY <2>1
<1> HIDE DEF size
<1>2. each \in Nat /\ n * each <= size
  <2>1. /\ size \div n \in Int /\ size = n * (size \div n) + (size % n) /\ size \div n >= 0
        /\ size % n >= 0
    BY <1>1
  <2> QED BY <1>1, <2>1
<1> HIDE DEF each
<1>3. ASSUME NEW k \in Nat, k <= n
      PROVE  k * each <= d
  <2>1. k * each <= n * each
    BY <1>2, <1>3
  <2>2. k * each \in Nat /\ n * each \in Nat
    BY <1>2
  <2> QED BY <1>1, <1>2, <2>1, <2>2
<1> QED BY <1>2, <1>3 DEF size, each
\* A symbol for which nothing is placed can reach what it could.
LEMMA NoSliceNoReach ==
    ASSUME NEW td, OneSliceEach(td), NEW bro, BrokerOK(bro), NEW s,
           \A p \in td : SymbolOf(p.id) # s
    PROVE  Top(td, bro, s) = Top({}, bro, s) /\ Bottom(td, bro, s) = Bottom({}, bro, s)
<1> DEFINE S == OfSymbol(OrderIds, s)
<1>1. IsFiniteSet(S) /\ \A o \in S : o \in OrderIds /\ SymbolOf(o) = s
  BY OrdersOfASymbolAreFinite DEF OfSymbol
<1>2. OneSliceEach({})
  BY DEF OneSliceEach
<1>3. \A o \in S : TodoQty(td, o) = 0 /\ TodoQty({}, o) = 0
  BY <1>1, <1>2, TodoIs
<1>4. \A o \in S : Most({}, bro)[o] \in Int /\ Least({}, bro)[o] \in Int
  BY <1>1, <1>2, ReachTypes
<1>5. \A o \in S : /\ Most(td, bro)[o] = Most({}, bro)[o]
                   /\ Least(td, bro)[o] = Least({}, bro)[o]
  BY <1>1, <1>3 DEF Most, Least, Worst
<1> HIDE DEF S
<1>6. /\ SumFunctionOnSet(Most({}, bro), S) = SumFunctionOnSet(Most(td, bro), S)
      /\ SumFunctionOnSet(Least({}, bro), S) = SumFunctionOnSet(Least(td, bro), S)
  BY <1>1, <1>4, <1>5, SumSame
<1> QED BY <1>6 DEF Top, Bottom, S

\* One side's new slices, all alike, move that side's bound by what they ask for.
LEMMA SlicesMoveReach ==
    ASSUME NEW td, OneSliceEach(td), NEW bro, BrokerOK(bro), NEW s,
           NEW ids \in SUBSET OfSymbol(OrderIds, s), NEW side \in {"BUY", "SELL"}, NEW each \in Nat,
           \A o \in ids : o \notin DOMAIN bro /\ o[3] = side /\ TodoQty(td, o) = each,
           \A o \in OfSymbol(OrderIds, s) \ ids : TodoQty(td, o) = 0
    PROVE  /\ Top(td, bro, s) = Top({}, bro, s) + IF side = "BUY" THEN Cardinality(ids) * each ELSE 0
           /\ Bottom({}, bro, s) = Bottom(td, bro, s)
                                     + IF side = "BUY" THEN 0 ELSE Cardinality(ids) * each
<1> DEFINE S == OfSymbol(OrderIds, s)
<1>1. IsFiniteSet(S) /\ \A o \in S : o \in OrderIds
  BY OrdersOfASymbolAreFinite DEF OfSymbol
<1>2. OneSliceEach({})
  BY DEF OneSliceEach
<1>3. \A o \in S : /\ Most({}, bro)[o] \in Int /\ Least({}, bro)[o] \in Int
                   /\ Most(td, bro)[o] \in Int /\ Least(td, bro)[o] \in Int
  BY <1>1, <1>2, ReachTypes
<1>4. \A o \in S : /\ TodoQty({}, o) = 0
                   /\ o \in ids => Worst({}, bro, o) = 0 /\ Worst(td, bro, o) = each
                   /\ o \notin ids => Worst(td, bro, o) = Worst({}, bro, o)
  <2>1. \A o \in S : TodoQty({}, o) = 0
    BY <1>2, TodoIs
  <2> QED BY <2>1 DEF Worst
<1>5. \A o \in ids : Sign(o) = IF side = "BUY" THEN 1 ELSE -1
  BY DEF Sign
<1>6. CASE side = "BUY"
  <2>1. \A o \in S : /\ Most(td, bro)[o] = Most({}, bro)[o] + IF o \in ids THEN each ELSE 0
                     /\ Least(td, bro)[o] = Least({}, bro)[o]
    <3> SUFFICES ASSUME NEW o \in S
                 PROVE  /\ Most(td, bro)[o] = Most({}, bro)[o] + IF o \in ids THEN each ELSE 0
                        /\ Least(td, bro)[o] = Least({}, bro)[o]
      OBVIOUS
    <3>1. CASE o \in ids
      BY <1>1, <1>4, <1>5, <1>6, <3>1 DEF Most, Least
    <3>2. CASE o \notin ids
      <4>1. Most(td, bro)[o] = Most({}, bro)[o] /\ Least(td, bro)[o] = Least({}, bro)[o]
        BY <1>1, <1>4, <3>2 DEF Most, Least
      <4> QED BY <1>3, <3>2, <4>1
    <3> QED BY <3>1, <3>2
  <2> HIDE DEF S
  <2>2. ids \in SUBSET S
    BY DEF S
  <2>3. SumFunctionOnSet(Most(td, bro), S) =
          SumFunctionOnSet(Most({}, bro), S) + Cardinality(ids) * each
    BY <1>1, <1>3, <2>1, <2>2, SumOfRaised
  <2>4. SumFunctionOnSet(Least({}, bro), S) = SumFunctionOnSet(Least(td, bro), S)
    BY <1>1, <1>3, <2>1, SumSame
  <2>5. SumFunctionOnSet(Least(td, bro), S) \in Int
    BY <1>1, <1>3, SumOneMore
  <2> QED BY <1>6, <2>3, <2>4, <2>5 DEF Top, Bottom, S
<1>7. CASE side = "SELL"
  <2>1. \A o \in S : /\ Least({}, bro)[o] = Least(td, bro)[o] + IF o \in ids THEN each ELSE 0
                     /\ Most(td, bro)[o] = Most({}, bro)[o]
    <3> SUFFICES ASSUME NEW o \in S
                 PROVE  /\ Least({}, bro)[o] = Least(td, bro)[o] + IF o \in ids THEN each ELSE 0
                        /\ Most(td, bro)[o] = Most({}, bro)[o]
      OBVIOUS
    <3>1. CASE o \in ids
      BY <1>1, <1>4, <1>5, <1>7, <3>1 DEF Most, Least
    <3>2. CASE o \notin ids
      <4>1. Most(td, bro)[o] = Most({}, bro)[o] /\ Least(td, bro)[o] = Least({}, bro)[o]
        BY <1>1, <1>4, <3>2 DEF Most, Least
      <4> QED BY <1>3, <3>2, <4>1
    <3> QED BY <3>1, <3>2
  <2> HIDE DEF S
  <2>2. ids \in SUBSET S
    BY DEF S
  <2>3. SumFunctionOnSet(Least({}, bro), S) =
          SumFunctionOnSet(Least(td, bro), S) + Cardinality(ids) * each
    BY <1>1, <1>3, <2>1, <2>2, SumOfRaised
  <2>4. SumFunctionOnSet(Most({}, bro), S) = SumFunctionOnSet(Most(td, bro), S)
    BY <1>1, <1>3, <2>1, SumSame
  <2>5. SumFunctionOnSet(Most({}, bro), S) \in Int
    BY <1>1, <1>3, SumOneMore
  <2> QED BY <1>7, <2>3, <2>4, <2>5 DEF Top, Bottom, S
<1> QED BY <1>6, <1>7

\* A plan for one symbol: the position may now come as far as the target.
LEMMA PlannedSymbolInReach ==
    ASSUME AccountInv, NEW td, OneSliceEach(td), NEW s \in Symbols, NEW goal \in 0 .. MaxTarget,
           NEW stressed \in BOOLEAN, NEW n \in 1 .. MaxSlices, asof < MaxAsof,
           Overlay(s) = 0, NEW here \in Int, Held(s) = here,
           Top({}, broker, s) = here, Bottom({}, broker, s) = here,
           Top({}, broker, s) <= MaxTarget /\ Bottom({}, broker, s) >= 0,
           Slices(s, goal - Held(s) - Overlay(s), stressed, n) # {},
           {p \in td : SymbolOf(p.id) = s} = Slices(s, goal - Held(s) - Overlay(s), stressed, n)
    PROVE  Top(td, broker, s) <= MaxTarget /\ Bottom(td, broker, s) >= 0
<1> DEFINE delta == goal - here
           size  == IF delta < 0 THEN -delta ELSE delta
           part  == IF stressed THEN 2 ELSE 1
           each  == (size \div part) \div n
           side  == IF delta > 0 THEN "BUY" ELSE "SELL"
           of    == [i \in 0 .. n - 1 |-> <<asof + 1, s, side, i>>]
           ids   == {of[i] : i \in 0 .. n - 1}
<1>1. goal - Held(s) - Overlay(s) = delta /\ delta \in Int /\ MaxTarget \in Nat
  BY TargetAssumption
<1>2. {p \in td : SymbolOf(p.id) = s} = {[id |-> <<asof + 1, s, side, i>>, qty |-> each] : i \in 0 .. n - 1}
  BY <1>1 DEF Slices
<1>3. size \in Nat /\ part \in {1, 2} /\ n \in Nat \ {0} /\ side \in {"BUY", "SELL"}
  BY <1>1, BoundsAssumption
<1>4. each \in Nat /\ \A k \in Nat : k <= n => k * each <= size
  <2> HIDE DEF size, part
  <2> QED BY <1>3, SlicesAddUp
<1> HIDE DEF each, size, part, side
<1>5. IsFiniteSet(ids) /\ Cardinality(ids) \in Nat /\ Cardinality(ids) <= n
  <2>1. IsFiniteSet(0 .. n - 1) /\ Cardinality(0 .. n - 1) = n
    <3>1. 0 \in Int /\ n - 1 \in Int /\ ~(0 > n - 1) /\ n - 1 - 0 + 1 = n
      BY <1>3
    <3> QED BY <3>1, FS_Interval
  <2>2. of \in Surjection(0 .. n - 1, ids)
    BY DEF Surjection
  <2> HIDE DEF of, ids
  <2>3. IsFiniteSet(ids) /\ Cardinality(ids) <= Cardinality(0 .. n - 1)
    BY <2>1, <2>2, FS_Surjection
  <2> QED BY <2>1, <2>3, FS_CardinalityType
<1>6. ids \in SUBSET OfSymbol(OrderIds, s)
  <2>1. \A i \in 0 .. n - 1 : i \in 0 .. MaxSlices - 1
    BY <1>3, BoundsAssumption
  <2>2. asof + 1 \in 1 .. MaxAsof
    BY BoundsAssumption DEF AccountInv, LoopTypeOK
  <2> QED BY <1>3, <2>1, <2>2 DEF OfSymbol, OrderIds, SymbolOf
<1>7. \A o \in ids : o \notin DOMAIN broker /\ o[3] = side
  <2>1. \A o \in ids : AsofOf(o) = asof + 1 /\ o[3] = side
    BY DEF AsofOf
  <2>2. \A o \in DOMAIN broker : AsofOf(o) <= asof
    BY DEF AccountInv, FreshInv, Known
  <2>3. asof \in Nat
    BY BoundsAssumption DEF AccountInv, LoopTypeOK
  <2> QED BY <2>1, <2>2, <2>3
<1>8. \A o \in ids : TodoQty(td, o) = each
  <2> SUFFICES ASSUME NEW i \in 0 .. n - 1
               PROVE  TodoQty(td, <<asof + 1, s, side, i>>) = each
    OBVIOUS
  <2> DEFINE p == [id |-> <<asof + 1, s, side, i>>, qty |-> each]
  <2>1. p \in td /\ p.id = <<asof + 1, s, side, i>> /\ p.qty = each
    BY <1>2
  <2> HIDE DEF p
  <2>2. TodoQty(td, p.id) = p.qty
    BY <2>1, TodoIs
  <2> QED BY <2>1, <2>2
<1>9. \A o \in OfSymbol(OrderIds, s) \ ids : TodoQty(td, o) = 0
  <2> SUFFICES ASSUME NEW o \in OfSymbol(OrderIds, s), o \notin ids
               PROVE  \A p \in td : p.id # o
    BY TodoIs
  <2> SUFFICES ASSUME NEW p \in td, p.id = o
               PROVE  FALSE
    OBVIOUS
  <2>1. SymbolOf(p.id) = s
    BY DEF OfSymbol
  <2> QED BY <1>2, <2>1
<1> HIDE DEF ids
<1>10. /\ Top(td, broker, s) = here + IF side = "BUY" THEN Cardinality(ids) * each ELSE 0
       /\ here = Bottom(td, broker, s) + IF side = "BUY" THEN 0 ELSE Cardinality(ids) * each
  <2>1. BrokerOK(broker)
    BY DEF AccountInv, Books
  <2> QED BY <1>3, <1>4, <1>6, <1>7, <1>8, <1>9, <2>1, SlicesMoveReach
<1>11. Cardinality(ids) * each \in Nat /\ Cardinality(ids) * each <= size
  BY <1>4, <1>5
<1> DEFINE sum == Cardinality(ids) * each
<1>12. /\ Bottom(td, broker, s) \in Int
  <2>1. IsFiniteSet(OfSymbol(OrderIds, s)) /\ BrokerOK(broker)
    BY OrdersOfASymbolAreFinite DEF AccountInv, Books
  <2>2. \A o \in OfSymbol(OrderIds, s) : Least(td, broker)[o] \in Int
    BY <2>1, ReachTypes DEF OfSymbol
  <2> QED BY <2>1, <2>2, SumOneMore DEF Bottom
<1> HIDE DEF sum
<1>13. CASE delta > 0
  BY <1>1, <1>10, <1>11, <1>12, <1>13 DEF size, side
<1>14. CASE ~(delta > 0)
  BY <1>1, <1>10, <1>11, <1>12, <1>14 DEF size, side
<1> QED BY <1>13, <1>14

LEMMA PlanKeepsReach ==
    ASSUME StackInv, AccountInv, AccountInv', RestInv, SettleInv, ReachInv,
           NEW target \in [Symbols -> 0 .. MaxTarget], NEW stressed \in BOOLEAN,
           NEW n \in 1 .. MaxSlices, Plan(target, stressed, n)
    PROVE  ReachInv'
<1> DEFINE planned(s) == Slices(s, target[s] - Held(s) - Overlay(s), stressed, n)
           free       == {s \in Symbols : ~BlockedSymbol(s)}
<1>1. /\ pc = "synced" /\ broker' = broker
      /\ todo' = UNION {planned(s) : s \in free}
      /\ todo' # {} => asof < MaxAsof
  BY DEF Plan, brokerVars
<1>2. todo = {} /\ OneSliceEach(todo') /\ BrokerOK(broker)
  <2>1. todo' \subseteq [id : OrderIds, qty : Shares] /\ \A p, q \in todo' : p.id = q.id => p = q
    BY DEF AccountInv, LoopTypeOK, FreshInv
  <2> QED BY <1>1, <2>1 DEF AccountInv, PcInv, Books, OneSliceEach
<1>3. ASSUME NEW s \in free, NEW p \in planned(s)
      PROVE  SymbolOf(p.id) = s
  <2>1. Held(s) \in Int /\ Overlay(s) \in Int
    BY PositionsAreIntegers DEF AccountInv, Books, Book
  <2>2. target[s] - Held(s) - Overlay(s) \in Int
    BY <2>1, TargetAssumption
  <2> QED BY <2>2, SlicesAreTyped DEF AccountInv, LoopTypeOK
<1> SUFFICES ASSUME NEW s \in Symbols
             PROVE  Top(todo', broker, s) <= MaxTarget /\ Bottom(todo', broker, s) >= 0
  BY <1>1 DEF ReachInv, InReach
<1>4. Top({}, broker, s) <= MaxTarget /\ Bottom({}, broker, s) >= 0
  BY <1>2 DEF ReachInv, InReach
<1>5. CASE \A p \in todo' : SymbolOf(p.id) # s
  BY <1>2, <1>4, <1>5, NoSliceNoReach
<1>6. ASSUME NEW p \in todo', SymbolOf(p.id) = s
      PROVE  Top(todo', broker, s) <= MaxTarget /\ Bottom(todo', broker, s) >= 0
  <2> HIDE DEF planned
  <2>1. s \in free /\ planned(s) # {}
    BY <1>1, <1>3, <1>6
  <2>2. {q \in todo' : SymbolOf(q.id) = s} = planned(s)
    BY <1>1, <1>3, <2>1
  <2>3. /\ Overlay(s) = 0 /\ Top({}, broker, s) = Held(s) /\ Bottom({}, broker, s) = Held(s)
    BY <1>1, <2>1, UnblockedIsSettled
  <2>4. Held(s) \in Int
    BY PositionsAreIntegers DEF AccountInv, Books, Book
  <2>5. asof < MaxAsof /\ target[s] \in 0 .. MaxTarget
    BY <1>1
  <2> QED BY <1>2, <1>4, <2>1, <2>2, <2>3, <2>4, <2>5, PlannedSymbolInReach DEF planned
<1> QED BY <1>5, <1>6
LEMMA NextKeepsReach ==
    ASSUME StackInv, AccountInv, AccountInv', RestInv, SettleInv, ReachInv, [Next]_vars
    PROVE  ReachInv'
<1>1. CASE PlanSome
  BY <1>1, PlanKeepsReach DEF PlanSome
<1>2. CASE Submit
  BY <1>2, SubmitKeepsReach
<1>3. CASE Environment
  BY <1>3, EnvironmentKeepsReach
<1>4. CASE Crash
  <2>1. todo' = {} /\ broker' = broker
    BY <1>4 DEF Crash, brokerVars
  <2>2. OneSliceEach({}) /\ OneSliceEach(todo) /\ BrokerOK(broker)
    BY TodoIsOneEach DEF OneSliceEach
  <2>3. ASSUME NEW o \in OrderIds
        PROVE  /\ Worst({}, broker, o) <= Worst(todo, broker, o)
               /\ FilledIn(broker, o) <= FilledIn(broker, o)
    <3>1. TodoQty({}, o) = 0 /\ TodoQty(todo, o) \in Nat
      BY <2>2, TodoIs
    <3>2. Worst(todo, broker, o) \in Nat /\ FilledIn(broker, o) \in Nat
      BY <2>2, ReachTypes
    <3> QED BY <3>1, <3>2 DEF Worst
  <2> QED BY <2>1, <2>2, <2>3, ReachShrinks DEF ReachInv
<1>5. ASSUME UNCHANGED <<todo, broker>>
      PROVE  ReachInv'
  BY <1>5 DEF ReachInv
<1>6. ASSUME SkipResync \/ (\E read \in Reads : Resync(read)) \/ PriceFails \/ PlanNothing
               \/ FinishOrders \/ StateStoreFails \/ RecordCycle \/ Persist \/ FinishAccept
               \/ StartRefused \/ Start \/ Operator \/ UNCHANGED vars
      PROVE  UNCHANGED <<todo, broker>>
  BY <1>6 DEF SkipResync, Resync, PriceFails, PlanNothing, FinishOrders, StateStoreFails,
              RecordCycle, Persist, FinishAccept, StartRefused, Start, Operator, Accept,
              AcceptUnaudited, Reject, vars, memory, brokerVars
<1> QED BY <1>1, <1>2, <1>3, <1>4, <1>5, <1>6 DEF Next, Service

\* The broker's position and what rests there, against what can be reached.
LEMMA ReachBoundsThePosition ==
    ASSUME AccountInv, ReachInv
    PROVE  NeverOvertrades
<1> SUFFICES ASSUME NEW s \in Symbols
             PROVE  /\ BrokerPosition(s) + RestAtBroker(s, 1) <= MaxTarget
                    /\ BrokerPosition(s) - RestAtBroker(s, -1) >= 0
  BY DEF NeverOvertrades
<1> DEFINE S        == OfSymbol(OrderIds, s)
           There    == OfSymbol(DOMAIN broker, s)
           Resting(sign) == {o \in OfSymbol(OpenAtBroker, s) : Sign(o) = sign}
           pos      == [o \in S |-> Sign(o) * FilledIn(broker, o)]
           Rest(sign) == [o \in S |-> IF o \in Resting(sign) THEN broker[o].qty - broker[o].filled ELSE 0]
           most     == [o \in S |-> pos[o] + Rest(1)[o]]
           least    == [o \in S |-> pos[o] - Rest(-1)[o]]
<1>1. BrokerOK(broker) /\ OneSliceEach(todo)
  BY TodoIsOneEach
<1>2. /\ IsFiniteSet(S) /\ \A o \in S : o \in OrderIds
      /\ There \in SUBSET S /\ \A sign : Resting(sign) \in SUBSET There
  BY <1>1, OrdersOfASymbolAreFinite DEF OfSymbol, BrokerOK, OpenAtBroker
<1>3. \A o \in S : /\ Worst(todo, broker, o) \in Nat /\ FilledIn(broker, o) \in Nat
                   /\ FilledIn(broker, o) <= Worst(todo, broker, o)
                   /\ Most(todo, broker)[o] \in Int /\ Least(todo, broker)[o] \in Int
  BY <1>1, <1>2, ReachTypes
<1>4. \A o \in S : /\ Sign(o) \in {1, -1} /\ pos[o] \in Int
                   /\ pos[o] = IF Sign(o) = 1 THEN FilledIn(broker, o) ELSE -FilledIn(broker, o)
  BY <1>3 DEF Sign
<1>5. ASSUME NEW sign \in {1, -1}, NEW o \in S
      PROVE  /\ Rest(sign)[o] \in Nat
             /\ Sign(o) # sign => Rest(sign)[o] = 0
             /\ Sign(o) = sign => FilledIn(broker, o) + Rest(sign)[o] <= Worst(todo, broker, o)
  <2>1. CASE o \in Resting(sign)
    <3>1. /\ o \in DOMAIN broker /\ broker[o].open /\ Sign(o) = sign
          /\ broker[o].qty \in Nat /\ broker[o].filled \in Nat /\ broker[o].filled <= broker[o].qty
      BY <1>1, <2>1 DEF OfSymbol, OpenAtBroker, BrokerOK, Shares
    <3>2. Rest(sign)[o] = broker[o].qty - broker[o].filled
      BY <2>1
    <3> QED BY <3>1, <3>2 DEF FilledIn, Worst
  <2>2. CASE o \notin Resting(sign)
    <3>1. Rest(sign)[o] = 0
      BY <2>2
    <3> QED BY <1>3, <3>1
  <2> QED BY <2>1, <2>2
<1> HIDE DEF pos, Rest
<1>6. \A o \in S : /\ most[o] = pos[o] + Rest(1)[o] /\ most[o] \in Int
                   /\ pos[o] = least[o] + Rest(-1)[o] /\ least[o] \in Int
  <2>1. \A o \in S : pos[o] \in Int /\ Rest(1)[o] \in Nat /\ Rest(-1)[o] \in Nat
    BY <1>4, <1>5
  <2>2. \A o \in S : most[o] = pos[o] + Rest(1)[o] /\ least[o] = pos[o] - Rest(-1)[o]
    OBVIOUS
  <2> HIDE DEF most, least
  <2> QED BY <2>1, <2>2
<1> HIDE DEF most, least
<1>7. \A o \in S : most[o] <= Most(todo, broker)[o] /\ Least(todo, broker)[o] <= least[o]
  <2> SUFFICES ASSUME NEW o \in S
               PROVE  most[o] <= Most(todo, broker)[o] /\ Least(todo, broker)[o] <= least[o]
    OBVIOUS
  <2>1. o \in OrderIds
    BY <1>2
  <2>2. /\ Most(todo, broker)[o] =
             IF Sign(o) = 1 THEN Worst(todo, broker, o) ELSE -FilledIn(broker, o)
        /\ Least(todo, broker)[o] =
             IF Sign(o) = 1 THEN FilledIn(broker, o) ELSE -Worst(todo, broker, o)
    BY <2>1 DEF Most, Least
  <2>3. CASE Sign(o) = 1
    <3>1. /\ Rest(-1)[o] = 0 /\ Rest(1)[o] \in Nat
          /\ FilledIn(broker, o) + Rest(1)[o] <= Worst(todo, broker, o)
      BY <1>5, <2>3
    <3> QED BY <1>3, <1>4, <1>6, <2>2, <2>3, <3>1
  <2>4. CASE Sign(o) = -1
    <3>1. /\ Rest(1)[o] = 0 /\ Rest(-1)[o] \in Nat
          /\ FilledIn(broker, o) + Rest(-1)[o] <= Worst(todo, broker, o)
      BY <1>5, <2>4
    <3> QED BY <1>3, <1>4, <1>6, <2>2, <2>4, <3>1
  <2> QED BY <1>4, <2>3, <2>4
<1>8. BrokerPosition(s) = SumFunctionOnSet(pos, S)
  <2> DEFINE at == [o \in There |-> Sign(o) * FilledAtBroker[o]]
  <2>1. BrokerPosition(s) = SumFunctionOnSet(at, There)
    BY DEF BrokerPosition, SignedSum
  <2>2. IsFiniteSet(There)
    BY <1>2, FS_Subset
  <2>3. \A o \in There : at[o] = pos[o] /\ pos[o] \in Int
    BY <1>2, <1>4 DEF pos, FilledAtBroker, FilledIn
  <2>4. \A o \in S \ There : pos[o] = 0
    <3> SUFFICES ASSUME NEW o \in S, o \notin There
                 PROVE  pos[o] = 0
      OBVIOUS
    <3>1. FilledIn(broker, o) = 0
      BY DEF OfSymbol, FilledIn
    <3> QED BY <1>4, <3>1
  <2> HIDE DEF at, There, S
  <2>5. SumFunctionOnSet(pos, S) = SumFunctionOnSet(pos, There)
    BY <1>2, <1>4, <2>4, SumOfSupport
  <2>6. SumFunctionOnSet(pos, There) = SumFunctionOnSet(at, There)
    BY <2>2, <2>3, SumSame
  <2> QED BY <2>1, <2>5, <2>6
<1>9. ASSUME NEW sign \in {1, -1}
      PROVE  RestAtBroker(s, sign) = SumFunctionOnSet(Rest(sign), S)
  <2> DEFINE at == [o \in DOMAIN broker |-> broker[o].qty - broker[o].filled]
             T  == Resting(sign)
             r  == Rest(sign)
  <2>1. RestAtBroker(s, sign) = SumFunctionOnSet(at, T)
    BY DEF RestAtBroker
  <2>2. T \in SUBSET S /\ IsFiniteSet(T)
    BY <1>2, FS_Subset
  <2>3. \A o \in T : at[o] = r[o] /\ r[o] \in Int
    <3>1. \A o \in T : o \in S /\ o \in DOMAIN broker
      BY <1>2 DEF OfSymbol
    <3> QED BY <1>5, <3>1 DEF Rest
  <2>4. \A o \in S : r[o] \in Int
    BY <1>5
  <2>5. \A o \in S \ T : r[o] = 0
    BY DEF Rest
  <2> HIDE DEF at, T, r, S
  <2>6. SumFunctionOnSet(r, S) = SumFunctionOnSet(r, T)
    BY <1>2, <2>2, <2>4, <2>5, SumOfSupport
  <2>7. SumFunctionOnSet(r, T) = SumFunctionOnSet(at, T)
    BY <2>2, <2>3, SumSame
  <2> QED BY <2>1, <2>6, <2>7 DEF r
<1> DEFINE buys  == Rest(1)
           sells == Rest(-1)
<1>10. \A o \in S : buys[o] \in Int /\ sells[o] \in Int
  BY <1>5
<1> HIDE DEF S
<1>11. /\ RestAtBroker(s, 1) = SumFunctionOnSet(buys, S)
       /\ RestAtBroker(s, -1) = SumFunctionOnSet(sells, S)
  BY <1>9
<1>12. \A o \in S : most[o] = pos[o] + buys[o] /\ pos[o] = least[o] + sells[o]
  BY <1>6
<1> HIDE DEF buys, sells
<1>13. SumFunctionOnSet(most, S) = SumFunctionOnSet(pos, S) + SumFunctionOnSet(buys, S)
  BY <1>2, <1>4, <1>10, <1>12, SumOfSums
<1>14. SumFunctionOnSet(pos, S) = SumFunctionOnSet(least, S) + SumFunctionOnSet(sells, S)
  BY <1>2, <1>6, <1>10, <1>12, SumOfSums
<1>15. /\ SumFunctionOnSet(most, S) <= SumFunctionOnSet(Most(todo, broker), S)
       /\ SumFunctionOnSet(Least(todo, broker), S) <= SumFunctionOnSet(least, S)
  BY <1>2, <1>3, <1>6, <1>7, SumCompares
<1>16. /\ SumFunctionOnSet(most, S) \in Int /\ SumFunctionOnSet(least, S) \in Int
       /\ SumFunctionOnSet(pos, S) \in Int /\ SumFunctionOnSet(buys, S) \in Int
       /\ SumFunctionOnSet(sells, S) \in Int
       /\ SumFunctionOnSet(Most(todo, broker), S) \in Int
       /\ SumFunctionOnSet(Least(todo, broker), S) \in Int
  BY <1>2, <1>3, <1>4, <1>6, <1>10, SumOneMore
<1>17. /\ SumFunctionOnSet(Most(todo, broker), S) <= MaxTarget
       /\ SumFunctionOnSet(Least(todo, broker), S) >= 0
  BY DEF ReachInv, InReach, Top, Bottom, S
<1> QED BY <1>8, <1>11, <1>13, <1>14, <1>15, <1>16, <1>17, TargetAssumption
LEMMA StartsInReach == Init => SettleInv /\ ReachInv
<1> SUFFICES ASSUME Init PROVE SettleInv /\ ReachInv
  OBVIOUS
<1>1. /\ pc = "idle" /\ orders = NoOrders /\ items = {} /\ todo = {}
      /\ disk.orders = NoOrders /\ disk.items = {} /\ DOMAIN NoOrders = {}
      /\ DOMAIN broker = {} /\ OneSliceEach({}) /\ BrokerOK(broker)
  BY DEF Init, Blank, NoOrders, BrokerInit, OneSliceEach, BrokerOK
<1>2. SettleInv
  BY <1>1 DEF SettleInv, OpenItemsHold, Pending
<1>3. ASSUME NEW s \in Symbols
      PROVE  Top({}, broker, s) <= MaxTarget /\ Bottom({}, broker, s) >= 0
  <2> DEFINE S == OfSymbol(OrderIds, s)
  <2>1. IsFiniteSet(S) /\ \A o \in S : o \in OrderIds
    BY OrdersOfASymbolAreFinite DEF OfSymbol
  <2>2. \A o \in S : Worst({}, broker, o) = 0 /\ FilledIn(broker, o) = 0
    BY <1>1 DEF Worst, FilledIn, TodoQty
  <2>3. \A o \in S : Most({}, broker)[o] = 0 /\ Least({}, broker)[o] = 0
    BY <2>1, <2>2 DEF Most, Least
  <2>4. {} \in SUBSET S /\ \A o \in S \ {} : Most({}, broker)[o] = 0 /\ Least({}, broker)[o] = 0
    BY <2>3
  <2> HIDE DEF S
  <2>5. /\ SumFunctionOnSet(Most({}, broker), S) = SumFunctionOnSet(Most({}, broker), {})
        /\ SumFunctionOnSet(Least({}, broker), S) = SumFunctionOnSet(Least({}, broker), {})
    BY <2>1, <2>3, <2>4, SumOfSupport
  <2> QED BY <2>5, SumOfNone, TargetAssumption DEF Top, Bottom, S
<1> QED BY <1>1, <1>2, <1>3 DEF ReachInv, InReach

\* STEP 11 sizes against the held book plus what is in flight, and freezes a
\* symbol with an order in flight: whichever resting orders fill, the position
\* at the broker stays between flat and the largest target any cycle asked for.
THEOREM NeverOvertradesEver ==
    ASSUME FillsAreWhole
    PROVE  Spec => []NeverOvertrades
<1>1. OrdersAreWritten
  BY DEF FillsAreWhole
<1>2. Spec => [](StackInv /\ AccountInv /\ RestInv)
  BY <1>1, RestInvEver
<1>3. Init => SettleInv /\ ReachInv
  BY StartsInReach
<1>4. /\ StackInv /\ AccountInv /\ RestInv /\ (StackInv /\ AccountInv /\ RestInv)'
      /\ SettleInv /\ ReachInv /\ [Next]_vars
      => SettleInv' /\ ReachInv'
  <2> SUFFICES ASSUME StackInv, AccountInv, AccountInv', RestInv, SettleInv, ReachInv, [Next]_vars
               PROVE  SettleInv' /\ ReachInv'
    OBVIOUS
  <2> QED BY NextKeepsSettle, NextKeepsReach
<1>5. AccountInv /\ ReachInv => NeverOvertrades
  BY ReachBoundsThePosition
<1> QED BY <1>2, <1>3, <1>4, <1>5, PTL DEF Spec
==============================================================================
