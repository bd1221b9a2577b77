---------------------------- MODULE OrderLifecycle ---------------------------
(***************************************************************************)
(* The class OrderLifecycle of execution/order_lifecycle.py: a dictionary  *)
(* of orders and the methods OrderManager and the engine call on it, in    *)
(* any legal order, and OrderManager's reconnect pass over them.  A call   *)
(* that raises InvalidTransition or ValueError changes nothing, so it is   *)
(* simply not a step.  OrderManager's outbox of discovered fills is in     *)
(* LiveTrading.                                                            *)
(***************************************************************************)
EXTENDS OrderRecord, FiniteSets

CONSTANTS
    Orders,         \* order ids, numbered by creation time (an id starts with its asof)
    Quantities,     \* the quantities orders are created with
    FillQty,        \* FillQty[f]: the quantity of fill f
    Reports,        \* the cumulative filled quantities a broker may report
    MaxTerminal,    \* prune_terminal's bound
    MaxCommissions, \* bound on commissions per order
    AlwaysNamed     \* does the broker's answer about an order always carry the broker's
                    \* own id of it?  IBKR's and Alpaca's entries do; a plain map of
                    \* statuses, or an entry without broker_order_id, does not

ASSUME OrdersAssumption      == Orders \subseteq Nat
ASSUME QuantitiesAssumption  == Quantities \subseteq Shares
ASSUME FillQtyAssumption     == FillQty \in [FillIds -> Nat]
ASSUME ReportsAssumption     == Reports \subseteq Nat
ASSUME MaxTerminalAssumption == MaxTerminal \in Nat
ASSUME MaxCommissionsAssumption == MaxCommissions \in Nat
ASSUME AlwaysNamedAssumption == AlwaysNamed \in BOOLEAN

VARIABLES
    orders,     \* _orders: a function from the tracked ids to their records
    newest,     \* the newest id created
    heard       \* history: what the broker ever reported about each order

vars == <<orders, newest, heard>>

Silence == [fills |-> {}, quantity |-> 0, acked |-> FALSE, confirmed |-> FALSE]

\* acked: the broker gave its id; confirmed: by that or by a status it had the order.
Histories ==
    [fills : SUBSET FillIds, quantity : Nat, acked : BOOLEAN, confirmed : BOOLEAN]

Tracked(o)   == o \in DOMAIN orders
Submitted(o) == orders[o].status \notin {"CREATED", "VALIDATED", "RISK_APPROVED"}

TypeOK ==
    /\ DOMAIN orders \subseteq Orders
    /\ orders \in [DOMAIN orders -> OrderRecords]
    /\ newest \in Nat
    /\ heard \in [Orders -> Histories]

Init ==
    /\ orders = [o \in {} |-> NewRecord(0)]
    /\ newest = 0
    /\ heard = [o \in Orders |-> Silence]

(***************************************************************************)
(* The methods                                                             *)
(***************************************************************************)
Put(o, r) == orders' = [x \in DOMAIN orders \cup {o} |-> IF x = o THEN r ELSE orders[x]]

\* create.  Ids grow: every cycle stamps its orders with a new asof.
Create(o, q) ==
    /\ ~Tracked(o) /\ o > newest
    /\ Put(o, NewRecord(q))
    /\ newest' = o
    /\ UNCHANGED heard

\* transition
Transition(o, to) ==
    /\ Tracked(o) /\ CanMove(orders[o].status, to)
    /\ Put(o, Moved(orders[o], to))
    /\ UNCHANGED <<newest, heard>>

MarkSubmissionUncertain(o) == Transition(o, "SUBMISSION_UNCERTAIN")
MarkBrokerUnknown(o)       == Transition(o, "BROKER_UNKNOWN")
RequestCancel(o)           == Transition(o, "CANCEL_PENDING")

\* The targets OrderManager.place and the engine's reconciliation hooks ask for.
TransitionTargets ==
    {"VALIDATED", "RISK_APPROVED", "SUBMIT_PENDING", "WORKING",
     "PARTIALLY_FILLED", "FILLED", "CANCELLED"}

SetBrokerOrderId(o) ==
    /\ Tracked(o) /\ Submitted(o)
    /\ Put(o, WithBrokerId(orders[o]))
    /\ heard' = [heard EXCEPT ![o].acked = TRUE, ![o].confirmed = TRUE]
    /\ UNCHANGED newest

\* reconcile_broker_fill.  The broker's cumulative quantity subsumes what was heard.
ReconcileBrokerFill(o, q) ==
    /\ Tracked(o) /\ Submitted(o)
    /\ Put(o, WithBrokerFill(orders[o], q))
    /\ heard' = [heard EXCEPT ![o].quantity = IF q > @ THEN q ELSE @]
    /\ UNCHANGED newest

\* record_fill: the broker may deliver the same fill any number of times.
RecordFill(o, f) ==
    /\ Tracked(o) /\ Submitted(o)
    /\ Put(o, WithFill(orders[o], f, FillQty[f]))
    /\ heard' = [heard EXCEPT ![o].fills = @ \cup {f},
                              ![o].quantity =
                                  IF f \in heard[o].fills THEN @ ELSE @ + FillQty[f]]
    /\ UNCHANGED newest

RecordCommission(o) ==
    /\ Tracked(o) /\ Submitted(o) /\ orders[o].commissions < MaxCommissions
    /\ Put(o, WithCommission(orders[o]))
    /\ UNCHANGED <<newest, heard>>

\* The statuses by which a broker says that it has, or had, the order at work.
Reached == {"ACKED", "WORKING", "PARTIALLY_FILLED", "FILLED"}

\* What a broker's list of orders may say of one order.  A fill beyond the one booked
\* overrides the status, and a smaller one says nothing: one status shows each.
NoEntry == [status |-> "NO_RECORD", filled |-> 0, named |-> FALSE]
Named   == IF AlwaysNamed THEN {TRUE} ELSE BOOLEAN
Entries ==
    {NoEntry}
        \cup [status : BrokerTruth \ {"NO_RECORD"}, filled : {0}, named : Named]
        \cup [status : {"WORKING"}, filled : Reports, named : Named]

\* Only orders that were sent have an entry; finished ones are not looked up.
Matchable == {o \in DOMAIN orders : Submitted(o) /\ ~Terminal(orders[o])}

\* A bug: the pass does not write the broker's id onto the record.
ReconciledUnnamed(r, e) ==
    IF e.filled > r.filled
    THEN Resynced(WithBrokerFill(r, e.filled), "RECONCILIATION_HOLD")
    ELSE Resynced(r, e.status)

\* _map_broker_open_orders and resync on one record: the id is written first; a fill
\* beyond the one booked is adopted and parks the order, otherwise the status counts.
Reconciled(r, e) ==
    LET known == IF e.named THEN WithBrokerId(r) ELSE r
    IN  IF e.filled > r.filled
        THEN Resynced(WithBrokerFill(known, e.filled), "RECONCILIATION_HOLD")
        ELSE Resynced(known, e.status)

HeardEntry(h, e) ==
    [fills     |-> h.fills,
     quantity  |-> IF e.filled > h.quantity THEN e.filled ELSE h.quantity,
     acked     |-> h.acked \/ e.named,
     confirmed |-> h.confirmed \/ e.named \/ e.status \in Reached]

\* reconcile_open_orders: one pass over every tracked order.
ReconcileOpenOrders(entries) ==
    /\ orders' = [o \in DOMAIN orders |->
                    IF o \in Matchable THEN Reconciled(orders[o], entries[o]) ELSE orders[o]]
    /\ heard' = [o \in Orders |->
                    IF o \in Matchable THEN HeardEntry(heard[o], entries[o]) ELSE heard[o]]
    /\ UNCHANGED newest

TerminalOrders == {o \in DOMAIN orders : Terminal(orders[o])}

\* A bug: every order counts against the bound and the oldest go, finished or not.
PruneOldest ==
    /\ Cardinality(DOMAIN orders) > MaxTerminal
    /\ \E kept \in SUBSET DOMAIN orders :
          /\ Cardinality(kept) = MaxTerminal
          /\ \A old \in DOMAIN orders \ kept, young \in kept : old < young
          /\ orders' = [o \in kept |-> orders[o]]
    /\ UNCHANGED <<newest, heard>>

\* prune_terminal: evict the oldest terminal orders beyond MaxTerminal.
PruneTerminal ==
    /\ Cardinality(TerminalOrders) > MaxTerminal
    /\ \E kept \in SUBSET TerminalOrders :
          /\ Cardinality(kept) = MaxTerminal
          /\ \A old \in TerminalOrders \ kept, young \in kept : old < young
          /\ orders' = [o \in DOMAIN orders \ (TerminalOrders \ kept) |-> orders[o]]
    /\ UNCHANGED <<newest, heard>>

\* snapshot_nonterminal, then restore into the new process's empty dictionary.
Restart ==
    /\ orders' = [o \in DOMAIN orders \ TerminalOrders |-> Restored(orders[o])]
    /\ UNCHANGED <<newest, heard>>

Next ==
    \/ \E o \in Orders :
          \/ \E q \in Quantities : Create(o, q)
          \/ \E q \in Reports : ReconcileBrokerFill(o, q)
          \/ \E to \in TransitionTargets : Transition(o, to)
          \/ MarkSubmissionUncertain(o)
          \/ MarkBrokerUnknown(o)
          \/ RequestCancel(o)
          \/ SetBrokerOrderId(o)
          \/ \E f \in FillIds : RecordFill(o, f)
          \/ RecordCommission(o)
    \/ \E entries \in [Matchable -> Entries] : ReconcileOpenOrders(entries)
    \/ PruneTerminal
    \/ Restart

Spec == Init /\ [][Next]_vars

(***************************************************************************)
(* Properties                                                              *)
(***************************************************************************)

\* Fill accounting (record_fill, reconcile_broker_fill): however often fills are
\* redelivered, raced by a cancel, delivered late, interleaved with resyncs or
\* replayed after a restart, a tracked order's filled quantity is what the
\* broker reported, each fill id counted once, cut off at the approved size.
FilledIsReported ==
    \A o \in DOMAIN orders :
        orders[o].filled = Smaller(heard[o].quantity, orders[o].approved)

\* can_resubmit promises to clear only an order "REJECTED before reaching the
\* broker": over the order's whole history, restarts included, no id of the
\* broker's, no status that says the order was at work there, no fill.  The code
\* reads that off the broker id alone, so it takes a broker that names every
\* order it answers for and a reconnect pass that writes the name down.
ResubmitOnlyUnreached ==
    \A o \in DOMAIN orders :
        CanResubmit(orders[o]) => ~heard[o].confirmed /\ heard[o].quantity = 0

\* What makes FilledIsReported inductive: the duplicate filter holds exactly
\* the fills delivered, and the broker id is known once it was acknowledged;
\* an id not created yet has been heard of by nobody.
HistoryMatches ==
    /\ \A o \in DOMAIN orders :
          /\ orders[o].seen = heard[o].fills
          /\ orders[o].brokerId = heard[o].acked
          /\ o <= newest
    /\ \A o \in Orders : o > newest => heard[o] = Silence

IInv == TypeOK /\ HistoryMatches /\ FilledIsReported

\* The engine's view of an order, for OrderContract.
phase == [o \in Orders |->
            IF ~Tracked(o) THEN "unknown"
            ELSE IF Terminal(orders[o]) THEN "done" ELSE "open"]
approvedQty == [o \in Orders |-> IF Tracked(o) THEN orders[o].approved ELSE 0]
filledQty   == [o \in Orders |-> IF Tracked(o) THEN orders[o].filled ELSE 0]

Contract == INSTANCE OrderContract WITH approved <- approvedQty, filled <- filledQty

\* OrderLifecycle keeps OrderContract's promise: no call, prune or restart
\* forgets an open order, revives a finished one, or takes a fill back.
KeepsContract == Contract!Spec
=============================================================================
