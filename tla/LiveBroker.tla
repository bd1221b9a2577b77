------------------------------ MODULE LiveBroker ------------------------------
(***************************************************************************)
(* The broker as the live loop sees it through broker/alpaca.py and        *)
(* broker/ibkr.py: it executes the orders it was sent whenever it likes,   *)
(* the session drops and comes back, and reading the order book can fail.  *)
(***************************************************************************)
EXTENDS Integers, FiniteSetsExt

CONSTANTS
    Symbols,    \* the universe
    MaxAsof,    \* bound on the cycles that plan orders
    MaxSlices,  \* bound on child orders per intent
    ListsClosed,  \* does open_orders list orders that closed a while ago as well as the
                  \* resting ones?  Alpaca's adapter does, IBKR's does not
    Faults      \* what may go wrong, of FaultKinds

FaultKinds ==
    {"disconnect",    \* the broker session drops
     "unsent",        \* ... between the connectivity probe and the submit
     "timeout",       \* submit raises although the broker has the order
     "refused",       \* submit raises because the broker refused the order
     "raised",        \* open_orders raises
     "swallowed",     \* open_orders fails and the adapter returns [], as both do
     "pieces",        \* a resting order fills in several pieces
     "price",         \* the price provider raises
     "state_store",   \* state_store.save raises
     "ledger",        \* a ledger append raises
     "disk",          \* writing loop_state.json raises
     "reject"}        \* the operator rejects a fill the broker did make

ASSUME FaultsAssumption == Faults \subseteq FaultKinds
ASSUME ListsClosedAssumption == ListsClosed \in BOOLEAN
ASSUME BoundsAssumption == MaxAsof \in Nat /\ MaxSlices \in Nat \ {0}

\* "{asof}|{symbol}|{side}|{slice_index}"
OrderIds == (1 .. MaxAsof) \X Symbols \X {"BUY", "SELL"} \X (0 .. MaxSlices - 1)
AsofOf(o)   == o[1]
SymbolOf(o) == o[2]
Sign(o)     == IF o[3] = "BUY" THEN 1 ELSE -1
SliceOf(o)  == o[4]

VARIABLES
    broker,     \* a function from the ids the broker has to its orders
    connected   \* BrokerProtocol.connected

brokerVars == <<broker, connected>>

BrokerInit == broker = [o \in {} |-> {}] /\ connected = TRUE

OpenAtBroker   == {o \in DOMAIN broker : broker[o].open}
FilledAtBroker == [o \in OrderIds |-> IF o \in DOMAIN broker THEN broker[o].filled ELSE 0]

\* The broker takes an order for q and fills k of it while submit waits.
Accepts(o, q, k) ==
    broker' = [x \in DOMAIN broker \cup {o} |->
                 IF x = o THEN [qty |-> q, filled |-> k, open |-> k < q] ELSE broker[x]]

Fills(o, k) ==
    /\ o \in OpenAtBroker
    /\ broker[o].filled + k <= broker[o].qty
    /\ broker[o].filled + k < broker[o].qty => "pieces" \in Faults
    /\ broker' = [broker EXCEPT ![o].filled = @ + k, ![o].open = @ /\ broker[o].filled + k < broker[o].qty]
    /\ UNCHANGED connected

\* Cancelled, expired or rejected after the ack: resync treats the three alike.
Closes(o) ==
    /\ o \in OpenAtBroker
    /\ broker' = [broker EXCEPT ![o].open = FALSE]
    /\ UNCHANGED connected

Disconnects == "disconnect" \in Faults /\ connected /\ connected' = FALSE /\ UNCHANGED broker
Reconnects  == ~connected /\ connected' = TRUE /\ UNCHANGED broker

BrokerNext ==
    \/ \E o \in OpenAtBroker : Closes(o) \/ \E k \in 1 .. broker[o].qty : Fills(o, k)
    \/ Disconnects
    \/ Reconnects

\* open_orders: every resting order, and of the closed ones those the adapter still
\* lists.  Alpaca asks for the last day's, at most a hundred, as a best effort: any
\* of them may be missing.  IBKR asks for none.
Reported(closed) == OpenAtBroker \cup closed
Listable == IF ListsClosed THEN DOMAIN broker \ OpenAtBroker ELSE {}
Answers  == {[kind |-> "answered", ids |-> Reported(closed)] : closed \in SUBSET Listable}
Failures == {[kind |-> k, ids |-> {}] : k \in {"raised", "swallowed"} \cap Faults}
Reads    == Answers \cup Failures

\* _map_alpaca_status
BrokerStatus(o) ==
    LET b == broker[o]
    IN  CASE b.open /\ b.filled = 0    -> "WORKING"
          [] b.open /\ b.filled > 0    -> "PARTIALLY_FILLED"
          [] ~b.open /\ b.filled = b.qty -> "FILLED"
          [] OTHER                     -> "CANCELLED"
=============================================================================
