------------------------------ MODULE LiveTrading -----------------------------
(***************************************************************************)
(* The LIVE loop: EngineService (ops/run_loop.py) driving the engine's     *)
(* STEP 11/12 (core/engine/engine.py), OrderManager                        *)
(* (execution/order_manager.py), the order lifecycle and the ledger        *)
(* against LiveBroker.  One RLock serialises a cycle and an operator's     *)
(* resolve_reconciliation, so the loop has one program counter; the        *)
(* broker moves and the process may die between any two of its steps.      *)
(*                                                                         *)
(* Prices are constant at one unit of capital per share, so a weight is a  *)
(* number of shares.  current_book is kept per order: the book of a symbol *)
(* is the signed sum of what its orders contributed (Held).                *)
(***************************************************************************)
EXTENDS LiveBroker, OrderRecord

CONSTANTS
    MaxTarget,      \* the largest target position
    MaxTerminal,    \* max_retained_terminal_orders
    CrashPoints     \* the program points at which the process may die

ASSUME TargetAssumption == MaxTarget \in Nat
ASSUME FillIdsAssumption == FillIds = {"exec"}
ASSUME MaxTerminalAssumption == MaxTerminal \in Nat

VARIABLES
    pc,             \* where the thread that holds the lock is
    asof,           \* the asof of the last cycle that planned orders
    orders,         \* the engine-owned OrderLifecycle
    booked,         \* current_book, by order
    items,          \* open_reconciliations
    needsResync,    \* _needs_resync
    wasConnected,   \* _broker_was_connected
    todo,           \* child slices STEP 12 has yet to place
    fills,          \* this cycle's fills: a function on the ids that had one
    resolving,      \* the item an ACCEPT is booking: {} or {item}
    disk,           \* loop_state.json: [orders, booked, items]
    ledger,         \* ledger.jsonl: the FILLs by order (qty), those of reconciliations
                    \* (ids), and whether an event is missing between others (broken)
    journal,        \* _events: the reconciliation ids in it, and whether it has an
                    \* event that was not written (unsaved)
    verified        \* history: since it last started, the service restored no order
                    \* or has read the broker's orders
memory  == <<orders, booked, items, needsResync, wasConnected, todo, fills, resolving>>
audit   == <<ledger, journal>>
vars    == <<pc, asof, memory, disk, audit, verified, brokerVars>>

NoOrders   == [o \in {} |-> {}]
NothingYet == [o \in OrderIds |-> 0]
Blank      == [orders |-> NoOrders, booked |-> NothingYet, items |-> {}]
Points     == {"idle", "synced", "submitting", "ran", "recorded", "resolving", "down"}

NewJournal == [ids |-> {}, unsaved |-> FALSE]

Items == [order : OrderIds, upTo : Shares, delta : Shares,
          state : {"OPEN", "ACCEPTED", "REJECTED"}]

Init ==
    /\ pc = "idle" /\ asof = 0
    /\ orders = NoOrders /\ booked = NothingYet /\ items = {}
    /\ needsResync = FALSE /\ wasConnected = FALSE
    /\ todo = {} /\ fills = NoOrders /\ resolving = {}
    /\ disk = Blank
    /\ ledger = [qty |-> NothingYet, ids |-> {}, broken |-> FALSE]
    /\ journal = NewJournal
    /\ verified = TRUE
    /\ BrokerInit

(***************************************************************************)
(* What the loop computes                                                  *)
(***************************************************************************)
TerminalOrders == {o \in DOMAIN orders : Terminal(orders[o])}
Pending == {o \in DOMAIN orders : ~Terminal(orders[o])}

SignedSum(qty, os) == SumFunctionOnSet([o \in os |-> Sign(o) * qty[o]], os)
OfSymbol(os, s)    == {o \in os : SymbolOf(o) = s}

Held(s) == SignedSum(booked, OfSymbol(OrderIds, s))

\* _pending_overlay: the unfilled rest of every order in flight.
Overlay(s) ==
    SignedSum([o \in Pending |-> orders[o].approved - orders[o].filled], OfSymbol(Pending, s))

\* A bug: only orders the broker never confirmed freeze their symbol.
BlockedIfUnconfirmed(s) ==
    \E o \in OfSymbol(DOMAIN orders, s) : orders[o].status \in Unconfirmed

\* blocked_symbols: no stacking on an order of an earlier cycle.
BlockedSymbol(s) ==
    \E o \in OfSymbol(DOMAIN orders, s) : orders[o].status \in ResubmitBlockingStates

\* A bug: a delta too small to slice is placed as an empty order.
SlicesOfAnySize(s, delta, stressed, n) ==
    LET size  == (IF delta < 0 THEN -delta ELSE delta) \div (IF stressed THEN 2 ELSE 1)
        side  == IF delta > 0 THEN "BUY" ELSE "SELL"
    IN  {[id |-> <<asof + 1, s, side, i>>, qty |-> size \div n] : i \in 0 .. n - 1}

\* schedule_order: the delta, halved in a stressed regime, in n equal slices.
Slices(s, delta, stressed, n) ==
    LET size  == (IF delta < 0 THEN -delta ELSE delta) \div (IF stressed THEN 2 ELSE 1)
        side  == IF delta > 0 THEN "BUY" ELSE "SELL"
    IN  IF size = 0 \/ size % n # 0
        THEN {}
        ELSE {[id |-> <<asof + 1, s, side, i>>, qty |-> size \div n] : i \in 0 .. n - 1}

Put(o, r) == orders' = [x \in DOMAIN orders \cup {o} |-> IF x = o THEN r ELSE orders[x]]

\* Bugs: the items, or the orders without a broker id, are not saved.
SnapshotWithoutItems ==
    [orders |-> [o \in Pending |-> orders[o]], booked |-> booked, items |-> {}]
SnapshotConfirmed ==
    [orders |-> [o \in {x \in Pending : orders[x].brokerId} |-> orders[o]],
     booked |-> booked, items |-> items]

\* LoopState: _snapshot_open_orders, current_book and open_reconciliations.
Snapshot == [orders |-> [o \in Pending |-> orders[o]], booked |-> booked, items |-> items]

\* ImmutableLedger.append: the event joins _events before it is written, so a
\* write that raises leaves it there alone, and the next write follows a gap.
Appended(qty, ids) ==
    /\ ledger' = [qty    |-> [o \in OrderIds |-> ledger.qty[o] + qty[o]],
                  ids    |-> ledger.ids \cup ids,
                  broken |-> ledger.broken \/ journal.unsaved]
    /\ journal' = [journal EXCEPT !.ids = @ \cup ids]
AppendRaises(ids) ==
    /\ "ledger" \in Faults
    /\ journal' = [ids |-> journal.ids \cup ids, unsaved |-> TRUE]
    /\ UNCHANGED ledger

\* An append that is only an audit note, fail-soft.
Noted == Appended(NothingYet, {}) \/ AppendRaises({})

(***************************************************************************)
(* A cycle (run_once)                                                      *)
(***************************************************************************)

\* A bug: the item asks for the broker's whole quantity.
ItemForWhole(o, filled) == [order |-> o, upTo |-> filled, delta |-> filled, state |-> "OPEN"]

\* The reconciliation item for what the broker filled and nobody booked.
ItemFor(o, filled) ==
    [order |-> o, upTo |-> filled, delta |-> filled - orders[o].filled, state |-> "OPEN"]

\* reconcile_open_orders and _surface_discovered_fill: adopt the broker's truth;
\* a quantity nobody booked parks the order and opens an item for the operator.
ApplyTruth(reported) ==
    LET matched    == Pending \cap reported
        discovered == {o \in matched : broker[o].filled > orders[o].filled}
        Adopted(o) == IF o \in matched
                      THEN WithBrokerFill(WithBrokerId(orders[o]), broker[o].filled)
                      ELSE orders[o]
        Truth(o)   == CASE o \in discovered -> "RECONCILIATION_HOLD"
                        [] o \in matched \ discovered -> BrokerStatus(o)
                        [] OTHER -> "NO_RECORD"
        found      == {ItemFor(o, Adopted(o).filled) : o \in discovered}
        known      == {<<i.order, i.upTo>> : i \in items}
    IN  /\ orders' = [o \in DOMAIN orders |-> Resynced(Adopted(o), Truth(o))]
        /\ items' = items \cup {i \in found : <<i.order, i.upTo>> \notin known}

\* A bug: resync on a reconnect or a restart only.
ResyncDueOnReconnect == connected /\ (~wasConnected \/ needsResync)

\* _maybe_resync
ResyncDue == connected /\ (~wasConnected \/ Pending # {} \/ needsResync)

SkipResync ==
    /\ pc = "idle" /\ ~ResyncDue
    /\ pc' = "synced" /\ wasConnected' = connected
    /\ UNCHANGED <<asof, orders, booked, items, needsResync, todo, fills, resolving,
                   disk, audit, verified, brokerVars>>

\* Only a read that raised leaves _needs_resync set.
StillNeedsResync(read) == read.kind = "raised"

Resync(read) ==
    /\ pc = "idle" /\ ResyncDue
    /\ pc' = "synced" /\ wasConnected' = connected
    /\ needsResync' = StillNeedsResync(read)
    /\ IF read.kind = "raised" THEN UNCHANGED <<orders, items>> ELSE ApplyTruth(read.ids)
    /\ IF items' = items THEN UNCHANGED audit ELSE Noted
    /\ verified' = (verified \/ read.kind = "answered")
    /\ UNCHANGED <<asof, booked, todo, fills, resolving, disk, brokerVars>>

\* price_provider raises: the cycle is over, what the resync did stays in memory.
PriceFails ==
    /\ pc = "synced" /\ "price" \in Faults
    /\ pc' = "idle"
    /\ UNCHANGED <<asof, memory, disk, audit, verified, brokerVars>>

\* A blocked cycle, a target that is already held, or the closed resync gate.
PlanNothing ==
    /\ pc = "synced"
    /\ pc' = "ran"
    /\ UNCHANGED <<asof, memory, disk, audit, verified, brokerVars>>

\* STEP 11 and the head of STEP 12: slice the deltas, drop the blocked symbols.
Plan(target, stressed, n) ==
    LET planned(s) == Slices(s, target[s] - Held(s) - Overlay(s), stressed, n)
        placeable  == UNION {planned(s) : s \in {x \in Symbols : ~BlockedSymbol(x)}}
    IN  /\ pc = "synced" /\ ~needsResync
        /\ \E s \in Symbols : planned(s) # {}
        /\ placeable # {} => asof < MaxAsof
        /\ pc' = "submitting"
        /\ todo' = placeable
        /\ asof' = IF placeable # {} THEN asof + 1 ELSE asof
        /\ UNCHANGED <<orders, booked, items, needsResync, wasConnected, fills, resolving,
                       disk, audit, verified, brokerVars>>

\* OrderManager.place, driven through every answer the broker can give.
Submitting(p) ==
    /\ pc = "submitting" /\ p \in todo
    /\ \A x \in todo : SymbolOf(x.id) = SymbolOf(p.id) => SliceOf(p.id) <= SliceOf(x.id)
    /\ todo' = todo \ {p}
    /\ UNCHANGED <<pc, asof, booked, items, needsResync, wasConnected, resolving,
                   disk, audit, verified, connected>>

PlaceDisconnected(p) ==
    /\ Submitting(p) /\ ~connected
    /\ Put(p.id, Moved(NewRecord(p.qty), "BROKER_UNKNOWN"))
    /\ UNCHANGED <<fills, broker>>

\* The session drops after the probe: submit returns [] and nothing was sent.
PlaceUnsent(p) ==
    /\ Submitting(p) /\ connected /\ "unsent" \in Faults
    /\ Put(p.id, Moved(NewRecord(p.qty), "WORKING"))
    /\ UNCHANGED <<fills, broker>>

PlaceRaises(p) ==
    /\ Submitting(p) /\ connected
    /\ Put(p.id, Moved(NewRecord(p.qty), "SUBMISSION_UNCERTAIN"))
    /\ \/ "timeout" \in Faults /\ Accepts(p.id, p.qty, 0)
       \/ "refused" \in Faults /\ UNCHANGED broker
    /\ UNCHANGED fills

PlaceAccepted(p, k) ==
    LET acked == WithBrokerId(Moved(NewRecord(p.qty), "SUBMIT_PENDING"))
    IN  /\ Submitting(p) /\ connected
        /\ Accepts(p.id, p.qty, k)
        /\ IF k = 0
           THEN /\ Put(p.id, Moved(acked, "WORKING"))
                /\ UNCHANGED fills
           ELSE /\ Put(p.id, WithFill(acked, "exec", k))
                /\ fills' = [o \in DOMAIN fills \cup {p.id} |-> IF o = p.id THEN k ELSE fills[o]]

\* The end of STEP 12: prune_terminal, and _achieved_weights becomes the book.
FinishOrders ==
    /\ pc = "submitting" /\ todo = {}
    /\ pc' = "ran"
    /\ \E kept \in SUBSET TerminalOrders :
          /\ Cardinality(kept) = Smaller(MaxTerminal, Cardinality(TerminalOrders))
          /\ \A old \in TerminalOrders \ kept, young \in kept : AsofOf(old) <= AsofOf(young)
          /\ orders' = [o \in Pending \cup kept |-> orders[o]]
    /\ booked' = [o \in OrderIds |-> booked[o] + IF o \in DOMAIN fills THEN fills[o] ELSE 0]
    /\ UNCHANGED <<asof, items, needsResync, wasConnected, todo, fills, resolving,
                   disk, audit, verified, brokerVars>>

\* state_store.save raises: the fills are booked but never recorded or persisted.
StateStoreFails ==
    /\ pc = "ran" /\ "state_store" \in Faults
    /\ pc' = "idle" /\ fills' = NoOrders
    /\ UNCHANGED <<asof, orders, booked, items, needsResync, wasConnected, todo, resolving,
                   disk, audit, verified, brokerVars>>

\* record_cycle and the reconciliation alert, fail-soft.  An append that raises
\* loses the fills after it; the alert may still be written, after the gap.
RecordPart(recorded) ==
    /\ "ledger" \in Faults
    /\ journal' = [journal EXCEPT !.unsaved = TRUE]
    /\ \E broken \in {TRUE, ledger.broken \/ (journal.unsaved /\ recorded # {})} :
          ledger' = [qty    |-> [o \in OrderIds |->
                                   ledger.qty[o] + IF o \in recorded THEN fills[o] ELSE 0],
                     ids    |-> ledger.ids,
                     broken |-> broken]

RecordCycle ==
    /\ pc = "ran"
    /\ pc' = "recorded" /\ fills' = NoOrders
    /\ \/ Appended([o \in OrderIds |-> IF o \in DOMAIN fills THEN fills[o] ELSE 0], {})
       \/ \E recorded \in SUBSET DOMAIN fills : RecordPart(recorded)
    /\ UNCHANGED <<asof, orders, booked, items, needsResync, wasConnected, todo, resolving,
                   disk, verified, brokerVars>>

\* _persist, or the write of loop_state.json raising.
Persist ==
    /\ pc = "recorded"
    /\ pc' = "idle"
    /\ disk' = Snapshot \/ ("disk" \in Faults /\ UNCHANGED disk)
    /\ UNCHANGED <<asof, memory, audit, verified, brokerVars>>

(***************************************************************************)
(* The operator (resolve_reconciliation)                                   *)
(***************************************************************************)

\* A bug: ACCEPT appends its FILL whenever it is asked.
AcceptAgain(i) ==
    /\ pc = "idle" /\ i \in items /\ i.state = "OPEN"
    /\ pc' = "resolving" /\ resolving' = {i}
    /\ Appended([NothingYet EXCEPT ![i.order] = i.delta], {<<i.order, i.upTo>>})
    /\ UNCHANGED <<asof, orders, booked, items, needsResync, wasConnected, todo, fills,
                   disk, verified, brokerVars>>

\* ACCEPT appends the FILL first, unless _events has this item's id already.
Accept(i) ==
    /\ pc = "idle" /\ i \in items /\ i.state = "OPEN"
    /\ pc' = "resolving" /\ resolving' = {i}
    /\ LET id == <<i.order, i.upTo>>
       IN  IF id \in journal.ids
           THEN UNCHANGED audit
           ELSE Appended([NothingYet EXCEPT ![i.order] = i.delta], {id})
    /\ UNCHANGED <<asof, orders, booked, items, needsResync, wasConnected, todo, fills,
                   disk, verified, brokerVars>>

\* The append raises: ACCEPT gives up and the item stays OPEN.
AcceptUnaudited(i) ==
    /\ pc = "idle" /\ i \in items /\ i.state = "OPEN"
    /\ <<i.order, i.upTo>> \notin journal.ids
    /\ AppendRaises({<<i.order, i.upTo>>})
    /\ UNCHANGED <<pc, asof, memory, disk, verified, brokerVars>>

\* book_reconciled_fill: to FILLED or PARTIALLY_FILLED, an illegal move is swallowed.
BookReconciled(r) == Moved(r, FillStatus(r, r.filled))

\* cancel_reconciled_order
CancelReconciled(r) == IF CanMove(r.status, "CANCELLED") THEN Moved(r, "CANCELLED") ELSE r

\* Close the item, leave its order (if still tracked) settled, note it, and persist.
Close(i, state, settled) ==
    LET rest == items \ {i}
        done == [i EXCEPT !.state = state]
        o    == i.order
    IN  /\ items' = rest \cup {done}
        /\ orders' = [x \in DOMAIN orders |-> IF x = o THEN settled ELSE orders[x]]
        /\ pc' = "idle"
        /\ Noted
        /\ disk' = Snapshot' \/ ("disk" \in Faults /\ UNCHANGED disk)

FinishAccept ==
    /\ pc = "resolving"
    /\ \E i \in resolving :
          /\ booked' = [booked EXCEPT ![i.order] = @ + i.delta]
          /\ Close(i, "ACCEPTED", BookReconciled(orders[i.order]))
    /\ resolving' = {}
    /\ UNCHANGED <<asof, needsResync, wasConnected, todo, fills, verified, brokerVars>>

Reject(i) ==
    /\ pc = "idle" /\ i \in items /\ i.state = "OPEN" /\ "reject" \in Faults
    /\ UNCHANGED <<asof, booked, needsResync, wasConnected, todo, fills, resolving,
                   verified, brokerVars>>
    /\ Close(i, "REJECTED", CancelReconciled(orders[i.order]))

(***************************************************************************)
(* The process                                                             *)
(***************************************************************************)
Crash ==
    /\ pc \in CrashPoints
    /\ pc' = "down"
    /\ orders' = NoOrders /\ booked' = NothingYet /\ items' = {}
    /\ needsResync' = FALSE /\ wasConnected' = FALSE
    /\ todo' = {} /\ fills' = NoOrders /\ resolving' = {}
    /\ journal' = NewJournal
    /\ UNCHANGED <<asof, disk, ledger, verified, brokerVars>>

\* A new process: ImmutableLedger._load reads the trail back and raises on a gap;
\* start restores the loop state, then connects (it refuses to run disconnected).
StartRefused == pc = "down" /\ ledger.broken /\ UNCHANGED vars

Start ==
    /\ pc = "down" /\ ~ledger.broken
    /\ journal' = [ids |-> ledger.ids, unsaved |-> FALSE]
    /\ pc' = "idle"
    /\ orders' = [o \in DOMAIN disk.orders |-> Restored(disk.orders[o])]
    /\ booked' = disk.booked /\ items' = disk.items
    /\ needsResync' = (DOMAIN disk.orders # {})
    /\ verified' = (DOMAIN disk.orders = {})
    /\ connected' = TRUE
    /\ UNCHANGED <<asof, wasConnected, todo, fills, resolving, disk, ledger, broker>>

(***************************************************************************)
(* The specification                                                       *)
(***************************************************************************)
Submit ==
    \E p \in todo :
        \/ PlaceDisconnected(p)
        \/ PlaceUnsent(p)
        \/ PlaceRaises(p)
        \/ \E k \in 0 .. p.qty : PlaceAccepted(p, k)

PlanSome ==
    \E target \in [Symbols -> 0 .. MaxTarget], stressed \in BOOLEAN, n \in 1 .. MaxSlices :
        Plan(target, stressed, n)

Operator == \E i \in items : Accept(i) \/ AcceptUnaudited(i) \/ Reject(i)

Service ==
    \/ SkipResync
    \/ \E read \in Reads : Resync(read)
    \/ PriceFails
    \/ PlanNothing
    \/ PlanSome
    \/ Submit
    \/ FinishOrders
    \/ StateStoreFails
    \/ RecordCycle
    \/ Persist
    \/ FinishAccept
    \/ Crash
    \/ StartRefused
    \/ Start

Environment ==
    /\ BrokerNext
    /\ UNCHANGED <<pc, asof, memory, disk, audit, verified>>

Next == Service \/ Operator \/ Environment

Spec == Init /\ [][Next]_vars

\* run_forever starts the next cycle whatever the last one raised, so the thread
\* never rests.  What it needs from outside: of the reads that could list an order
\* (for a closed one, those of the day after it closed) one answers and does, and
\* the operator works the queue.
Cycle ==
    \/ SkipResync \/ \E read \in Reads : Resync(read)
    \/ PriceFails \/ PlanNothing \/ PlanSome
    \/ Submit \/ FinishOrders \/ StateStoreFails \/ RecordCycle \/ Persist
    \/ FinishAccept

ResyncLists(o) == \E read \in Answers : o \in read.ids /\ Resync(read)

Fairness ==
    /\ WF_vars(Cycle)
    /\ \A o \in OrderIds : SF_vars(ResyncLists(o))
    /\ SF_vars(\E i \in items : Accept(i))

FairSpec == Spec /\ Fairness

(***************************************************************************)
(* Properties                                                              *)
(***************************************************************************)
TypeOK ==
    /\ pc \in Points /\ asof \in 0 .. MaxAsof
    /\ DOMAIN orders \subseteq OrderIds /\ orders \in [DOMAIN orders -> OrderRecords]
    /\ booked \in [OrderIds -> Nat]
    /\ items \subseteq Items /\ resolving \subseteq items
    /\ needsResync \in BOOLEAN /\ wasConnected \in BOOLEAN /\ verified \in BOOLEAN
    /\ todo \subseteq [id : OrderIds, qty : Shares]
    /\ DOMAIN fills \subseteq OrderIds /\ fills \in [DOMAIN fills -> Shares]
    /\ DOMAIN disk.orders \subseteq OrderIds
    /\ disk.orders \in [DOMAIN disk.orders -> OrderRecords]
    /\ disk.booked \in [OrderIds -> Nat] /\ disk.items \subseteq Items
    /\ ledger \in [qty : [OrderIds -> Nat], ids : SUBSET (OrderIds \X Shares), broken : BOOLEAN]
    /\ journal \in [ids : SUBSET (OrderIds \X Shares), unsaved : BOOLEAN]
    /\ DOMAIN broker \subseteq OrderIds
    /\ broker \in [DOMAIN broker -> [qty : Shares, filled : Nat, open : BOOLEAN]]
    /\ connected \in BOOLEAN

\* _submit_live_via_lifecycle: whatever is lost, late, refused or restored, the
\* orders in flight for one symbol were all planned by one cycle (no stacking).
NoStacking ==
    \A a, b \in Pending : SymbolOf(a) = SymbolOf(b) => AsofOf(a) = AsofOf(b)

ItemsOf(its, o, states) == {i \in its : i.order = o /\ i.state \in states}
DeltaOf(its, o, states) == SumFunctionOnSet([i \in Items |-> i.delta], ItemsOf(its, o, states))
DeltaIn(o, states)      == DeltaOf(items, o, states)

\* The held-book flow: of every order in flight, the filled quantity is exactly
\* what was booked, plus what this cycle has yet to book, plus what awaits or was
\* refused by the operator.  No fill is lost between resync, book and operator.
FillsAreAccountedFor ==
    \A o \in Pending :
        orders[o].filled = booked[o] + DeltaIn(o, {"OPEN", "REJECTED"})
                             + IF o \in DOMAIN fills /\ pc = "submitting" THEN fills[o] ELSE 0

\* The held book never contains more of an order than the broker filled, even
\* when every open item is accepted, whatever crashed in between.
BookIsReal ==
    pc # "down" => \A o \in OrderIds : booked[o] + DeltaIn(o, {"OPEN"}) <= FilledAtBroker[o]

\* run_once promises that after a restart that restored orders the engine places
\* no new order until a clean resync: nothing is sent before the broker's order
\* book has really been read.
SubmitsAfterTruth == [][DOMAIN broker' # DOMAIN broker => verified]_vars

\* LoopState.open_orders: an order resting at the broker is never forgotten: the
\* running service tracks it as in flight.
RestingIsTracked == pc # "down" => OpenAtBroker \subseteq Pending

\* What the orders filled so far and those resting at the broker can still do
\* to the position in s.
RestAtBroker(s, sign) ==
    SumFunctionOnSet([o \in DOMAIN broker |-> broker[o].qty - broker[o].filled],
                     {o \in OfSymbol(OpenAtBroker, s) : Sign(o) = sign})
BrokerPosition(s) == SignedSum(FilledAtBroker, OfSymbol(DOMAIN broker, s))

\* STEP 11 sizes against held plus in flight: whichever resting orders fill next,
\* each in one piece, the real position stays between flat and the largest target
\* any cycle asked for.
NeverOvertrades ==
    \A s \in Symbols :
        /\ BrokerPosition(s) + RestAtBroker(s, 1) <= MaxTarget
        /\ BrokerPosition(s) - RestAtBroker(s, -1) >= 0

\* record_cycle and resolve_reconciliation, dying at any point and resolved again:
\* between cycles the book has nothing of an order that the durable ledger lacks,
\* and the ledger has nothing of it twice.
LedgerIsBetween ==
    pc = "idle" => \A o \in OrderIds :
                      booked[o] <= ledger.qty[o] /\ ledger.qty[o] <= FilledAtBroker[o]

\* An order that closed freezes its symbol while it is in flight.  What the loop can
\* see closed by itself: an order the broker has confirmed by its id, or whose fill
\* waits for the operator.
Recoverable(o) ==
    /\ o \in Pending
    /\ \/ orders[o].brokerId /\ orders[o].status \in {"WORKING", "PARTIALLY_FILLED"}
       \/ ItemsOf(items, o, {"OPEN"}) # {}

\* With a broker whose reads list what closed since the last one (Alpaca's adapter): a
\* confirmed order that fills or dies, wherever the loop is and whatever reads fail or
\* are cut short meanwhile, eventually leaves the orders in flight, so that its symbol
\* is traded again.
ConfirmedOrdersLeave ==
    \A o \in OrderIds :
        (Recoverable(o) /\ o \in DOMAIN broker \ OpenAtBroker) ~> (o \notin Pending)
=============================================================================
