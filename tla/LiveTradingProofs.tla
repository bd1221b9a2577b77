-------------------------- MODULE LiveTradingProofs --------------------------
(***************************************************************************)
(* The live loop, proved for any universe, any number of cycles and        *)
(* slices, every combination of faults and every choice of crash points.   *)
(*                                                                         *)
(* No stacking: the orders in flight for one symbol were planned by one    *)
(* cycle.  NoStacking is not inductive.  A symbol is free to trade when no *)
(* tracked order of it has a blocking status, so Settled says that a       *)
(* tracked order is blocking or terminal, nothing in between; a restart    *)
(* brings orders back from disk, so the snapshot must satisfy the same;    *)
(* and the slices still to be placed must belong to the cycle of whatever  *)
(* is in flight for their symbol (TodoIsCurrent).                          *)
(*                                                                         *)
(* The held book: it holds what the records and the reconciliation items   *)
(* account for.  AccountInv says it of the books in memory and of the      *)
(* saved ones at once (Books), because a restart swaps one for the other,  *)
(* and adds the types of what the loop carries between its steps           *)
(* (LoopTypeOK), what each part of the loop finds empty (PcInv), and that  *)
(* a slice still to be placed has an identifier of its own (FreshInv).     *)
(***************************************************************************)
EXTENDS LiveTrading, SumLemmas, TLAPS

Settled(os) == \A o \in DOMAIN os : os[o].status \in ResubmitBlockingStates \cup TerminalStates

InFlight(os) == {o \in DOMAIN os : ~Terminal(os[o])}

OneCycle(os) ==
    \A a, b \in InFlight(os) : SymbolOf(a) = SymbolOf(b) => AsofOf(a) = AsofOf(b)

TodoIsCurrent ==
    /\ pc = "down" => todo = {}
    /\ \A p \in todo :
          /\ AsofOf(p.id) = asof
          /\ \A o \in InFlight(orders) : SymbolOf(o) = SymbolOf(p.id) => AsofOf(o) = asof

StackInv ==
    /\ Settled(orders) /\ OneCycle(orders)
    /\ Settled(disk.orders) /\ OneCycle(disk.orders)
    /\ TodoIsCurrent

-----------------------------------------------------------------------------
(* The lifecycle's operators                                               *)

\* A terminal status has no way out, and is not a blocking one.
LEMMA TerminalIsFinal ==
    \A s \in TerminalStates :
        /\ s \notin ResubmitBlockingStates
        /\ s \notin ResyncResolvable
        /\ Allowed(s) = {}
  BY DEF TerminalStates, ResubmitBlockingStates, ResyncResolvable, Unconfirmed, Allowed

\* resync: a blocking order stays blocking or finishes, a finished one stays.
LEMMA ResyncSettles ==
    ASSUME NEW s \in ResubmitBlockingStates \cup TerminalStates, NEW truth \in BrokerTruth
    PROVE  /\ ResyncStatus(s, truth) \in ResubmitBlockingStates \cup TerminalStates
           /\ s \in TerminalStates => ResyncStatus(s, truth) = s
<1> DEFINE target == IF truth = "NO_RECORD" THEN "RECONCILIATION_HOLD" ELSE truth
<1>1. CASE ResyncStatus(s, truth) = s
  BY <1>1
<1>2. CASE ResyncStatus(s, truth) # s
  <2>1. ResyncStatus(s, truth) = target /\ s \in ResyncResolvable /\ truth # "UNRECOGNISED"
    BY <1>2 DEF ResyncStatus
  <2>2. target \in ResyncStatuses
    BY <2>1 DEF BrokerTruth, ResyncStatuses
  <2>3. ResyncStatuses \subseteq ResubmitBlockingStates \cup TerminalStates
    BY DEF ResyncStatuses, ResubmitBlockingStates
  <2> QED BY <2>1, <2>2, <2>3, TerminalIsFinal
<1> QED BY <1>1, <1>2

\* record_fill and book_reconciled_fill: likewise.
LEMMA FillSettles ==
    ASSUME NEW r, NEW filled,
           r.status \in ResubmitBlockingStates \cup TerminalStates
    PROVE  /\ FillStatus(r, filled) \in ResubmitBlockingStates \cup TerminalStates
           /\ r.status \in TerminalStates => FillStatus(r, filled) = r.status
<1>1. CASE FillStatus(r, filled) = r.status
  BY <1>1
<1>2. CASE FillStatus(r, filled) # r.status
  <2>1. /\ FillStatus(r, filled) \in {"FILLED", "PARTIALLY_FILLED"}
        /\ FillStatus(r, filled) \in Allowed(r.status)
    BY <1>2 DEF FillStatus, CanMove
  <2>2. {"FILLED", "PARTIALLY_FILLED"} \subseteq ResubmitBlockingStates \cup TerminalStates
    BY DEF ResubmitBlockingStates, TerminalStates
  <2> QED BY <2>1, <2>2, TerminalIsFinal
<1> QED BY <1>1, <1>2

-----------------------------------------------------------------------------
(* Sets of orders                                                          *)

\* Orders may vanish, finish or stay as they are: what is in flight was before.
LEMMA ShrinkIsSafe ==
    ASSUME NEW old, NEW new,
           OneCycle(old),
           DOMAIN new \subseteq DOMAIN old,
           \A o \in DOMAIN new :
               /\ new[o].status \in ResubmitBlockingStates \cup TerminalStates
               /\ Terminal(old[o]) => Terminal(new[o])
    PROVE  Settled(new) /\ OneCycle(new) /\ InFlight(new) \subseteq InFlight(old)
<1>1. InFlight(new) \subseteq InFlight(old)
  BY DEF InFlight
<1> QED BY <1>1 DEF Settled, OneCycle

\* _persist: the snapshot is as settled as the orders it was taken of.
LEMMA SnapshotIsSafe ==
    ASSUME Settled(orders'), OneCycle(orders'),
           Settled(disk.orders), OneCycle(disk.orders),
           disk' = Snapshot' \/ disk' = disk
    PROVE  Settled(disk'.orders) /\ OneCycle(disk'.orders)
<1>1. CASE disk' = disk
  BY <1>1
<1>2. CASE disk' = Snapshot'
  <2>1. disk'.orders = [o \in Pending' |-> orders'[o]]
    BY <1>2 DEF Snapshot
  <2>2. Pending' \subseteq DOMAIN orders'
    BY DEF Pending
  <2>3. /\ DOMAIN disk'.orders \subseteq DOMAIN orders'
        /\ \A o \in DOMAIN disk'.orders : disk'.orders[o] = orders'[o]
    BY <2>1, <2>2
  <2>4. \A o \in DOMAIN disk'.orders :
            /\ disk'.orders[o].status \in ResubmitBlockingStates \cup TerminalStates
            /\ Terminal(orders'[o]) => Terminal(disk'.orders[o])
    BY <2>3 DEF Settled
  <2> QED BY <2>3, <2>4, ShrinkIsSafe
<1> QED BY <1>1, <1>2

\* A step that leaves the cycle alone and puts nothing new in flight.
LEMMA ShrinkingStepIsSafe ==
    ASSUME StackInv,
           DOMAIN orders' \subseteq DOMAIN orders,
           \A o \in DOMAIN orders' :
               /\ orders'[o].status \in ResubmitBlockingStates \cup TerminalStates
               /\ Terminal(orders[o]) => Terminal(orders'[o]),
           asof' = asof, todo' = todo, pc' # "down",
           disk' = Snapshot' \/ disk' = disk
    PROVE  StackInv'
<1>1. /\ Settled(orders') /\ OneCycle(orders')
      /\ InFlight(orders') \subseteq InFlight(orders)
  BY ShrinkIsSafe DEF StackInv
<1>2. Settled(disk'.orders) /\ OneCycle(disk'.orders)
  BY <1>1, SnapshotIsSafe DEF StackInv
<1>3. TodoIsCurrent'
  BY <1>1 DEF StackInv, TodoIsCurrent
<1> QED BY <1>1, <1>2, <1>3 DEF StackInv

\* A step that touches neither the orders nor the slices to be placed.
LEMMA IdleStepIsSafe ==
    ASSUME StackInv, UNCHANGED <<orders, todo, asof>>, pc' # "down",
           disk' = Snapshot' \/ disk' = disk
    PROVE  StackInv'
<1>1. \A o \in DOMAIN orders' :
          /\ orders'[o].status \in ResubmitBlockingStates \cup TerminalStates
          /\ Terminal(orders[o]) => Terminal(orders'[o])
  BY DEF StackInv, Settled
<1> QED BY <1>1, ShrinkingStepIsSafe

-----------------------------------------------------------------------------
(* The actions                                                             *)

\* open_orders: every status it reports is one a resync can be told.
LEMMA BrokerSpeaksTheVocabulary ==
    \A o : BrokerStatus(o) \in BrokerTruth
  BY DEF BrokerStatus, BrokerTruth, ResyncStatuses, TerminalStates

\* _maybe_resync: matched orders move along the graph, the others stay.
LEMMA ResyncIsSafe ==
    ASSUME StackInv, NEW read, Resync(read)
    PROVE  StackInv'
<1>1. UNCHANGED <<asof, todo, disk>> /\ pc' # "down"
  BY DEF Resync
<1>2. CASE read.kind = "raised"
  BY <1>1, <1>2, IdleStepIsSafe DEF Resync
<1>3. CASE read.kind # "raised"
  <2> DEFINE matched    == Pending \cap read.ids
             discovered == {o \in matched : broker[o].filled > orders[o].filled}
             Adopted(o) == IF o \in matched
                           THEN WithBrokerFill(WithBrokerId(orders[o]), broker[o].filled)
                           ELSE orders[o]
             Truth(o)   == CASE o \in discovered -> "RECONCILIATION_HOLD"
                             [] o \in matched \ discovered -> BrokerStatus(o)
                             [] OTHER -> "NO_RECORD"
  <2>1. orders' = [o \in DOMAIN orders |-> Resynced(Adopted(o), Truth(o))]
    BY <1>3 DEF Resync, ApplyTruth
  <2>2. \A o : Truth(o) \in BrokerTruth
    BY BrokerSpeaksTheVocabulary DEF BrokerTruth, ResyncStatuses
  <2>3. \A o \in DOMAIN orders : Adopted(o).status = orders[o].status
    BY DEF WithBrokerFill, WithBrokerId
  <2>4. ASSUME NEW o \in DOMAIN orders'
        PROVE  /\ orders'[o].status \in ResubmitBlockingStates \cup TerminalStates
               /\ Terminal(orders[o]) => Terminal(orders'[o])
    <3> HIDE DEF Adopted, Truth
    <3>1. orders'[o] = Resynced(Adopted(o), Truth(o)) /\ o \in DOMAIN orders
      BY <2>1
    <3>2. orders[o].status \in ResubmitBlockingStates \cup TerminalStates
      BY <3>1 DEF StackInv, Settled
    <3>3. orders'[o].status = ResyncStatus(orders[o].status, Truth(o))
      BY <3>1, <2>3 DEF Resynced, Moved
    <3> QED BY <2>2, <3>2, <3>3, ResyncSettles DEF Terminal
  <2> HIDE DEF Adopted, Truth
  <2>5. DOMAIN orders' \subseteq DOMAIN orders
    BY <2>1
  <2> QED BY <1>1, <2>4, <2>5, ShrinkingStepIsSafe
<1> QED BY <1>2, <1>3

\* STEP 11 and 12: a symbol that gets slices has nothing in flight.
LEMMA PlanIsSafe ==
    ASSUME StackInv, NEW target, NEW stressed, NEW n, Plan(target, stressed, n)
    PROVE  StackInv'
<1> DEFINE planned(s) == Slices(s, target[s] - Held(s) - Overlay(s), stressed, n)
           free       == {s \in Symbols : ~BlockedSymbol(s)}
<1>1. /\ UNCHANGED <<orders, disk>> /\ pc' # "down"
      /\ todo' = UNION {planned(s) : s \in free}
      /\ todo' # {} => asof' = asof + 1
  BY DEF Plan
<1>2. ASSUME NEW s \in free, NEW p \in planned(s)
      PROVE  AsofOf(p.id) = asof + 1 /\ SymbolOf(p.id) = s
  BY <1>2 DEF Slices, AsofOf, SymbolOf
<1>3. ASSUME NEW s \in free, NEW o \in InFlight(orders)
      PROVE  SymbolOf(o) # s
  <2>1. orders[o].status \in ResubmitBlockingStates
    BY DEF InFlight, StackInv, Settled, Terminal
  <2> QED BY <2>1 DEF BlockedSymbol, OfSymbol, InFlight
<1> HIDE DEF planned, free
<1>4. TodoIsCurrent'
  <2> SUFFICES ASSUME NEW p \in todo'
               PROVE  /\ AsofOf(p.id) = asof'
                      /\ \A o \in InFlight(orders') :
                             SymbolOf(o) = SymbolOf(p.id) => AsofOf(o) = asof'
    BY <1>1 DEF TodoIsCurrent
  <2>1. PICK s \in free : p \in planned(s)
    BY <1>1
  <2>2. AsofOf(p.id) = asof + 1 /\ SymbolOf(p.id) = s
    BY <1>2, <2>1
  <2>3. asof' = asof + 1
    BY <1>1
  <2> QED BY <1>1, <1>3, <2>2, <2>3
<1> QED BY <1>1, <1>4 DEF StackInv

\* OrderManager.place: a slice joins orders of its own cycle.
LEMMA PutIsSafe ==
    ASSUME StackInv, NEW p, NEW r, Submitting(p), Put(p.id, r),
           r.status \in ResubmitBlockingStates \cup TerminalStates
    PROVE  StackInv'
<1>1. /\ UNCHANGED <<pc, asof, disk>> /\ p \in todo /\ todo' = todo \ {p} /\ pc' # "down"
  BY DEF Submitting
<1>2. /\ DOMAIN orders' = DOMAIN orders \cup {p.id}
      /\ orders'[p.id] = r
      /\ \A o \in DOMAIN orders : o # p.id => orders'[o] = orders[o]
  BY DEF Put
<1>3. InFlight(orders') \subseteq InFlight(orders) \cup {p.id}
  BY <1>2 DEF InFlight
<1>4. Settled(orders')
  BY <1>2 DEF StackInv, Settled
<1>5. OneCycle(orders')
  BY <1>1, <1>3 DEF StackInv, OneCycle, TodoIsCurrent
<1>6. TodoIsCurrent'
  BY <1>1, <1>3 DEF StackInv, TodoIsCurrent
<1> QED BY <1>1, <1>4, <1>5, <1>6 DEF StackInv

\* Every answer of the broker leaves the new order blocking or finished.
LEMMA SubmitIsSafe ==
    ASSUME StackInv, Submit
    PROVE  StackInv'
<1>1. /\ {"BROKER_UNKNOWN", "WORKING", "SUBMISSION_UNCERTAIN", "SUBMIT_PENDING"}
             \subseteq ResubmitBlockingStates
  BY DEF ResubmitBlockingStates
<1>2. \A r, s : NewRecord(r).status = "CREATED" /\ Moved(NewRecord(r), s).status = s
  BY DEF NewRecord, Moved
<1>3. PICK p \in todo : \/ PlaceDisconnected(p) \/ PlaceUnsent(p) \/ PlaceRaises(p)
                        \/ \E k \in 0 .. p.qty : PlaceAccepted(p, k)
  BY DEF Submit
<1>4. CASE PlaceDisconnected(p)
  BY <1>1, <1>2, <1>4, PutIsSafe DEF PlaceDisconnected
<1>5. CASE PlaceUnsent(p)
  BY <1>1, <1>2, <1>5, PutIsSafe DEF PlaceUnsent
<1>6. CASE PlaceRaises(p)
  BY <1>1, <1>2, <1>6, PutIsSafe DEF PlaceRaises
<1>7. ASSUME NEW k \in 0 .. p.qty, PlaceAccepted(p, k)
      PROVE  StackInv'
  <2> DEFINE acked == WithBrokerId(Moved(NewRecord(p.qty), "SUBMIT_PENDING"))
  <2>1. acked.status = "SUBMIT_PENDING" /\ Moved(acked, "WORKING").status = "WORKING"
    BY DEF WithBrokerId, Moved, NewRecord
  <2>2. Submitting(p) /\ (Put(p.id, Moved(acked, "WORKING")) \/ Put(p.id, WithFill(acked, "exec", k)))
    BY <1>7 DEF PlaceAccepted
  <2>3. WithFill(acked, "exec", k).status \in ResubmitBlockingStates \cup TerminalStates
    <3>1. acked.seen = {}
      BY DEF WithBrokerId, Moved, NewRecord
    <3>2. \E filled : WithFill(acked, "exec", k).status = FillStatus(acked, filled)
      <4> WITNESS Smaller(acked.filled + k, acked.approved)
      <4> QED BY <3>1 DEF WithFill, WithBrokerId, Moved, NewRecord
    <3> HIDE DEF acked
    <3> QED BY <1>1, <2>1, <3>2, FillSettles
  <2> HIDE DEF acked
  <2> QED BY <1>1, <2>1, <2>2, <2>3, PutIsSafe
<1> QED BY <1>3, <1>4, <1>5, <1>6, <1>7

\* prune_terminal evicts, and touches no order that stays.
LEMMA FinishOrdersIsSafe ==
    ASSUME StackInv, FinishOrders
    PROVE  StackInv'
<1>1. PICK kept \in SUBSET TerminalOrders : orders' = [o \in Pending \cup kept |-> orders[o]]
  BY DEF FinishOrders
<1>2. DOMAIN orders' \subseteq DOMAIN orders /\ \A o \in DOMAIN orders' : orders'[o] = orders[o]
  BY <1>1 DEF Pending, TerminalOrders
<1>3. \A o \in DOMAIN orders' :
          /\ orders'[o].status \in ResubmitBlockingStates \cup TerminalStates
          /\ Terminal(orders[o]) => Terminal(orders'[o])
  BY <1>2 DEF StackInv, Settled
<1>4. UNCHANGED <<asof, todo, disk>> /\ pc' # "down"
  BY DEF FinishOrders
<1> QED BY <1>2, <1>3, <1>4, ShrinkingStepIsSafe

\* book_reconciled_fill: to FILLED or PARTIALLY_FILLED, or nowhere.
LEMMA BookReconciledSettles ==
    ASSUME NEW r, r.status \in ResubmitBlockingStates \cup TerminalStates
    PROVE  /\ BookReconciled(r).status \in ResubmitBlockingStates \cup TerminalStates
           /\ Terminal(r) => Terminal(BookReconciled(r))
<1>1. BookReconciled(r).status = FillStatus(r, r.filled) \/ BookReconciled(r) = r
  BY DEF BookReconciled, Moved
<1> QED BY <1>1, FillSettles DEF Terminal

\* cancel_reconciled_order: to CANCELLED, or nowhere.
LEMMA CancelReconciledSettles ==
    ASSUME NEW r, r.status \in ResubmitBlockingStates \cup TerminalStates
    PROVE  /\ CancelReconciled(r).status \in ResubmitBlockingStates \cup TerminalStates
           /\ Terminal(r) => Terminal(CancelReconciled(r))
<1>1. CancelReconciled(r).status = "CANCELLED" \/ CancelReconciled(r) = r
  BY DEF CancelReconciled, Moved
<1> QED BY <1>1 DEF Terminal, TerminalStates

\* resolve_reconciliation, ACCEPT.
LEMMA FinishAcceptIsSafe ==
    ASSUME StackInv, FinishAccept
    PROVE  StackInv'
<1>1. PICK i \in resolving : Close(i, "ACCEPTED", BookReconciled(orders[i.order]))
  BY DEF FinishAccept
<1>2. /\ orders' = [x \in DOMAIN orders |-> IF x = i.order THEN BookReconciled(orders[x]) ELSE orders[x]]
      /\ pc' # "down" /\ (disk' = Snapshot' \/ disk' = disk)
  BY <1>1 DEF Close
<1>3. \A o \in DOMAIN orders' :
          /\ orders'[o].status \in ResubmitBlockingStates \cup TerminalStates
          /\ Terminal(orders[o]) => Terminal(orders'[o])
  BY <1>2, BookReconciledSettles DEF StackInv, Settled
<1>4. UNCHANGED <<asof, todo>> /\ DOMAIN orders' \subseteq DOMAIN orders
  BY <1>2 DEF FinishAccept
<1> QED BY <1>2, <1>3, <1>4, ShrinkingStepIsSafe

\* resolve_reconciliation, REJECT.
LEMMA RejectIsSafe ==
    ASSUME StackInv, NEW i, Reject(i)
    PROVE  StackInv'
<1>1. /\ orders' = [x \in DOMAIN orders |-> IF x = i.order THEN CancelReconciled(orders[x]) ELSE orders[x]]
      /\ pc' # "down" /\ (disk' = Snapshot' \/ disk' = disk)
  BY DEF Reject, Close
<1>2. \A o \in DOMAIN orders' :
          /\ orders'[o].status \in ResubmitBlockingStates \cup TerminalStates
          /\ Terminal(orders[o]) => Terminal(orders'[o])
  BY <1>1, CancelReconciledSettles DEF StackInv, Settled
<1>3. UNCHANGED <<asof, todo>> /\ DOMAIN orders' \subseteq DOMAIN orders
  BY <1>1 DEF Reject
<1> QED BY <1>1, <1>2, <1>3, ShrinkingStepIsSafe

\* A crash leaves nothing in memory.
LEMMA CrashIsSafe ==
    ASSUME StackInv, Crash
    PROVE  StackInv'
<1>1. orders' = NoOrders /\ todo' = {} /\ UNCHANGED disk
  BY DEF Crash
<1>2. DOMAIN orders' = {}
  BY <1>1 DEF NoOrders
<1>3. Settled(orders') /\ OneCycle(orders')
  BY <1>2 DEF Settled, OneCycle, InFlight
<1> QED BY <1>1, <1>3 DEF StackInv, TodoIsCurrent

\* _restore_loop_state: what comes back is what was saved.
LEMMA StartIsSafe ==
    ASSUME StackInv, Start
    PROVE  StackInv'
<1>1. /\ orders' = [o \in DOMAIN disk.orders |-> Restored(disk.orders[o])]
      /\ UNCHANGED <<todo, disk>> /\ todo = {}
  BY DEF Start, StackInv, TodoIsCurrent
<1>2. /\ DOMAIN orders' \subseteq DOMAIN disk.orders
      /\ \A o \in DOMAIN orders' : orders'[o].status = disk.orders[o].status
  BY <1>1 DEF Restored
<1>3. \A o \in DOMAIN orders' :
          /\ orders'[o].status \in ResubmitBlockingStates \cup TerminalStates
          /\ Terminal(disk.orders[o]) => Terminal(orders'[o])
  BY <1>2 DEF StackInv, Settled, Terminal
<1>4. Settled(orders') /\ OneCycle(orders')
  BY <1>2, <1>3, ShrinkIsSafe DEF StackInv
<1> QED BY <1>1, <1>4 DEF StackInv, TodoIsCurrent

\* The broker moves on its own and touches nothing of the service's.
LEMMA EnvironmentIsSafe ==
    ASSUME StackInv, Environment
    PROVE  StackInv'
  BY DEF Environment, memory, StackInv, TodoIsCurrent

\* Every step preserves the invariant.
LEMMA NextKeepsStackInv ==
    ASSUME StackInv, [Next]_vars
    PROVE  StackInv'
<1>1. CASE SkipResync
  BY <1>1, IdleStepIsSafe DEF SkipResync
<1>2. CASE \E read \in Reads : Resync(read)
  BY <1>2, ResyncIsSafe
<1>3. CASE PriceFails \/ PlanNothing
  BY <1>3, IdleStepIsSafe DEF PriceFails, PlanNothing, memory
<1>4. CASE PlanSome
  BY <1>4, PlanIsSafe DEF PlanSome
<1>5. CASE Submit
  BY <1>5, SubmitIsSafe
<1>6. CASE FinishOrders
  BY <1>6, FinishOrdersIsSafe
<1>7. CASE StateStoreFails
  BY <1>7, IdleStepIsSafe DEF StateStoreFails
<1>8. CASE RecordCycle
  BY <1>8, IdleStepIsSafe DEF RecordCycle
<1>9. CASE Persist
  <2>1. UNCHANGED <<orders, booked, items, todo, asof>> /\ pc' # "down"
    BY <1>9 DEF Persist, memory
  <2>2. Snapshot' = Snapshot
    BY <2>1 DEF Snapshot, Pending
  <2> QED BY <1>9, <2>1, <2>2, IdleStepIsSafe DEF Persist
<1>10. CASE FinishAccept
  BY <1>10, FinishAcceptIsSafe
<1>11. CASE Crash
  BY <1>11, CrashIsSafe
<1>12. CASE Start
  BY <1>12, StartIsSafe
<1>13. CASE \E i \in items : Accept(i)
  BY <1>13, IdleStepIsSafe DEF Accept
<1>14. CASE \E i \in items : Reject(i)
  BY <1>14, RejectIsSafe
<1>15. CASE Environment
  BY <1>15, EnvironmentIsSafe
<1>16. CASE StartRefused \/ UNCHANGED vars
  BY <1>16 DEF StartRefused, vars, memory, StackInv, TodoIsCurrent
<1>17. CASE \E i \in items : AcceptUnaudited(i)
  BY <1>17, IdleStepIsSafe DEF AcceptUnaudited, memory
<1> QED
  BY <1>1, <1>2, <1>3, <1>4, <1>5, <1>6, <1>7, <1>8, <1>9, <1>10, <1>11, <1>12,
     <1>13, <1>14, <1>15, <1>16, <1>17 DEF Next, Service, Operator

-----------------------------------------------------------------------------
\* No stacking (_submit_live_via_lifecycle): whatever the broker, the network,
\* the operator and crashes do, the orders in flight for a symbol were planned
\* by one cycle.
THEOREM NoStackingEver == Spec => []NoStacking
<1>1. Init => StackInv
  <2> SUFFICES ASSUME Init PROVE StackInv
    OBVIOUS
  <2>1. orders = NoOrders /\ disk.orders = NoOrders /\ todo = {}
    BY DEF Init, Blank
  <2>2. DOMAIN NoOrders = {}
    BY DEF NoOrders
  <2> QED BY <2>1, <2>2 DEF StackInv, Settled, OneCycle, InFlight, TodoIsCurrent
<1>2. StackInv /\ [Next]_vars => StackInv'
  BY NextKeepsStackInv
<1>3. StackInv => NoStacking
  BY DEF StackInv, OneCycle, InFlight, NoStacking, Pending
<1> QED BY <1>1, <1>2, <1>3, PTL DEF Spec

-----------------------------------------------------------------------------
(* Records                                                                 *)

\* The methods of a record that the loop calls: what they keep, what they set.
LEMMA MovedFields ==
    ASSUME NEW r \in OrderRecords, NEW to \in OrderStatus
    PROVE  /\ Moved(r, to) \in OrderRecords
           /\ Moved(r, to).status = to
           /\ Moved(r, to).filled = r.filled
           /\ Moved(r, to).approved = r.approved
  BY DEF Moved, OrderRecords

LEMMA BrokerIdFields ==
    ASSUME NEW r \in OrderRecords
    PROVE  /\ WithBrokerId(r) \in OrderRecords
           /\ WithBrokerId(r).status = r.status
           /\ WithBrokerId(r).filled = r.filled
           /\ WithBrokerId(r).approved = r.approved
  BY DEF WithBrokerId, OrderRecords

LEMMA BrokerFillFields ==
    ASSUME NEW r \in OrderRecords, NEW q \in Nat, q <= r.approved
    PROVE  /\ WithBrokerFill(r, q) \in OrderRecords
           /\ WithBrokerFill(r, q).status = r.status
           /\ WithBrokerFill(r, q).filled = IF q > r.filled THEN q ELSE r.filled
           /\ WithBrokerFill(r, q).approved = r.approved
<1>1. Smaller(q, r.approved) = q
  BY DEF Smaller
<1>2. CASE q > r.filled
  <2>1. WithBrokerFill(r, q) = [r EXCEPT !.filled = q]
    BY <1>1, <1>2 DEF WithBrokerFill
  <2> QED BY <1>2, <2>1 DEF OrderRecords
<1>3. CASE ~(q > r.filled)
  BY <1>1, <1>3 DEF WithBrokerFill
<1> QED BY <1>2, <1>3

LEMMA RestoredFields ==
    ASSUME NEW r \in OrderRecords
    PROVE  Restored(r) = r
  BY DEF Restored, OrderRecords

LEMMA StatusesAreStatuses == ResubmitBlockingStates \cup TerminalStates \subseteq OrderStatus
  BY DEF OrderStatus

\* A submitted order that was not filled.
LEMMA SubmittedFields ==
    ASSUME NEW q \in Shares, NEW to \in OrderStatus
    PROVE  /\ Moved(NewRecord(q), to) \in OrderRecords
           /\ Moved(NewRecord(q), to).status = to
           /\ Moved(NewRecord(q), to).filled = 0
           /\ Moved(NewRecord(q), to).approved = q
<1>1. NewRecord(q) \in OrderRecords /\ NewRecord(q).filled = 0 /\ NewRecord(q).approved = q
  BY DEF NewRecord, OrderRecords, OrderStatus
<1> QED BY <1>1, MovedFields

\* record_fill of the only fill of an acknowledged order.
LEMMA FilledFields ==
    ASSUME NEW r \in OrderRecords, NEW k \in Nat, r.filled = 0, k <= r.approved,
           r.seen = {}, "exec" \in FillIds, FillStatus(r, k) \in OrderStatus
    PROVE  /\ WithFill(r, "exec", k) \in OrderRecords
           /\ WithFill(r, "exec", k).status = FillStatus(r, k)
           /\ WithFill(r, "exec", k).filled = k
           /\ WithFill(r, "exec", k).approved = r.approved
<1>1. Smaller(r.filled + k, r.approved) = k /\ r.approved \in Nat
  BY DEF Smaller, OrderRecords, Shares
<1>2. WithFill(r, "exec", k) =
        [r EXCEPT !.seen = r.seen \cup {"exec"}, !.filled = k,
                  !.overfill = r.overfill \/ r.filled + k > r.approved,
                  !.status = FillStatus(r, k)]
  BY <1>1 DEF WithFill
<1> QED BY <1>2 DEF OrderRecords

-----------------------------------------------------------------------------
(* The quantities of an order's items                                      *)

ItemStates == {"OPEN", "ACCEPTED", "REJECTED"}

\* Any set of items with finitely many of o.
LEMMA DeltaIsNat ==
    ASSUME NEW its \in SUBSET Items, NEW o, NEW states,
           IsFiniteSet(ItemsOf(its, o, ItemStates))
    PROVE  /\ DeltaOf(its, o, states) \in Nat
           /\ IsFiniteSet(ItemsOf(its, o, states))
           /\ \A i \in ItemsOf(its, o, states) : i.delta <= DeltaOf(its, o, states)
<1> DEFINE f == [i \in Items |-> i.delta]
           S == ItemsOf(its, o, states)
<1>1. IsFiniteSet(S)
  <2>1. S \subseteq ItemsOf(its, o, ItemStates)
    BY DEF ItemsOf, Items, ItemStates
  <2> QED BY <2>1, FS_Subset
<1>2. ASSUME NEW T \in SUBSET S
      PROVE  /\ \A x \in T : f[x] \in Nat /\ f[x] = x.delta
             /\ IsFiniteSet(T) /\ SumFunctionOnSet(f, T) \in Nat
  <2>1. \A x \in T : f[x] \in Nat /\ f[x] = x.delta
    BY DEF ItemsOf, Items, Shares
  <2>2. IsFiniteSet(T)
    BY <1>1, FS_Subset
  <2> HIDE DEF f
  <2>3. SumFunctionOnSet(f, T) \in Nat
    BY <2>1, <2>2, SumIsNat
  <2> QED BY <2>1, <2>2, <2>3
<1>3. ASSUME NEW i \in S
      PROVE  i.delta <= SumFunctionOnSet(f, S)
  <2> HIDE DEF f, S
  <2>1. /\ SumFunctionOnSet(f, S) = f[i] + SumFunctionOnSet(f, S \ {i})
        /\ f[i] = i.delta /\ f[i] \in Nat
        /\ SumFunctionOnSet(f, S \ {i}) \in Nat
    BY <1>1, <1>2, SumOneMore
  <2> QED BY <2>1
<1>4. DeltaOf(its, o, states) = SumFunctionOnSet(f, S)
  BY DEF DeltaOf
<1> QED BY <1>1, <1>2, <1>3, <1>4

\* An item more.
LEMMA DeltaOfAdded ==
    ASSUME NEW its \in SUBSET Items, NEW more \in SUBSET Items, NEW o, NEW states, NEW i,
           IsFiniteSet(ItemsOf(its, o, ItemStates)),
           ItemsOf(more, o, states) = ItemsOf(its, o, states) \cup {i},
           i \notin ItemsOf(its, o, states)
    PROVE  DeltaOf(more, o, states) = DeltaOf(its, o, states) + i.delta
<1> DEFINE f == [x \in Items |-> x.delta]
           S == ItemsOf(its, o, states)
<1>1. IsFiniteSet(S)
  BY DeltaIsNat
<1>2. i \in Items /\ S \subseteq Items /\ i \notin S
  BY DEF ItemsOf
<1>3. \A x \in S \cup {i} : f[x] \in Int /\ f[x] = x.delta
  BY <1>2 DEF Items, Shares
<1>4. SumFunctionOnSet(f, S \cup {i}) = SumFunctionOnSet(f, S) + f[i]
  <2> HIDE DEF f, S
  <2> QED BY <1>1, <1>2, <1>3, SumOfAdded
<1>5. f[i] = i.delta
  BY <1>3
<1> QED BY <1>4, <1>5 DEF DeltaOf
\* The items in some states are part of those in more.
LEMMA OpenIsPart ==
    ASSUME NEW its \in SUBSET Items, NEW o, IsFiniteSet(ItemsOf(its, o, ItemStates))
    PROVE  DeltaOf(its, o, {"OPEN"}) <= DeltaOf(its, o, {"OPEN", "REJECTED"})
<1> DEFINE f == [i \in Items |-> i.delta]
           S == ItemsOf(its, o, {"OPEN", "REJECTED"})
           T == ItemsOf(its, o, {"OPEN"})
<1>1. IsFiniteSet(S)
  BY DeltaIsNat
<1>2. T \subseteq S /\ \A i \in S : f[i] \in Nat
  BY DEF ItemsOf, Items, Shares
<1>3. SumFunctionOnSet(f, T) <= SumFunctionOnSet(f, S)
  <2> HIDE DEF f, S, T
  <2> QED BY <1>1, <1>2, SumOfPart
<1> QED BY <1>3 DEF DeltaOf

-----------------------------------------------------------------------------
(* A book: orders, held quantities and items, against the broker's orders  *)

FilledIn(bro, o) == IF o \in DOMAIN bro THEN bro[o].filled ELSE 0

BrokerOK(bro) ==
    /\ DOMAIN bro \subseteq OrderIds
    /\ bro \in [DOMAIN bro -> [qty : Shares, filled : Nat, open : BOOLEAN]]
    /\ \A o \in DOMAIN bro : /\ bro[o].filled <= bro[o].qty
                             /\ bro[o].open => bro[o].filled < bro[o].qty

BookType(os, bk, its) ==
    /\ DOMAIN os \subseteq OrderIds /\ os \in [DOMAIN os -> OrderRecords]
    /\ bk \in [OrderIds -> Nat]
    /\ its \subseteq Items

\* A record never says more than the broker does.
Agrees(os, bro) ==
    \A o \in DOMAIN os :
        /\ o \in DOMAIN bro => os[o].approved = bro[o].qty /\ os[o].filled <= bro[o].filled
        /\ o \notin DOMAIN bro => os[o].filled = 0

\* An item is known by its order and by what it takes the order up to, which the
\* record has already adopted.
ItemsAreSane(os, its, bro) ==
    /\ \A i, j \in its : i.order = j.order /\ i.upTo = j.upTo => i = j
    /\ \A i \in its : /\ i.order \in DOMAIN bro
                      /\ i.order \in DOMAIN os => i.upTo <= os[i.order].filled
    /\ \A o \in OrderIds : IsFiniteSet(ItemsOf(its, o, ItemStates))

\* Of every order: what is filled is booked, queued, refused or still late.
Balanced(os, bk, its, late) ==
    \A o \in DOMAIN os :
        os[o].filled = bk[o] + DeltaOf(its, o, {"OPEN", "REJECTED"}) + late[o]

\* Of every order: what is booked, queued or late was filled at the broker.
Covered(bk, its, late, bro) ==
    \A o \in OrderIds : bk[o] + DeltaOf(its, o, {"OPEN"}) + late[o] <= FilledIn(bro, o)

Book(os, bk, its, late, bro) ==
    /\ BookType(os, bk, its) /\ Agrees(os, bro) /\ ItemsAreSane(os, its, bro)
    /\ Balanced(os, bk, its, late) /\ Covered(bk, its, late, bro)

\* What a book says of one order.
LEMMA BookNumbers ==
    ASSUME NEW os, NEW bk, NEW its, NEW late \in [OrderIds -> Nat], NEW bro,
           BrokerOK(bro), Book(os, bk, its, late, bro), NEW o \in OrderIds
    PROVE  /\ bk[o] \in Nat /\ late[o] \in Nat /\ FilledIn(bro, o) \in Nat
           /\ \A states : DeltaOf(its, o, states) \in Nat
           /\ bk[o] + DeltaOf(its, o, {"OPEN"}) + late[o] <= FilledIn(bro, o)
           /\ o \notin DOMAIN bro =>
                 bk[o] = 0 /\ late[o] = 0 /\ (\A states : ItemsOf(its, o, states) = {})
           /\ o \in DOMAIN os => /\ os[o] \in OrderRecords
                                 /\ os[o].filled \in Nat /\ os[o].approved \in Nat
<1>1. bk[o] \in Nat /\ late[o] \in Nat /\ its \in SUBSET Items
  BY DEF Book, BookType
<1>2. FilledIn(bro, o) \in Nat
  BY DEF FilledIn, BrokerOK
<1>3. \A states : DeltaOf(its, o, states) \in Nat
  <2>1. IsFiniteSet(ItemsOf(its, o, ItemStates))
    BY DEF Book, ItemsAreSane
  <2> QED BY <1>1, <2>1, DeltaIsNat
<1>4. bk[o] + DeltaOf(its, o, {"OPEN"}) + late[o] <= FilledIn(bro, o)
  BY DEF Book, Covered
<1>5. ASSUME o \notin DOMAIN bro
      PROVE  bk[o] = 0 /\ late[o] = 0 /\ (\A states : ItemsOf(its, o, states) = {})
  <2>1. FilledIn(bro, o) = 0 /\ DeltaOf(its, o, {"OPEN"}) \in Nat
    BY <1>3, <1>5 DEF FilledIn
  <2>2. bk[o] = 0 /\ late[o] = 0
    BY <1>1, <1>4, <2>1
  <2>3. \A states : ItemsOf(its, o, states) = {}
    BY <1>5 DEF ItemsOf, Book, ItemsAreSane
  <2> QED BY <2>2, <2>3
<1>6. ASSUME o \in DOMAIN os
      PROVE  os[o] \in OrderRecords /\ os[o].filled \in Nat /\ os[o].approved \in Nat
  BY <1>6 DEF Book, BookType, OrderRecords, Shares
<1> QED BY <1>1, <1>2, <1>3, <1>4, <1>5, <1>6

LEMMA NothingBeforeTheBroker ==
    ASSUME NEW os, NEW bk, NEW its, NEW late \in [OrderIds -> Nat], NEW bro,
           BrokerOK(bro), Book(os, bk, its, late, bro), NEW o \in OrderIds \ DOMAIN bro
    PROVE  bk[o] = 0 /\ late[o] = 0
  BY BookNumbers

LEMMA NoItemsNoDelta ==
    ASSUME NEW its, NEW o, NEW states, ItemsOf(its, o, states) = {}
    PROVE  DeltaOf(its, o, states) = 0
  BY SumOfNone DEF DeltaOf

LEMMA EmptyBook ==
    ASSUME NEW bro, BrokerOK(bro)
    PROVE  Book(NoOrders, NothingYet, {}, NothingYet, bro)
<1>1. DOMAIN NoOrders = {}
  BY DEF NoOrders
<1>2. \A o, states : ItemsOf({}, o, states) = {} /\ DeltaOf({}, o, states) = 0
  BY NoItemsNoDelta DEF ItemsOf
<1>3. NothingYet \in [OrderIds -> Nat] /\ \A o \in OrderIds : NothingYet[o] = 0
  BY DEF NothingYet
<1>4. \A o \in OrderIds : FilledIn(bro, o) \in Nat
  BY DEF FilledIn, BrokerOK
<1>5. BookType(NoOrders, NothingYet, {})
  BY <1>1, <1>3 DEF BookType, NoOrders
<1>6. Agrees(NoOrders, bro) /\ Balanced(NoOrders, NothingYet, {}, NothingYet)
  BY <1>1 DEF Agrees, Balanced
<1>7. ItemsAreSane(NoOrders, {}, bro)
  BY <1>2, FS_EmptySet DEF ItemsAreSane
<1>8. Covered(NothingYet, {}, NothingYet, bro)
  BY <1>2, <1>3, <1>4 DEF Covered
<1> QED BY <1>5, <1>6, <1>7, <1>8 DEF Book

\* The broker's orders only fill: a book stays one.
BrokerMoves(bro, now) ==
    /\ DOMAIN bro \subseteq DOMAIN now
    /\ \A o \in DOMAIN bro : now[o].qty = bro[o].qty /\ bro[o].filled <= now[o].filled

LEMMA BookSurvivesTheBroker ==
    ASSUME NEW os, NEW bk, NEW its, NEW late \in [OrderIds -> Nat], NEW bro, NEW now,
           Book(os, bk, its, late, bro), BrokerOK(bro), BrokerOK(now), BrokerMoves(bro, now),
           \A o \in DOMAIN now \ DOMAIN bro : o \notin DOMAIN os
    PROVE  Book(os, bk, its, late, now)
<1>1. \A o \in OrderIds : FilledIn(bro, o) <= FilledIn(now, o) /\ FilledIn(now, o) \in Nat
  BY DEF FilledIn, BrokerMoves, BrokerOK
<1>2. Agrees(os, now)
  <2> SUFFICES ASSUME NEW o \in DOMAIN os
               PROVE  /\ o \in DOMAIN now =>
                           os[o].approved = now[o].qty /\ os[o].filled <= now[o].filled
                      /\ o \notin DOMAIN now => os[o].filled = 0
    BY DEF Agrees
  <2>1. o \in OrderIds
    BY DEF Book, BookType
  <2>2. os[o].filled \in Nat
    BY <2>1, BookNumbers
  <2> QED BY <2>2 DEF Book, Agrees, BrokerMoves, BrokerOK
<1>3. ItemsAreSane(os, its, now)
  BY DEF Book, ItemsAreSane, BrokerMoves
<1>4. Covered(bk, its, late, now)
  <2> SUFFICES ASSUME NEW o \in OrderIds
               PROVE  bk[o] + DeltaOf(its, o, {"OPEN"}) + late[o] <= FilledIn(now, o)
    BY DEF Covered
  <2>1. /\ bk[o] \in Nat /\ late[o] \in Nat /\ DeltaOf(its, o, {"OPEN"}) \in Nat
        /\ FilledIn(bro, o) \in Nat
        /\ bk[o] + DeltaOf(its, o, {"OPEN"}) + late[o] <= FilledIn(bro, o)
    BY BookNumbers
  <2> QED BY <1>1, <2>1
<1> QED BY <1>2, <1>3, <1>4 DEF Book

\* Orders may leave, and change in any field but the approved and filled ones.
SameFills(os, kept) ==
    /\ DOMAIN kept \subseteq DOMAIN os /\ kept \in [DOMAIN kept -> OrderRecords]
    /\ \A o \in DOMAIN kept : kept[o].filled = os[o].filled /\ kept[o].approved = os[o].approved

LEMMA BookOfFewer ==
    ASSUME NEW os, NEW kept, NEW bk, NEW its, NEW late, NEW bro,
           Book(os, bk, its, late, bro), SameFills(os, kept)
    PROVE  Book(kept, bk, its, late, bro)
<1>1. BookType(kept, bk, its) /\ Agrees(kept, bro)
  BY DEF Book, BookType, Agrees, SameFills
<1>2. ItemsAreSane(kept, its, bro)
  BY DEF Book, ItemsAreSane, SameFills
<1>3. Balanced(kept, bk, its, late)
  BY DEF Book, Balanced, SameFills
<1> QED BY <1>1, <1>2, <1>3 DEF Book
\* A new order, of which the broker filled k when it took it.
LEMMA BookOfNewOrder ==
    ASSUME NEW os, NEW more, NEW bk, NEW its, NEW late \in [OrderIds -> Nat],
           NEW later \in [OrderIds -> Nat], NEW bro, NEW now,
           Book(os, bk, its, late, bro), BrokerOK(bro), BrokerOK(now), BrokerMoves(bro, now),
           NEW o \in OrderIds, o \notin DOMAIN bro, DOMAIN now \subseteq DOMAIN bro \cup {o},
           DOMAIN more = DOMAIN os \cup {o}, \A x \in DOMAIN os : x # o => more[x] = os[x],
           \A x \in OrderIds : x # o => later[x] = late[x],
           more[o] \in OrderRecords, later[o] = more[o].filled,
           o \in DOMAIN now => more[o].approved = now[o].qty /\ more[o].filled = now[o].filled,
           o \notin DOMAIN now => more[o].filled = 0,
           o \notin DOMAIN os, more = [x \in DOMAIN more |-> more[x]]
    PROVE  Book(more, bk, its, later, now)
<1>1. Book(os, bk, its, late, now)
  BY BookSurvivesTheBroker
<1>2. \A x \in DOMAIN os : x \in OrderIds /\ more[x] = os[x]
  BY DEF Book, BookType
<1>3. /\ bk[o] = 0 /\ late[o] = 0 /\ \A states : ItemsOf(its, o, states) = {}
  BY BookNumbers
<1>4. \A states : DeltaOf(its, o, states) = 0
  BY <1>3, NoItemsNoDelta
<1>5. BookType(more, bk, its)
  <2>1. \A x \in DOMAIN more : more[x] \in OrderRecords
    BY <1>2 DEF Book, BookType
  <2> QED BY <2>1 DEF Book, BookType
<1>6. more[o].filled \in Nat
  BY DEF OrderRecords
<1>7. Agrees(more, now)
  <2> SUFFICES ASSUME NEW x \in DOMAIN more
               PROVE  /\ x \in DOMAIN now =>
                           more[x].approved = now[x].qty /\ more[x].filled <= now[x].filled
                      /\ x \notin DOMAIN now => more[x].filled = 0
    BY DEF Agrees
  <2>1. CASE x = o
    BY <1>6, <2>1
  <2>2. CASE x # o
    BY <1>1, <1>2, <2>2 DEF Book, Agrees
  <2> QED BY <2>1, <2>2
<1>8. ItemsAreSane(more, its, now)
  <2>1. \A i \in its : i.order # o
    BY DEF Book, ItemsAreSane
  <2> QED BY <1>1, <1>2, <2>1 DEF Book, ItemsAreSane
<1>9. Balanced(more, bk, its, later)
  <2> SUFFICES ASSUME NEW x \in DOMAIN more
               PROVE  more[x].filled = bk[x] + DeltaOf(its, x, {"OPEN", "REJECTED"}) + later[x]
    BY DEF Balanced
  <2>1. CASE x = o
    BY <1>3, <1>4, <1>6, <2>1
  <2>2. CASE x # o
    <3>1. x \in DOMAIN os /\ x \in OrderIds
      BY <1>2, <2>2
    <3> QED BY <1>2, <2>2, <3>1 DEF Book, Balanced
  <2> QED BY <2>1, <2>2
<1>10. Covered(bk, its, later, now)
  <2> SUFFICES ASSUME NEW x \in OrderIds
               PROVE  bk[x] + DeltaOf(its, x, {"OPEN"}) + later[x] <= FilledIn(now, x)
    BY DEF Covered
  <2>1. CASE x = o
    BY <1>3, <1>4, <1>6, <2>1 DEF FilledIn
  <2>2. CASE x # o
    BY <1>1, <2>2 DEF Book, Covered
  <2> QED BY <2>1, <2>2
<1> QED BY <1>5, <1>7, <1>8, <1>9, <1>10 DEF Book

\* Orders whose truth is adopted, each with an item for what it adds.
Discovery(os, bro, o) ==
    [order |-> o, upTo |-> bro[o].filled, delta |-> bro[o].filled - os[o].filled,
     state |-> "OPEN"]

LEMMA BookOfDiscoveries ==
    ASSUME NEW os, NEW adopted, NEW bk, NEW its, NEW late \in [OrderIds -> Nat], NEW bro,
           Book(os, bk, its, late, bro), BrokerOK(bro),
           NEW found \in SUBSET (DOMAIN os \cap DOMAIN bro),
           \A o \in found : bro[o].filled > os[o].filled,
           DOMAIN adopted = DOMAIN os, adopted \in [DOMAIN adopted -> OrderRecords],
           \A o \in DOMAIN os :
               /\ adopted[o].approved = os[o].approved
               /\ adopted[o].filled = IF o \in found THEN bro[o].filled ELSE os[o].filled,
           NEW more, more = its \cup {Discovery(os, bro, o) : o \in found}
    PROVE  Book(adopted, bk, more, late, bro)
<1>1. \A o \in DOMAIN os : o \in OrderIds
  BY DEF Book, BookType
<1>2. \A o \in found : /\ bro[o].filled \in Shares /\ os[o].filled \in Nat
                       /\ bro[o].filled - os[o].filled \in Shares
  <2> SUFFICES ASSUME NEW o \in found
               PROVE  /\ bro[o].filled \in Shares /\ os[o].filled \in Nat
                      /\ bro[o].filled - os[o].filled \in Shares
    OBVIOUS
  <2>1. os[o].filled \in Nat /\ bro[o].filled \in Nat
    BY <1>1, BookNumbers DEF BrokerOK
  <2> QED BY <2>1 DEF Shares
<1>3. BookType(adopted, bk, more)
  <2>1. \A o \in found : Discovery(os, bro, o) \in Items
    BY <1>1, <1>2 DEF Discovery, Items
  <2> QED BY <2>1 DEF Book, BookType
<1>4. \A i \in its, o \in found : i.order = o => i.upTo < bro[o].filled
  <2> SUFFICES ASSUME NEW i \in its, i.order \in found
               PROVE  i.upTo < bro[i.order].filled
    OBVIOUS
  <2>1. i.upTo <= os[i.order].filled
    BY DEF Book, ItemsAreSane
  <2>2. i.upTo \in Nat
    BY DEF Book, BookType, Items, Shares
  <2> QED BY <1>2, <2>1, <2>2 DEF Shares
<1>5. Agrees(adopted, bro)
  <2> SUFFICES ASSUME NEW o \in DOMAIN os
               PROVE  /\ o \in DOMAIN bro =>
                         adopted[o].approved = bro[o].qty /\ adopted[o].filled <= bro[o].filled
                      /\ o \notin DOMAIN bro => adopted[o].filled = 0
    BY DEF Agrees
  <2>1. o \in found => bro[o].filled \in Nat
    BY <1>2 DEF Shares
  <2> QED BY <2>1 DEF Book, Agrees
<1>6. ASSUME NEW o \in OrderIds, NEW states
      PROVE  ItemsOf(more, o, states) =
               ItemsOf(its, o, states) \cup
                 IF o \in found /\ "OPEN" \in states THEN {Discovery(os, bro, o)} ELSE {}
  BY DEF ItemsOf, Discovery
<1>7. ASSUME NEW o \in found, NEW states
      PROVE  Discovery(os, bro, o) \notin ItemsOf(its, o, states)
  <2>1. /\ Discovery(os, bro, o).order = o /\ Discovery(os, bro, o).upTo = bro[o].filled
        /\ bro[o].filled \in Nat
    BY <1>2 DEF Discovery, Shares
  <2> QED BY <1>4, <2>1 DEF ItemsOf
<1>8. ASSUME NEW o \in OrderIds, NEW states, "OPEN" \in states
      PROVE  DeltaOf(more, o, states) =
               DeltaOf(its, o, states)
                 + IF o \in found THEN bro[o].filled - os[o].filled ELSE 0
  <2>1. CASE o \in found
    <3> DEFINE i == Discovery(os, bro, o)
    <3>1. /\ ItemsOf(more, o, states) = ItemsOf(its, o, states) \cup {i}
          /\ i \notin ItemsOf(its, o, states)
      BY <1>6, <1>7, <1>8, <2>1
    <3>2. i.delta = bro[o].filled - os[o].filled
      BY DEF Discovery
    <3>3. /\ its \in SUBSET Items /\ more \in SUBSET Items
          /\ IsFiniteSet(ItemsOf(its, o, ItemStates))
      BY <1>3 DEF Book, BookType, ItemsAreSane
    <3> HIDE DEF i
    <3> QED BY <2>1, <3>1, <3>2, <3>3, DeltaOfAdded
  <2>2. CASE o \notin found
    <3>1. ItemsOf(more, o, states) = ItemsOf(its, o, states)
      <4>1. ItemsOf(more, o, states) = ItemsOf(its, o, states) \cup {}
        BY <1>6, <2>2
      <4> QED BY <4>1
    <3>2. DeltaOf(its, o, states) \in Nat
      BY BookNumbers
    <3> QED BY <2>2, <3>1, <3>2 DEF DeltaOf
  <2> QED BY <2>1, <2>2
<1>9. ItemsAreSane(adopted, more, bro)
  <2>1. ASSUME NEW i \in more, NEW j \in more, i.order = j.order, i.upTo = j.upTo
        PROVE  i = j
    <3>1. \A o \in found : /\ Discovery(os, bro, o).order = o
                           /\ Discovery(os, bro, o).upTo = bro[o].filled
                           /\ bro[o].filled \in Nat
      BY <1>2 DEF Discovery, Shares
    <3>2. CASE i \in its /\ j \in its
      BY <2>1, <3>2 DEF Book, ItemsAreSane
    <3>3. CASE i \in its /\ j \notin its
      BY <1>4, <2>1, <3>1, <3>3
    <3>4. CASE i \notin its /\ j \in its
      BY <1>4, <2>1, <3>1, <3>4
    <3>5. CASE i \notin its /\ j \notin its
      BY <2>1, <3>1, <3>5
    <3> QED BY <3>2, <3>3, <3>4, <3>5
  <2>2. ASSUME NEW i \in more
        PROVE  /\ i.order \in DOMAIN bro
               /\ i.order \in DOMAIN adopted => i.upTo <= adopted[i.order].filled
    <3>1. CASE i \in its
      <4>1. /\ i.order \in DOMAIN bro
            /\ i.order \in DOMAIN os => i.upTo <= os[i.order].filled
        BY <3>1 DEF Book, ItemsAreSane
      <4>2. i.order \in found => i.upTo <= bro[i.order].filled
        <5>1. i.upTo \in Nat
          BY <3>1 DEF Book, BookType, Items, Shares
        <5> QED BY <1>2, <1>4, <3>1, <5>1 DEF Shares
      <4> QED BY <4>1, <4>2
    <3>2. CASE i \notin its
      BY <1>2, <3>2 DEF Discovery, Shares
    <3> QED BY <3>1, <3>2
  <2>3. ASSUME NEW o \in OrderIds
        PROVE  IsFiniteSet(ItemsOf(more, o, ItemStates))
    <3>1. IsFiniteSet(ItemsOf(its, o, ItemStates))
      BY DEF Book, ItemsAreSane
    <3>2. IsFiniteSet(ItemsOf(its, o, ItemStates) \cup {Discovery(os, bro, o)})
      BY <3>1, FS_AddElement
    <3>3. ItemsOf(more, o, ItemStates) \subseteq
            ItemsOf(its, o, ItemStates) \cup {Discovery(os, bro, o)}
      BY <1>6
    <3> QED BY <3>2, <3>3, FS_Subset
  <2> QED BY <2>1, <2>2, <2>3 DEF ItemsAreSane
<1>10. Balanced(adopted, bk, more, late)
  <2> SUFFICES ASSUME NEW o \in DOMAIN os
               PROVE  adopted[o].filled =
                        bk[o] + DeltaOf(more, o, {"OPEN", "REJECTED"}) + late[o]
    BY DEF Balanced
  <2>1. o \in OrderIds
    BY <1>1
  <2>2. /\ bk[o] \in Nat /\ late[o] \in Nat /\ DeltaOf(its, o, {"OPEN", "REJECTED"}) \in Nat
        /\ os[o].filled \in Nat
    BY <2>1, BookNumbers
  <2>3. os[o].filled = bk[o] + DeltaOf(its, o, {"OPEN", "REJECTED"}) + late[o]
    BY DEF Book, Balanced
  <2>4. o \in found => bro[o].filled \in Nat
    BY <1>2 DEF Shares
  <2> QED BY <1>8, <2>1, <2>2, <2>3, <2>4
<1>11. Covered(bk, more, late, bro)
  <2> SUFFICES ASSUME NEW o \in OrderIds
               PROVE  bk[o] + DeltaOf(more, o, {"OPEN"}) + late[o] <= FilledIn(bro, o)
    BY DEF Covered
  <2>1. /\ bk[o] \in Nat /\ late[o] \in Nat /\ FilledIn(bro, o) \in Nat
        /\ DeltaOf(its, o, {"OPEN"}) \in Nat /\ DeltaOf(its, o, {"OPEN", "REJECTED"}) \in Nat
        /\ bk[o] + DeltaOf(its, o, {"OPEN"}) + late[o] <= FilledIn(bro, o)
    BY BookNumbers
  <2>2. CASE o \in found
    <3>1. os[o].filled = bk[o] + DeltaOf(its, o, {"OPEN", "REJECTED"}) + late[o]
      BY <2>2 DEF Book, Balanced
    <3>2. DeltaOf(its, o, {"OPEN"}) <= DeltaOf(its, o, {"OPEN", "REJECTED"})
      BY OpenIsPart DEF Book, BookType, ItemsAreSane
    <3>3. FilledIn(bro, o) = bro[o].filled /\ bro[o].filled \in Nat /\ os[o].filled \in Nat
      BY <1>2, <2>2 DEF FilledIn, Shares
    <3>4. DeltaOf(more, o, {"OPEN"}) = DeltaOf(its, o, {"OPEN"}) + (bro[o].filled - os[o].filled)
      BY <1>8, <2>2
    <3> QED BY <2>1, <3>1, <3>2, <3>3, <3>4
  <2>3. CASE o \notin found
    BY <1>8, <2>1, <2>3
  <2> QED BY <2>2, <2>3
<1> QED BY <1>3, <1>5, <1>9, <1>10, <1>11 DEF Book
\* resolve_reconciliation: an open item changes state.
Closed(i, state) == [i EXCEPT !.state = state]
Closing(its, i, state) == (its \ {i}) \cup {Closed(i, state)}

LEMMA ClosedFields ==
    ASSUME NEW i \in Items, NEW state \in ItemStates
    PROVE  /\ Closed(i, state) \in Items /\ Closed(i, state).state = state
           /\ Closed(i, state).order = i.order /\ Closed(i, state).upTo = i.upTo
           /\ Closed(i, state).delta = i.delta
  BY DEF Closed, Items, ItemStates

\* What that does to the sums: the item leaves those that count open items, and
\* comes back in those that count the state it goes to.
LEMMA DeltaOfClosed ==
    ASSUME NEW its \in SUBSET Items, NEW o, NEW states, NEW i \in its, i.state = "OPEN",
           NEW state \in {"ACCEPTED", "REJECTED"}, "OPEN" \in states,
           IsFiniteSet(ItemsOf(its, o, ItemStates)),
           \A j \in its : j.order = i.order /\ j.upTo = i.upTo => j = i
    PROVE  DeltaOf(Closing(its, i, state), o, states) =
             DeltaOf(its, o, states) - IF i.order = o /\ state \notin states THEN i.delta ELSE 0
<1> DEFINE done == Closed(i, state)
           rest == its \ {i}
           now  == Closing(its, i, state)
<1>1. /\ done \in Items /\ done.order = i.order /\ done.delta = i.delta /\ done.state = state
      /\ done \notin its
  <2>1. i \in Items /\ state \in ItemStates
    BY DEF ItemStates
  <2>2. /\ done \in Items /\ done.order = i.order /\ done.delta = i.delta
        /\ done.state = state /\ done.upTo = i.upTo
    BY <2>1, ClosedFields
  <2> HIDE DEF done
  <2>3. done \notin its
    BY <2>2
  <2> QED BY <2>2, <2>3
<1>2. rest \in SUBSET Items /\ now \in SUBSET Items
  BY <1>1 DEF Closing
<1>3. IsFiniteSet(ItemsOf(rest, o, ItemStates))
  <2>1. ItemsOf(rest, o, ItemStates) \subseteq ItemsOf(its, o, ItemStates)
    BY DEF ItemsOf
  <2> QED BY <2>1, FS_Subset
<1>4. DeltaOf(its, o, states) \in Nat /\ DeltaOf(rest, o, states) \in Nat /\ i.delta \in Nat
  BY <1>2, <1>3, DeltaIsNat DEF Items, Shares
<1>5. now = rest \cup {done}
  BY DEF Closing
<1> HIDE DEF done, now
<1>6. CASE i.order # o
  <2>1. ItemsOf(now, o, states) = ItemsOf(its, o, states)
    BY <1>1, <1>5, <1>6 DEF ItemsOf
  <2>2. DeltaOf(now, o, states) = DeltaOf(its, o, states)
    BY <2>1 DEF DeltaOf
  <2> QED BY <1>4, <1>6, <2>2 DEF now
<1>7. CASE i.order = o
  <2>1. DeltaOf(its, o, states) = DeltaOf(rest, o, states) + i.delta
    <3>1. ItemsOf(its, o, states) = ItemsOf(rest, o, states) \cup {i}
      BY <1>7 DEF ItemsOf
    <3>2. i \notin ItemsOf(rest, o, states)
      BY DEF ItemsOf
    <3> HIDE DEF rest
    <3> QED BY <1>2, <1>3, <3>1, <3>2, DeltaOfAdded
  <2>2. CASE state \in states
    <3>1. ItemsOf(now, o, states) = ItemsOf(rest, o, states) \cup {done}
      BY <1>1, <1>5, <1>7, <2>2 DEF ItemsOf
    <3>2. done \notin ItemsOf(rest, o, states)
      BY <1>1 DEF ItemsOf
    <3> HIDE DEF rest
    <3>3. DeltaOf(now, o, states) = DeltaOf(rest, o, states) + done.delta
      BY <1>2, <1>3, <3>1, <3>2, DeltaOfAdded
    <3> QED BY <1>1, <1>4, <2>1, <2>2, <3>3 DEF now
  <2>3. CASE state \notin states
    <3>1. ItemsOf(now, o, states) = ItemsOf(rest, o, states)
      BY <1>1, <1>5, <2>3 DEF ItemsOf
    <3>2. DeltaOf(now, o, states) = DeltaOf(rest, o, states)
      BY <3>1 DEF DeltaOf
    <3> QED BY <1>4, <1>7, <2>1, <2>3, <3>2 DEF now
  <2> QED BY <2>2, <2>3
<1> QED BY <1>6, <1>7

\* Accepting books the item's quantity, rejecting does not; both keep the book.
LEMMA BookOfClosed ==
    ASSUME NEW os, NEW settled, NEW bk, NEW now, NEW its, NEW bro,
           NEW late \in [OrderIds -> Nat],
           Book(os, bk, its, late, bro), BrokerOK(bro), SameFills(os, settled),
           NEW i \in its, i.state = "OPEN", NEW state \in {"ACCEPTED", "REJECTED"},
           state = "ACCEPTED" => now = [bk EXCEPT ![i.order] = @ + i.delta],
           state = "REJECTED" => now = bk
    PROVE  Book(settled, now, Closing(its, i, state), late, bro)
<1> DEFINE after == Closing(its, i, state)
<1>1. Book(settled, bk, its, late, bro)
  BY BookOfFewer
<1>2. /\ its \in SUBSET Items /\ i \in Items /\ i.order \in OrderIds /\ i.delta \in Nat
      /\ bk \in [OrderIds -> Nat]
  BY DEF Book, BookType, Items, Shares
<1>3. \A o \in OrderIds :
          /\ now[o] = bk[o] + IF i.order = o /\ state = "ACCEPTED" THEN i.delta ELSE 0
          /\ now[o] \in Nat /\ now \in [OrderIds -> Nat]
  BY <1>2
<1>4. \A j \in its : j.order = i.order /\ j.upTo = i.upTo => j = i
  BY DEF Book, ItemsAreSane
<1>5. /\ Closed(i, state) \in Items /\ Closed(i, state).state = state
      /\ Closed(i, state).order = i.order /\ Closed(i, state).upTo = i.upTo
  BY <1>2, ClosedFields DEF ItemStates
<1>6. after = (its \ {i}) \cup {Closed(i, state)}
  BY DEF Closing
<1>7. ASSUME NEW o \in OrderIds, NEW states, "OPEN" \in states
      PROVE  DeltaOf(after, o, states) =
               DeltaOf(its, o, states) - IF i.order = o /\ state \notin states THEN i.delta ELSE 0
  <2>1. IsFiniteSet(ItemsOf(its, o, ItemStates))
    BY DEF Book, ItemsAreSane
  <2> QED BY <1>2, <1>4, <1>7, <2>1, DeltaOfClosed
<1> HIDE DEF after
<1>8. BookType(settled, now, after)
  BY <1>1, <1>2, <1>3, <1>5, <1>6 DEF Book, BookType
<1>9. ItemsAreSane(settled, after, bro)
  <2>1. ASSUME NEW j \in after, NEW k \in after, j.order = k.order, j.upTo = k.upTo
        PROVE  j = k
    <3>1. j \in its \ {i} \/ j = Closed(i, state)
      BY <1>6
    <3>2. k \in its \ {i} \/ k = Closed(i, state)
      BY <1>6
    <3> QED BY <1>4, <1>5, <2>1, <3>1, <3>2 DEF Book, ItemsAreSane
  <2>2. ASSUME NEW j \in after
        PROVE  /\ j.order \in DOMAIN bro
               /\ j.order \in DOMAIN settled => j.upTo <= settled[j.order].filled
    <3>1. CASE j \in its
      BY <1>1, <3>1 DEF Book, ItemsAreSane
    <3>2. CASE j = Closed(i, state)
      BY <1>1, <1>5, <3>2 DEF Book, ItemsAreSane
    <3> QED BY <1>6, <3>1, <3>2
  <2>3. ASSUME NEW o \in OrderIds
        PROVE  IsFiniteSet(ItemsOf(after, o, ItemStates))
    <3>1. IsFiniteSet(ItemsOf(its, o, ItemStates) \cup {Closed(i, state)})
      BY FS_AddElement DEF Book, ItemsAreSane
    <3>2. ItemsOf(after, o, ItemStates) \subseteq
            ItemsOf(its, o, ItemStates) \cup {Closed(i, state)}
      BY <1>6 DEF ItemsOf
    <3> QED BY <3>1, <3>2, FS_Subset
  <2> QED BY <2>1, <2>2, <2>3 DEF ItemsAreSane
<1>10. Balanced(settled, now, after, late)
  <2> SUFFICES ASSUME NEW o \in DOMAIN settled
               PROVE  settled[o].filled =
                        now[o] + DeltaOf(after, o, {"OPEN", "REJECTED"}) + late[o]
    BY DEF Balanced
  <2>1. o \in OrderIds
    BY <1>1 DEF Book, BookType
  <2>2. /\ bk[o] \in Nat /\ late[o] \in Nat /\ DeltaOf(its, o, {"OPEN", "REJECTED"}) \in Nat
    BY <1>1, <2>1, BookNumbers
  <2>3. settled[o].filled = bk[o] + DeltaOf(its, o, {"OPEN", "REJECTED"}) + late[o]
    BY <1>1 DEF Book, Balanced
  <2>4. DeltaOf(after, o, {"OPEN", "REJECTED"}) =
          DeltaOf(its, o, {"OPEN", "REJECTED"})
            - IF i.order = o /\ state = "ACCEPTED" THEN i.delta ELSE 0
    BY <1>7, <2>1
  <2> QED BY <1>2, <1>3, <2>1, <2>2, <2>3, <2>4
<1>11. Covered(now, after, late, bro)
  <2> SUFFICES ASSUME NEW o \in OrderIds
               PROVE  now[o] + DeltaOf(after, o, {"OPEN"}) + late[o] <= FilledIn(bro, o)
    BY DEF Covered
  <2>1. /\ bk[o] \in Nat /\ late[o] \in Nat /\ FilledIn(bro, o) \in Nat
        /\ DeltaOf(its, o, {"OPEN"}) \in Nat
        /\ bk[o] + DeltaOf(its, o, {"OPEN"}) + late[o] <= FilledIn(bro, o)
    BY BookNumbers
  <2>2. DeltaOf(after, o, {"OPEN"}) =
          DeltaOf(its, o, {"OPEN"}) - IF i.order = o THEN i.delta ELSE 0
    BY <1>7
  <2> QED BY <1>2, <1>3, <2>1, <2>2
<1> QED BY <1>1, <1>8, <1>9, <1>10, <1>11 DEF Book, after
-----------------------------------------------------------------------------
(* The invariant                                                           *)

\* The fills of this cycle that are not in the held book yet.
Late == [o \in OrderIds |-> IF o \in DOMAIN fills /\ pc = "submitting" THEN fills[o] ELSE 0]

LoopTypeOK ==
    /\ pc \in Points /\ asof \in 0 .. MaxAsof
    /\ resolving \subseteq items
    /\ needsResync \in BOOLEAN /\ wasConnected \in BOOLEAN /\ verified \in BOOLEAN
    /\ connected \in BOOLEAN
    /\ todo \subseteq [id : OrderIds, qty : Shares]
    /\ DOMAIN fills \subseteq OrderIds /\ fills \in [DOMAIN fills -> Shares]
    /\ ledger \in [qty : [OrderIds -> Nat], ids : SUBSET (OrderIds \X Shares), broken : BOOLEAN]
    /\ journal \in [ids : SUBSET (OrderIds \X Shares), unsaved : BOOLEAN]

\* What each part of the loop finds empty.
PcInv ==
    /\ todo # {} => pc = "submitting"
    /\ pc \notin {"submitting", "ran"} => DOMAIN fills = {}
    /\ pc = "resolving" => \E i \in items : resolving = {i} /\ i.state = "OPEN"
    /\ pc # "resolving" => resolving = {}

\* A slice still to be placed has an id nobody has seen, and one quantity.
Known == DOMAIN broker \cup DOMAIN orders \cup DOMAIN disk.orders
FreshInv ==
    /\ \A o \in Known : AsofOf(o) <= asof
    /\ \A p \in todo : AsofOf(p.id) = asof /\ p.id \notin Known
    /\ \A p, q \in todo : p.id = q.id => p = q

Books ==
    /\ BrokerOK(broker)
    /\ Book(orders, booked, items, Late, broker)
    /\ Book(disk.orders, disk.booked, disk.items, NothingYet, broker)

AccountInv == LoopTypeOK /\ PcInv /\ FreshInv /\ Books

LEMMA AccountInvTypes == AccountInv => TypeOK
  BY DEF AccountInv, LoopTypeOK, Books, Book, BookType, BrokerOK, TypeOK

LEMMA OrderIdsHaveAsof == \A o \in OrderIds : AsofOf(o) \in Nat
  BY BoundsAssumption DEF OrderIds, AsofOf

LEMMA LateIsTyped ==
    ASSUME LoopTypeOK
    PROVE  /\ Late \in [OrderIds -> Nat]
           /\ pc # "submitting" => Late = NothingYet
           /\ DOMAIN fills = {} => Late = NothingYet
  BY DEF LoopTypeOK, Late, NothingYet, Shares

LEMMA NothingIsTyped == NothingYet \in [OrderIds -> Nat]
  BY DEF NothingYet

\* A step that hands nobody a new id keeps the others fresh.
LEMMA FreshStays ==
    ASSUME FreshInv, Known' \subseteq Known, asof' = asof, todo' \subseteq todo
    PROVE  FreshInv'
  BY DEF FreshInv

\* A step that touches neither a book nor the broker.
LEMMA BooksStay ==
    ASSUME Books, UNCHANGED <<orders, booked, items, disk, broker>>, Late' = Late
    PROVE  Books' /\ Known' = Known
  BY DEF Books, Known

\* An append to the ledger, whether or not it raises.
LEMMA AppendIsTyped ==
    ASSUME LoopTypeOK, NEW qty \in [OrderIds -> Nat], NEW ids \in SUBSET (OrderIds \X Shares),
           Appended(qty, ids) \/ AppendRaises(ids)
    PROVE  /\ ledger' \in [qty : [OrderIds -> Nat], ids : SUBSET (OrderIds \X Shares),
                           broken : BOOLEAN]
           /\ journal' \in [ids : SUBSET (OrderIds \X Shares), unsaved : BOOLEAN]
<1>1. CASE Appended(qty, ids)
  <2>1. [o \in OrderIds |-> ledger.qty[o] + qty[o]] \in [OrderIds -> Nat]
    BY DEF LoopTypeOK
  <2>2. /\ ledger.ids \cup ids \in SUBSET (OrderIds \X Shares)
        /\ (ledger.broken \/ journal.unsaved) \in BOOLEAN
    BY DEF LoopTypeOK
  <2>3. ledger' \in [qty : [OrderIds -> Nat], ids : SUBSET (OrderIds \X Shares),
                     broken : BOOLEAN]
    BY <1>1, <2>1, <2>2 DEF Appended
  <2>4. journal' \in [ids : SUBSET (OrderIds \X Shares), unsaved : BOOLEAN]
    BY <1>1 DEF Appended, LoopTypeOK
  <2> QED BY <2>3, <2>4
<1>2. CASE AppendRaises(ids)
  BY <1>2 DEF AppendRaises, LoopTypeOK
<1> QED BY <1>1, <1>2

LEMMA NoteIsTyped ==
    ASSUME LoopTypeOK, Noted \/ UNCHANGED audit
    PROVE  /\ ledger' \in [qty : [OrderIds -> Nat], ids : SUBSET (OrderIds \X Shares),
                           broken : BOOLEAN]
           /\ journal' \in [ids : SUBSET (OrderIds \X Shares), unsaved : BOOLEAN]
<1>1. CASE Noted
  BY <1>1, AppendIsTyped, NothingIsTyped DEF Noted
<1>2. CASE UNCHANGED audit
  BY <1>2 DEF audit, LoopTypeOK
<1> QED BY <1>1, <1>2

\* _persist: the snapshot of a book is a book.
LEMMA SnapshotIsABook ==
    ASSUME NEW bro, Book(orders', booked', items', NothingYet, bro),
           Book(disk.orders, disk.booked, disk.items, NothingYet, bro),
           disk' = Snapshot' \/ disk' = disk
    PROVE  /\ Book(disk'.orders, disk'.booked, disk'.items, NothingYet, bro)
           /\ DOMAIN disk'.orders \subseteq DOMAIN orders' \cup DOMAIN disk.orders
<1>1. CASE disk' = disk
  BY <1>1
<1>2. CASE disk' = Snapshot'
  <2>1. /\ disk'.orders = [o \in Pending' |-> orders'[o]]
        /\ disk'.booked = booked' /\ disk'.items = items'
    BY <1>2 DEF Snapshot
  <2>2. Pending' \subseteq DOMAIN orders'
    BY DEF Pending
  <2>3. \A o \in DOMAIN orders' : orders'[o] \in OrderRecords
    BY DEF Book, BookType
  <2>4. SameFills(orders', disk'.orders)
    BY <2>1, <2>2, <2>3 DEF SameFills
  <2> QED BY <2>1, <2>2, <2>4, BookOfFewer
<1> QED BY <1>1, <1>2
\* record_cycle: whatever part of it was written.
LEMMA RecordCycleIsTyped ==
    ASSUME LoopTypeOK, RecordCycle
    PROVE  /\ ledger' \in [qty : [OrderIds -> Nat], ids : SUBSET (OrderIds \X Shares),
                           broken : BOOLEAN]
           /\ journal' \in [ids : SUBSET (OrderIds \X Shares), unsaved : BOOLEAN]
<1>1. ASSUME Appended([o \in OrderIds |-> IF o \in DOMAIN fills THEN fills[o] ELSE 0], {})
      PROVE  /\ ledger' \in [qty : [OrderIds -> Nat], ids : SUBSET (OrderIds \X Shares),
                             broken : BOOLEAN]
             /\ journal' \in [ids : SUBSET (OrderIds \X Shares), unsaved : BOOLEAN]
  <2>1. [o \in OrderIds |-> IF o \in DOMAIN fills THEN fills[o] ELSE 0] \in [OrderIds -> Nat]
    BY DEF LoopTypeOK, Shares
  <2> QED BY <1>1, <2>1, AppendIsTyped
<1>2. ASSUME NEW recorded \in SUBSET DOMAIN fills, RecordPart(recorded)
      PROVE  /\ ledger' \in [qty : [OrderIds -> Nat], ids : SUBSET (OrderIds \X Shares),
                             broken : BOOLEAN]
             /\ journal' \in [ids : SUBSET (OrderIds \X Shares), unsaved : BOOLEAN]
  <2>1. [o \in OrderIds |-> ledger.qty[o] + IF o \in recorded THEN fills[o] ELSE 0]
          \in [OrderIds -> Nat]
    BY DEF LoopTypeOK, Shares
  <2>2. PICK broken \in {TRUE, ledger.broken \/ (journal.unsaved /\ recorded # {})} :
          ledger' = [qty |-> [o \in OrderIds |->
                                ledger.qty[o] + IF o \in recorded THEN fills[o] ELSE 0],
                     ids |-> ledger.ids, broken |-> broken]
    BY <1>2 DEF RecordPart
  <2>3. broken \in BOOLEAN /\ ledger.ids \in SUBSET (OrderIds \X Shares)
    BY DEF LoopTypeOK
  <2>4. journal' \in [ids : SUBSET (OrderIds \X Shares), unsaved : BOOLEAN]
    BY <1>2 DEF RecordPart, LoopTypeOK
  <2> QED BY <2>1, <2>2, <2>3, <2>4
<1> QED BY <1>1, <1>2 DEF RecordCycle

\* reconcile_open_orders and _surface_discovered_fill: what they make of the orders
\* and of the items.
Discovered(reported) == {o \in Pending \cap reported : broker[o].filled > orders[o].filled}

TruthOf(reported, o) ==
    CASE o \in Discovered(reported) -> "RECONCILIATION_HOLD"
      [] o \in (Pending \cap reported) \ Discovered(reported) -> BrokerStatus(o)
      [] OTHER -> "NO_RECORD"

LEMMA ApplyTruthFields ==
    ASSUME StackInv, Books, NEW reported \in SUBSET DOMAIN broker, ApplyTruth(reported)
    PROVE  /\ DOMAIN orders' = DOMAIN orders /\ orders' \in [DOMAIN orders' -> OrderRecords]
           /\ items' = items \cup {Discovery(orders, broker, o) : o \in Discovered(reported)}
           /\ Discovered(reported) \in SUBSET (DOMAIN orders \cap DOMAIN broker)
           /\ \A o \in DOMAIN orders :
                 /\ orders'[o].approved = orders[o].approved
                 /\ orders'[o].filled = IF o \in Discovered(reported) THEN broker[o].filled
                                        ELSE orders[o].filled
                 /\ orders'[o].status = ResyncStatus(orders[o].status, TruthOf(reported, o))
                 /\ TruthOf(reported, o) \in BrokerTruth
<1> DEFINE matched    == Pending \cap reported
           discovered == Discovered(reported)
           Adopted(o) == IF o \in matched
                         THEN WithBrokerFill(WithBrokerId(orders[o]), broker[o].filled)
                         ELSE orders[o]
           Truth(o)   == TruthOf(reported, o)
           found      == {ItemFor(o, Adopted(o).filled) : o \in discovered}
           known      == {<<i.order, i.upTo>> : i \in items}
<1>1. /\ orders' = [o \in DOMAIN orders |-> Resynced(Adopted(o), Truth(o))]
      /\ items' = items \cup {i \in found : <<i.order, i.upTo>> \notin known}
  BY DEF ApplyTruth, Discovered, TruthOf
<1>2. \A o : Truth(o) \in BrokerTruth
  BY BrokerSpeaksTheVocabulary DEF BrokerTruth, ResyncStatuses, TruthOf
<1>3. ASSUME NEW o \in DOMAIN orders
      PROVE  /\ orders[o] \in OrderRecords /\ o \in OrderIds
             /\ orders[o].filled \in Nat /\ orders[o].approved \in Nat
             /\ orders[o].status \in ResubmitBlockingStates \cup TerminalStates
             /\ o \in matched => /\ o \in DOMAIN broker /\ broker[o].filled \in Nat
                                 /\ orders[o].approved = broker[o].qty
                                 /\ orders[o].filled <= broker[o].filled
                                 /\ broker[o].filled <= orders[o].approved
  BY DEF Books, Book, BookType, OrderRecords, Shares, StackInv, Settled, BrokerOK, Agrees
<1>4. ASSUME NEW o \in DOMAIN orders
      PROVE  /\ Adopted(o) \in OrderRecords /\ Adopted(o).status = orders[o].status
             /\ Adopted(o).approved = orders[o].approved
             /\ Adopted(o).filled = IF o \in discovered THEN broker[o].filled ELSE orders[o].filled
  <2>1. CASE o \in matched
    <3>0. o \in discovered <=> broker[o].filled > orders[o].filled
      BY <2>1 DEF Discovered
    <3> HIDE DEF discovered
    <3> DEFINE r == WithBrokerId(orders[o])
    <3>1. /\ r \in OrderRecords /\ r.status = orders[o].status
          /\ r.filled = orders[o].filled /\ r.approved = orders[o].approved
      BY <1>3, BrokerIdFields
    <3> HIDE DEF r
    <3>2. /\ WithBrokerFill(r, broker[o].filled) \in OrderRecords
          /\ WithBrokerFill(r, broker[o].filled).status = r.status
          /\ WithBrokerFill(r, broker[o].filled).filled =
               IF broker[o].filled > r.filled THEN broker[o].filled ELSE r.filled
          /\ WithBrokerFill(r, broker[o].filled).approved = r.approved
      BY <1>3, <2>1, <3>1, BrokerFillFields
    <3>3. Adopted(o) = WithBrokerFill(r, broker[o].filled)
      BY <2>1 DEF r
    <3> HIDE DEF Adopted
    <3> QED BY <2>1, <3>0, <3>1, <3>2, <3>3
  <2>2. CASE o \notin matched
    BY <1>3, <2>2 DEF Discovered
  <2> QED BY <2>1, <2>2
<1> HIDE DEF Adopted, Truth
<1>5. ASSUME NEW o \in DOMAIN orders
      PROVE  /\ orders'[o] \in OrderRecords /\ orders'[o].approved = orders[o].approved
             /\ orders'[o].filled = IF o \in discovered THEN broker[o].filled ELSE orders[o].filled
             /\ orders'[o].status = ResyncStatus(orders[o].status, Truth(o))
  <2>1. ResyncStatus(Adopted(o).status, Truth(o)) \in OrderStatus
    BY <1>2, <1>3, <1>4, ResyncSettles, StatusesAreStatuses
  <2>2. orders'[o] = Moved(Adopted(o), ResyncStatus(Adopted(o).status, Truth(o)))
    BY <1>1 DEF Resynced
  <2> HIDE DEF discovered
  <2> QED BY <1>4, <2>1, <2>2, MovedFields
<1>6. \A o \in discovered : /\ o \in DOMAIN orders /\ o \in DOMAIN broker
                            /\ ItemFor(o, Adopted(o).filled) = Discovery(orders, broker, o)
  BY <1>4 DEF ItemFor, Discovery, Discovered, Pending
<1>7. found = {Discovery(orders, broker, o) : o \in discovered}
  BY <1>6
<1>8. \A i \in found : <<i.order, i.upTo>> \notin known
  <2> SUFFICES ASSUME NEW o \in discovered, NEW j \in items,
                      j.order = o, j.upTo = broker[o].filled
               PROVE  FALSE
    BY <1>7 DEF Discovery
  <2>1. j.upTo <= orders[o].filled
    BY <1>6 DEF Books, Book, ItemsAreSane
  <2> QED BY <1>3, <1>6, <2>1 DEF Discovered
<1>9. items' = items \cup {Discovery(orders, broker, o) : o \in discovered}
  BY <1>1, <1>7, <1>8
<1>10. discovered \in SUBSET (DOMAIN orders \cap DOMAIN broker)
  BY <1>6
<1> HIDE DEF discovered
<1>11. DOMAIN orders' = DOMAIN orders /\ orders' \in [DOMAIN orders' -> OrderRecords]
  <2>1. DOMAIN orders' = DOMAIN orders /\ orders' = [o \in DOMAIN orders |-> orders'[o]]
    BY <1>1
  <2> QED BY <1>5, <2>1
<1> QED BY <1>2, <1>5, <1>9, <1>10, <1>11 DEF Truth, discovered

\* The adopted truth is a book.
LEMMA ApplyTruthKeepsBook ==
    ASSUME StackInv, Books, Late = NothingYet, NEW reported \in SUBSET DOMAIN broker,
           ApplyTruth(reported)
    PROVE  /\ Book(orders', booked, items', NothingYet, broker)
           /\ DOMAIN orders' = DOMAIN orders /\ items \subseteq items'
<1>1. \A o \in Discovered(reported) : broker[o].filled > orders[o].filled
  BY DEF Discovered
<1>2. Book(orders, booked, items, NothingYet, broker) /\ BrokerOK(broker)
  BY DEF Books
<1>3. Book(orders', booked, items', NothingYet, broker)
  BY <1>1, <1>2, ApplyTruthFields, NothingIsTyped, BookOfDiscoveries
<1> QED BY <1>3, ApplyTruthFields

-----------------------------------------------------------------------------
(* Positions and slices                                                    *)

LEMMA OrdersOfASymbolAreFinite ==
    ASSUME NEW s
    PROVE  IsFiniteSet(OfSymbol(OrderIds, s))
<1> DEFINE Sides == {"BUY", "SELL"}
           Parts == ((1 .. MaxAsof) \X Sides) \X (0 .. MaxSlices - 1)
           f     == [p \in Parts |-> <<p[1][1], s, p[1][2], p[2]>>]
           T     == {f[p] : p \in Parts}
<1>1. IsFiniteSet(Parts)
  <2>1. IsFiniteSet(1 .. MaxAsof) /\ IsFiniteSet(0 .. MaxSlices - 1)
    BY BoundsAssumption, FS_Interval
  <2>2. IsFiniteSet(Sides)
    <3>1. Sides = {"BUY"} \cup {"SELL"}
      OBVIOUS
    <3> HIDE DEF Sides
    <3> QED BY <3>1, FS_Singleton, FS_AddElement
  <2> HIDE DEF Sides
  <2> QED BY <2>1, <2>2, FS_Product
<1>2. IsFiniteSet(T)
  <2>1. f \in Surjection(Parts, T)
    BY DEF Surjection
  <2> HIDE DEF f, T, Parts
  <2> QED BY <1>1, <2>1, FS_Surjection
<1>3. OfSymbol(OrderIds, s) \subseteq T
  <2> SUFFICES ASSUME NEW o \in OfSymbol(OrderIds, s)
               PROVE  o \in T
    OBVIOUS
  <2>1. /\ o = <<o[1], o[2], o[3], o[4]>> /\ o[2] = s
        /\ o[1] \in 1 .. MaxAsof /\ o[3] \in Sides /\ o[4] \in 0 .. MaxSlices - 1
    BY DEF OfSymbol, OrderIds, SymbolOf
  <2>2. <<<<o[1], o[3]>>, o[4]>> \in Parts
    BY <2>1
  <2>3. f[<<<<o[1], o[3]>>, o[4]>>] = o
    BY <2>1, <2>2
  <2> HIDE DEF f, Parts
  <2> QED BY <2>2, <2>3
<1> HIDE DEF T
<1> QED BY <1>2, <1>3, FS_Subset

\* A signed sum over orders of one symbol.
LEMMA SignedSumIsInt ==
    ASSUME NEW s, NEW os \in SUBSET OfSymbol(OrderIds, s), NEW qty,
           \A o \in os : qty[o] \in Int
    PROVE  SignedSum(qty, os) \in Int
<1> DEFINE f == [o \in os |-> Sign(o) * qty[o]]
<1>1. IsFiniteSet(os)
  BY OrdersOfASymbolAreFinite, FS_Subset
<1>2. \A o \in os : f[o] \in Int
  BY DEF Sign
<1>3. SumFunctionOnSet(f, os) \in Int
  <2> HIDE DEF f
  <2> QED BY <1>1, <1>2, SumOneMore
<1> QED BY <1>3 DEF SignedSum

LEMMA PositionsAreIntegers ==
    ASSUME BookType(orders, booked, items), NEW s
    PROVE  Held(s) \in Int /\ Overlay(s) \in Int
<1>1. Held(s) \in Int
  <2>1. \A o \in OfSymbol(OrderIds, s) : booked[o] \in Int
    BY DEF BookType, OfSymbol
  <2> QED BY <2>1, SignedSumIsInt DEF Held
<1>2. Overlay(s) \in Int
  <2> DEFINE qty == [o \in Pending |-> orders[o].approved - orders[o].filled]
             os  == OfSymbol(Pending, s)
  <2>1. os \in SUBSET OfSymbol(OrderIds, s)
    BY DEF BookType, OfSymbol, Pending
  <2>2. \A o \in os : qty[o] \in Int
    BY DEF BookType, OfSymbol, Pending, OrderRecords, Shares
  <2> HIDE DEF qty, os
  <2>3. SignedSum(qty, os) \in Int
    BY <2>1, <2>2, SignedSumIsInt
  <2> QED BY <2>3 DEF Overlay, qty, os
<1> QED BY <1>1, <1>2

LEMMA SlicesAreTyped ==
    ASSUME NEW s \in Symbols, NEW delta \in Int, NEW stressed, NEW n \in 1 .. MaxSlices,
           asof \in 0 .. MaxAsof
    PROVE  /\ \A p \in Slices(s, delta, stressed, n) :
                 /\ AsofOf(p.id) = asof + 1 /\ SymbolOf(p.id) = s
                 /\ p.qty \in Shares
                 /\ asof < MaxAsof => p.id \in OrderIds
           /\ \A p, q \in Slices(s, delta, stressed, n) : p.id = q.id => p = q
<1> DEFINE size == (IF delta < 0 THEN -delta ELSE delta) \div (IF stressed THEN 2 ELSE 1)
           side == IF delta > 0 THEN "BUY" ELSE "SELL"
<1>1. size \in Nat
  <2>1. \A m \in Nat : m \div 2 \in Nat /\ m \div 1 \in Nat
    OBVIOUS
  <2> QED BY <2>1
<1>2. ASSUME size # 0, size % n = 0
      PROVE  size \div n \in Shares
  <2> HIDE DEF size
  <2>1. n \in Nat /\ n >= 1
    BY BoundsAssumption
  <2>2. size \div n \in Int /\ size = n * (size \div n) + (size % n) /\ size \div n >= 0
    BY <1>1, <2>1
  <2>3. size \div n # 0
    BY <1>2, <2>1, <2>2
  <2> QED BY <2>2, <2>3 DEF Shares
<1> HIDE DEF size
<1>3. Slices(s, delta, stressed, n) =
        IF size = 0 \/ size % n # 0
        THEN {}
        ELSE {[id |-> <<asof + 1, s, side, i>>, qty |-> size \div n] : i \in 0 .. n - 1}
  BY DEF Slices, size
<1>4. side \in {"BUY", "SELL"}
  OBVIOUS
<1> HIDE DEF side
<1>5. ASSUME NEW p \in Slices(s, delta, stressed, n)
      PROVE  /\ AsofOf(p.id) = asof + 1 /\ SymbolOf(p.id) = s
             /\ p.qty \in Shares
             /\ asof < MaxAsof => p.id \in OrderIds
  <2>1. size # 0 /\ size % n = 0
    BY <1>3
  <2>2. PICK i \in 0 .. n - 1 : p = [id |-> <<asof + 1, s, side, i>>, qty |-> size \div n]
    BY <1>3, <2>1
  <2>3. i \in 0 .. MaxSlices - 1
    BY BoundsAssumption
  <2>4. asof < MaxAsof => asof + 1 \in 1 .. MaxAsof
    BY BoundsAssumption
  <2> QED BY <1>2, <1>4, <2>1, <2>2, <2>3, <2>4 DEF AsofOf, SymbolOf, OrderIds
<1>6. \A p, q \in Slices(s, delta, stressed, n) : p.id = q.id => p = q
  BY <1>3
<1> QED BY <1>5, <1>6

-----------------------------------------------------------------------------
(* The actions                                                             *)

\* Steps that only move the cycle on.
LEMMA CycleStepKeepsAccount ==
    ASSUME AccountInv, SkipResync \/ PriceFails \/ PlanNothing \/ StateStoreFails \/ RecordCycle
    PROVE  AccountInv'
<1>1. /\ UNCHANGED <<asof, orders, booked, items, todo, resolving, disk, broker, verified>>
      /\ pc \notin {"submitting", "resolving"} /\ pc' \notin {"submitting", "resolving"}
      /\ pc' \in Points /\ fills' \in {fills, NoOrders}
      /\ pc = "ran" => fills' = NoOrders
  BY DEF SkipResync, PriceFails, PlanNothing, StateStoreFails, RecordCycle, memory, brokerVars,
         Points
<1>2. Late = NothingYet /\ Late' = NothingYet
  BY <1>1 DEF Late, NothingYet
<1>3. Books' /\ Known' = Known
  BY <1>1, <1>2, BooksStay DEF AccountInv
<1>4. FreshInv'
  BY <1>1, <1>3, FreshStays DEF AccountInv
<1>5. DOMAIN NoOrders = {}
  BY DEF NoOrders
<1>6. PcInv'
  BY <1>1, <1>5 DEF AccountInv, PcInv
<1>7. /\ ledger' \in [qty : [OrderIds -> Nat], ids : SUBSET (OrderIds \X Shares),
                      broken : BOOLEAN]
      /\ journal' \in [ids : SUBSET (OrderIds \X Shares), unsaved : BOOLEAN]
  <2>1. CASE UNCHANGED audit
    BY <2>1, NoteIsTyped DEF AccountInv
  <2>2. CASE RecordCycle
    BY <2>2, RecordCycleIsTyped DEF AccountInv
  <2> QED BY <2>1, <2>2 DEF SkipResync, PriceFails, PlanNothing, StateStoreFails
<1>8. LoopTypeOK'
  <2>1. DOMAIN fills' \subseteq OrderIds /\ fills' \in [DOMAIN fills' -> Shares]
    BY <1>1, <1>5 DEF AccountInv, LoopTypeOK, NoOrders
  <2>2. needsResync' \in BOOLEAN /\ wasConnected' \in BOOLEAN /\ connected' \in BOOLEAN
    BY DEF SkipResync, PriceFails, PlanNothing, StateStoreFails, RecordCycle, memory,
           brokerVars, AccountInv, LoopTypeOK
  <2> QED BY <1>1, <1>7, <2>1, <2>2 DEF AccountInv, LoopTypeOK
<1> QED BY <1>3, <1>4, <1>6, <1>8 DEF AccountInv

\* _maybe_resync.
LEMMA ResyncKeepsAccount ==
    ASSUME StackInv, AccountInv, NEW read \in Reads, Resync(read)
    PROVE  AccountInv'
<1>1. /\ UNCHANGED <<asof, booked, todo, fills, resolving, disk, broker, connected>>
      /\ pc = "idle" /\ pc' = "synced" /\ wasConnected' = connected
      /\ needsResync' \in BOOLEAN /\ verified' \in BOOLEAN
      /\ (Noted \/ UNCHANGED audit)
  BY DEF Resync, StillNeedsResync, brokerVars, AccountInv, LoopTypeOK
<1>2. Late = NothingYet /\ Late' = NothingYet
  BY <1>1 DEF Late, NothingYet
<1>3. /\ Book(orders', booked, items', NothingYet, broker)
      /\ DOMAIN orders' = DOMAIN orders /\ items \subseteq items'
  <2>1. CASE read.kind = "raised"
    BY <1>2, <2>1 DEF Resync, AccountInv, Books
  <2>2. CASE read.kind # "raised"
    <3>1. ApplyTruth(read.ids)
      BY <2>2 DEF Resync
    <3>2. read.ids \subseteq DOMAIN broker
      BY DEF Reads, Answers, Failures, Reported, Listable, OpenAtBroker
    <3> QED BY <1>2, <3>1, <3>2, ApplyTruthKeepsBook DEF AccountInv
  <2> QED BY <2>1, <2>2
<1>4. Books' /\ Known' = Known
  BY <1>1, <1>2, <1>3 DEF AccountInv, Books, Known
<1>5. FreshInv'
  BY <1>1, <1>4, FreshStays DEF AccountInv
<1>6. PcInv'
  BY <1>1, <1>3 DEF AccountInv, PcInv
<1>7. LoopTypeOK'
  <2>1. /\ ledger' \in [qty : [OrderIds -> Nat], ids : SUBSET (OrderIds \X Shares),
                        broken : BOOLEAN]
        /\ journal' \in [ids : SUBSET (OrderIds \X Shares), unsaved : BOOLEAN]
    BY <1>1, NoteIsTyped DEF AccountInv
  <2> QED BY <1>1, <1>3, <2>1 DEF AccountInv, LoopTypeOK, Points
<1> QED BY <1>4, <1>5, <1>6, <1>7 DEF AccountInv
\* STEP 11 and 12: every slice has a quantity, an id of its own, and one nobody
\* has seen.
LEMMA PlanKeepsAccount ==
    ASSUME AccountInv, NEW target \in [Symbols -> 0 .. MaxTarget], NEW stressed \in BOOLEAN,
           NEW n \in 1 .. MaxSlices, Plan(target, stressed, n)
    PROVE  AccountInv'
<1> DEFINE planned(s) == Slices(s, target[s] - Held(s) - Overlay(s), stressed, n)
           free       == {s \in Symbols : ~BlockedSymbol(s)}
<1>1. /\ UNCHANGED <<orders, booked, items, needsResync, wasConnected, fills, resolving,
                     disk, audit, verified, broker, connected>>
      /\ pc = "synced" /\ pc' = "submitting"
      /\ todo' = UNION {planned(s) : s \in free}
      /\ todo' # {} => asof < MaxAsof /\ asof' = asof + 1
      /\ todo' = {} => asof' = asof
  BY DEF Plan, brokerVars
<1>2. ASSUME NEW s \in free
      PROVE  /\ \A p \in planned(s) : /\ AsofOf(p.id) = asof + 1 /\ SymbolOf(p.id) = s
                                      /\ p.qty \in Shares
                                      /\ asof < MaxAsof => p.id \in OrderIds
             /\ \A p, q \in planned(s) : p.id = q.id => p = q
  <2>1. Held(s) \in Int /\ Overlay(s) \in Int
    BY PositionsAreIntegers DEF AccountInv, Books, Book
  <2>2. target[s] - Held(s) - Overlay(s) \in Int
    BY <2>1, TargetAssumption
  <2> QED BY <2>2, SlicesAreTyped DEF AccountInv, LoopTypeOK
<1> HIDE DEF planned, free
<1>3. asof \in Nat /\ asof' \in 0 .. MaxAsof
  BY <1>1, BoundsAssumption DEF AccountInv, LoopTypeOK
<1>4. Late = NothingYet /\ Late' = NothingYet
  BY <1>1 DEF Late, NothingYet, AccountInv, PcInv
<1>5. Books' /\ Known' = Known
  BY <1>1, <1>4, BooksStay DEF AccountInv
<1>6. ASSUME NEW p \in todo'
      PROVE  /\ AsofOf(p.id) = asof + 1 /\ asof' = asof + 1 /\ p.qty \in Shares
             /\ p.id \in OrderIds /\ p.id \notin Known'
  <2>1. PICK s \in free : p \in planned(s)
    BY <1>1
  <2>2. AsofOf(p.id) = asof + 1 /\ p.qty \in Shares /\ p.id \in OrderIds
    BY <1>1, <1>2, <2>1
  <2>3. p.id \notin Known
    BY <1>3, <2>2 DEF AccountInv, FreshInv
  <2> QED BY <1>1, <1>5, <2>2, <2>3
<1>7. ASSUME NEW p \in todo', NEW q \in todo', p.id = q.id
      PROVE  p = q
  <2>1. PICK s \in free : p \in planned(s)
    BY <1>1
  <2>2. PICK r \in free : q \in planned(r)
    BY <1>1
  <2>3. s = r
    BY <1>2, <1>7, <2>1, <2>2
  <2> QED BY <1>2, <1>7, <2>1, <2>2, <2>3
<1>8. FreshInv'
  <2>1. \A o \in Known' : AsofOf(o) <= asof'
    <3> SUFFICES ASSUME NEW o \in Known' PROVE AsofOf(o) <= asof'
      OBVIOUS
    <3>1. AsofOf(o) <= asof /\ o \in OrderIds
      BY <1>5 DEF AccountInv, FreshInv, Books, Book, BookType, BrokerOK, Known
    <3>2. AsofOf(o) \in Nat
      BY <3>1, OrderIdsHaveAsof
    <3> QED BY <1>1, <1>3, <3>1, <3>2
  <2> QED BY <1>6, <1>7, <2>1 DEF FreshInv
<1>9. PcInv'
  BY <1>1 DEF AccountInv, PcInv
<1>10. todo' \subseteq [id : OrderIds, qty : Shares]
  <2>1. \A p \in todo' : p = [id |-> p.id, qty |-> p.qty]
    <3> SUFFICES ASSUME NEW p \in todo' PROVE p = [id |-> p.id, qty |-> p.qty]
      OBVIOUS
    <3>1. PICK s \in free : p \in planned(s)
      BY <1>1
    <3> QED BY <3>1 DEF planned, Slices
  <2> QED BY <1>6, <2>1
<1>11. LoopTypeOK'
  BY <1>1, <1>3, <1>10 DEF AccountInv, LoopTypeOK, Points, audit
<1> QED BY <1>5, <1>8, <1>9, <1>11 DEF AccountInv
\* OrderManager.place: a record and, if the broker took it, a broker order for
\* the same quantity; what the broker filled on the spot is late, not booked.
Placed(p, r) ==
    /\ Submitting(p) /\ Put(p.id, r)
    /\ \/ broker' = broker /\ r.filled = 0
       \/ Accepts(p.id, p.qty, r.filled)
    /\ \/ fills' = fills /\ r.filled = 0
       \/ /\ fills' = [o \in DOMAIN fills \cup {p.id} |-> IF o = p.id THEN r.filled ELSE fills[o]]
          /\ r.filled \in Shares

LEMMA PlacedFields ==
    ASSUME AccountInv, NEW p, NEW r \in OrderRecords, Placed(p, r),
           r.approved = p.qty, r.filled <= p.qty
    PROVE  /\ p.id \in OrderIds /\ p.qty \in Shares /\ p.id \notin Known /\ AsofOf(p.id) = asof
           /\ r.filled \in Nat /\ booked[p.id] = 0
           /\ Late \in [OrderIds -> Nat] /\ Late[p.id] = 0
           /\ Late' \in [OrderIds -> Nat] /\ Late'[p.id] = r.filled
           /\ \A x \in OrderIds : x # p.id => Late'[x] = Late[x]
           /\ DOMAIN fills' \subseteq OrderIds /\ fills' \in [DOMAIN fills' -> Shares]
           /\ DOMAIN orders' = DOMAIN orders \cup {p.id} /\ orders'[p.id] = r
           /\ \A x \in DOMAIN orders : x # p.id => orders'[x] = orders[x]
           /\ orders' = [x \in DOMAIN orders' |-> orders'[x]]
           /\ DOMAIN broker \subseteq DOMAIN broker'
           /\ DOMAIN broker' \subseteq DOMAIN broker \cup {p.id}
           /\ \A x \in DOMAIN broker : broker'[x] = broker[x]
           /\ BrokerOK(broker')
           /\ p.id \in DOMAIN broker' =>
                 broker'[p.id].qty = p.qty /\ broker'[p.id].filled = r.filled
           /\ p.id \notin DOMAIN broker' => r.filled = 0
<1> DEFINE o == p.id
<1>1. /\ pc = "submitting" /\ pc' = pc /\ p \in todo
  BY DEF Placed, Submitting
<1>2. o \in OrderIds /\ p.qty \in Shares /\ o \notin Known /\ AsofOf(o) = asof
  BY <1>1 DEF AccountInv, LoopTypeOK, FreshInv
<1>3. r.filled \in Nat
  BY DEF OrderRecords
<1>4. /\ Late \in [OrderIds -> Nat] /\ Late[o] = 0 /\ booked[o] = 0
  <2>1. Late \in [OrderIds -> Nat]
    BY LateIsTyped DEF AccountInv
  <2>2. BrokerOK(broker) /\ Book(orders, booked, items, Late, broker) /\ o \notin DOMAIN broker
    BY <1>2 DEF AccountInv, Books, Known
  <2>3. Late[o] = 0 /\ booked[o] = 0
    BY <1>2, <2>1, <2>2, NothingBeforeTheBroker
  <2> QED BY <2>1, <2>3
<1>5. o \notin DOMAIN fills
  BY <1>1, <1>2, <1>4 DEF Late, AccountInv, LoopTypeOK, Shares
<1>6. /\ DOMAIN fills' \subseteq OrderIds /\ fills' \in [DOMAIN fills' -> Shares]
      /\ \A x \in OrderIds : x # o => Late'[x] = Late[x]
      /\ Late'[o] = r.filled /\ Late' \in [OrderIds -> Nat]
  <2>1. CASE fills' = fills /\ r.filled = 0
    BY <1>1, <1>2, <1>4, <2>1 DEF Late, AccountInv, LoopTypeOK
  <2>2. CASE /\ fills' = [x \in DOMAIN fills \cup {o} |-> IF x = o THEN r.filled ELSE fills[x]]
             /\ r.filled \in Shares
    <3>1. DOMAIN fills' = DOMAIN fills \cup {o}
      BY <2>2
    <3>2. /\ \A x \in DOMAIN fills : x # o => fills'[x] = fills[x]
          /\ fills'[o] = r.filled /\ fills' = [x \in DOMAIN fills' |-> fills'[x]]
      BY <2>2
    <3>3. fills' \in [DOMAIN fills' -> Shares]
      BY <2>2, <3>1, <3>2 DEF AccountInv, LoopTypeOK
    <3>4. \A x \in OrderIds : x # o => Late'[x] = Late[x]
      BY <1>1, <3>1, <3>2 DEF Late
    <3>5. Late'[o] = r.filled
      BY <1>1, <1>2, <3>1, <3>2 DEF Late
    <3>6. Late' \in [OrderIds -> Nat]
      BY <1>1, <3>1, <3>3 DEF Late, Shares
    <3> QED BY <1>2, <3>1, <3>3, <3>4, <3>5, <3>6 DEF AccountInv, LoopTypeOK
  <2> QED BY <2>1, <2>2 DEF Placed
<1>7. /\ DOMAIN orders' = DOMAIN orders \cup {o} /\ orders'[o] = r
      /\ \A x \in DOMAIN orders : x # o => orders'[x] = orders[x]
      /\ orders' = [x \in DOMAIN orders' |-> orders'[x]]
  BY DEF Placed, Put
<1>8. /\ BrokerOK(broker') /\ DOMAIN broker \subseteq DOMAIN broker'
      /\ \A x \in DOMAIN broker : broker'[x] = broker[x]
      /\ DOMAIN broker' \subseteq DOMAIN broker \cup {o}
      /\ o \in DOMAIN broker' => broker'[o].qty = p.qty /\ broker'[o].filled = r.filled
      /\ o \notin DOMAIN broker' => r.filled = 0
  <2>1. BrokerOK(broker) /\ o \notin DOMAIN broker
    BY <1>2 DEF AccountInv, Books, Known
  <2>2. CASE broker' = broker /\ r.filled = 0
    BY <2>1, <2>2
  <2>3. CASE Accepts(o, p.qty, r.filled)
    <3>1. /\ DOMAIN broker' = DOMAIN broker \cup {o}
          /\ broker'[o] = [qty |-> p.qty, filled |-> r.filled, open |-> r.filled < p.qty]
          /\ \A x \in DOMAIN broker : broker'[x] = broker[x]
          /\ broker' = [x \in DOMAIN broker' |-> broker'[x]]
      BY <2>1, <2>3 DEF Accepts
    <3>2. broker'[o] \in [qty : Shares, filled : Nat, open : BOOLEAN]
      BY <1>2, <1>3, <3>1
    <3>3. broker' \in [DOMAIN broker' -> [qty : Shares, filled : Nat, open : BOOLEAN]]
      <4>1. \A x \in DOMAIN broker' : broker'[x] \in [qty : Shares, filled : Nat, open : BOOLEAN]
        <5>1. \A x \in DOMAIN broker : broker[x] \in [qty : Shares, filled : Nat, open : BOOLEAN]
          BY <2>1 DEF BrokerOK
        <5> HIDE DEF o
        <5> QED BY <3>1, <3>2, <5>1
      <4> QED BY <3>1, <4>1
    <3>4. BrokerOK(broker')
      <4>1. ASSUME NEW x \in DOMAIN broker'
            PROVE  /\ broker'[x].filled <= broker'[x].qty
                   /\ broker'[x].open => broker'[x].filled < broker'[x].qty
        <5>1. /\ broker'[o].filled = r.filled /\ broker'[o].qty = p.qty
              /\ broker'[o].open = (r.filled < p.qty)
          BY <3>1
        <5> HIDE DEF o
        <5>2. CASE x = o
          BY <5>1, <5>2
        <5>3. CASE x # o
          BY <2>1, <3>1, <5>3 DEF BrokerOK
        <5> QED BY <5>2, <5>3
      <4> QED BY <1>2, <2>1, <3>1, <3>3, <4>1 DEF BrokerOK
    <3> QED BY <3>1, <3>4
  <2> QED BY <2>2, <2>3 DEF Placed
<1> QED BY <1>2, <1>3, <1>4, <1>6, <1>7, <1>8

LEMMA PlacingKeepsAccount ==
    ASSUME AccountInv, NEW p, NEW r \in OrderRecords, Placed(p, r),
           r.approved = p.qty, r.filled <= p.qty
    PROVE  AccountInv'
<1> DEFINE o == p.id
<1>1. /\ UNCHANGED <<pc, asof, booked, items, needsResync, wasConnected, resolving,
                     disk, audit, verified, connected>>
      /\ pc = "submitting" /\ p \in todo /\ todo' = todo \ {p}
  BY DEF Placed, Submitting
<1>2. /\ o \in OrderIds /\ p.qty \in Shares /\ o \notin Known /\ AsofOf(o) = asof
      /\ r.filled \in Nat
  BY PlacedFields
<1>3. Late \in [OrderIds -> Nat] /\ Late[o] = 0
  BY PlacedFields
<1>4. /\ DOMAIN fills' \subseteq OrderIds /\ fills' \in [DOMAIN fills' -> Shares]
      /\ \A x \in OrderIds : x # o => Late'[x] = Late[x]
      /\ Late'[o] = r.filled /\ Late' \in [OrderIds -> Nat]
  BY PlacedFields
<1>5. /\ DOMAIN orders' = DOMAIN orders \cup {o} /\ orders'[o] = r
      /\ \A x \in DOMAIN orders : x # o => orders'[x] = orders[x]
      /\ orders' = [x \in DOMAIN orders' |-> orders'[x]]
  BY PlacedFields
<1>6. /\ BrokerOK(broker') /\ BrokerMoves(broker, broker')
      /\ DOMAIN broker' \subseteq DOMAIN broker \cup {o}
      /\ o \in DOMAIN broker' => broker'[o].qty = p.qty /\ broker'[o].filled = r.filled
      /\ o \notin DOMAIN broker' => r.filled = 0
  <2>1. /\ DOMAIN broker \subseteq DOMAIN broker'
        /\ \A x \in DOMAIN broker : broker'[x] = broker[x]
    BY PlacedFields
  <2>2. \A x \in DOMAIN broker : broker[x].filled \in Nat
    BY DEF AccountInv, Books, BrokerOK
  <2>3. BrokerMoves(broker, broker')
    BY <2>1, <2>2 DEF BrokerMoves
  <2> QED BY <2>3, PlacedFields
<1> HIDE DEF o
<1>7. Books'
  <2>1. Book(orders', booked, items, Late', broker')
    <3>1. o \notin DOMAIN orders /\ o \notin DOMAIN broker /\ orders'[o] \in OrderRecords
      BY <1>2, <1>5 DEF Known
    <3>2. Book(orders, booked, items, Late, broker) /\ BrokerOK(broker)
      BY DEF AccountInv, Books
    <3> QED BY <1>2, <1>3, <1>4, <1>5, <1>6, <3>1, <3>2, BookOfNewOrder
  <2>2. Book(disk.orders, disk.booked, disk.items, NothingYet, broker')
    <3>1. \A x \in DOMAIN broker' \ DOMAIN broker : x \notin DOMAIN disk.orders
      BY <1>2, <1>6 DEF Known
    <3> QED BY <1>6, <3>1, NothingIsTyped, BookSurvivesTheBroker DEF AccountInv, Books
  <2> QED BY <1>1, <1>6, <2>1, <2>2 DEF Books
<1>8. Known' \subseteq Known \cup {o}
  BY <1>1, <1>5, <1>6 DEF Known
<1>9. FreshInv'
  <2>1. \A x \in Known' : AsofOf(x) <= asof'
    BY <1>1, <1>2, <1>8, OrderIdsHaveAsof DEF AccountInv, FreshInv
  <2>2. \A q \in todo' : AsofOf(q.id) = asof' /\ q.id \notin Known'
    BY <1>1, <1>8 DEF AccountInv, FreshInv, o
  <2> QED BY <1>1, <2>1, <2>2 DEF AccountInv, FreshInv
<1>10. PcInv'
  BY <1>1 DEF AccountInv, PcInv
<1>11. LoopTypeOK'
  BY <1>1, <1>4 DEF AccountInv, LoopTypeOK, audit
<1> QED BY <1>7, <1>9, <1>10, <1>11 DEF AccountInv

\* Every answer of the broker.
LEMMA SubmitKeepsAccount ==
    ASSUME AccountInv, Submit
    PROVE  AccountInv'
<1>1. PICK p \in todo : \/ PlaceDisconnected(p) \/ PlaceUnsent(p) \/ PlaceRaises(p)
                        \/ \E k \in 0 .. p.qty : PlaceAccepted(p, k)
  BY DEF Submit
<1>2. p.qty \in Shares
  BY DEF AccountInv, LoopTypeOK
<1>3. {"BROKER_UNKNOWN", "WORKING", "SUBMISSION_UNCERTAIN", "SUBMIT_PENDING"} \subseteq OrderStatus
  BY DEF OrderStatus, ResubmitBlockingStates
<1>4. \A to \in OrderStatus : /\ Moved(NewRecord(p.qty), to) \in OrderRecords
                              /\ Moved(NewRecord(p.qty), to).filled = 0
                              /\ Moved(NewRecord(p.qty), to).approved = p.qty
  BY <1>2, SubmittedFields
<1>5. 0 <= p.qty
  BY <1>2 DEF Shares
<1>6. CASE PlaceDisconnected(p)
  BY <1>3, <1>4, <1>5, <1>6, PlacingKeepsAccount DEF PlaceDisconnected, Placed
<1>7. CASE PlaceUnsent(p)
  BY <1>3, <1>4, <1>5, <1>7, PlacingKeepsAccount DEF PlaceUnsent, Placed
<1>8. CASE PlaceRaises(p)
  BY <1>3, <1>4, <1>5, <1>8, PlacingKeepsAccount DEF PlaceRaises, Placed
<1>9. ASSUME NEW k \in 0 .. p.qty, PlaceAccepted(p, k)
      PROVE  AccountInv'
  <2> DEFINE acked == WithBrokerId(Moved(NewRecord(p.qty), "SUBMIT_PENDING"))
  <2>1. /\ acked \in OrderRecords /\ acked.filled = 0 /\ acked.approved = p.qty
        /\ acked.status = "SUBMIT_PENDING"
    BY <1>2, <1>3, SubmittedFields, BrokerIdFields
  <2>2. acked.seen = {}
    BY DEF WithBrokerId, Moved, NewRecord
  <2>3. /\ Submitting(p) /\ Accepts(p.id, p.qty, k)
        /\ k = 0 => Put(p.id, Moved(acked, "WORKING")) /\ fills' = fills
        /\ k # 0 => /\ Put(p.id, WithFill(acked, "exec", k))
                    /\ fills' = [o \in DOMAIN fills \cup {p.id} |-> IF o = p.id THEN k ELSE fills[o]]
    BY <1>9 DEF PlaceAccepted
  <2> HIDE DEF acked
  <2>4. CASE k = 0
    <3>1. /\ Moved(acked, "WORKING") \in OrderRecords /\ Moved(acked, "WORKING").filled = 0
          /\ Moved(acked, "WORKING").approved = p.qty
      BY <1>3, <2>1, MovedFields
    <3> QED BY <1>5, <2>3, <2>4, <3>1, PlacingKeepsAccount DEF Placed
  <2>5. CASE k # 0
    <3> DEFINE r == WithFill(acked, "exec", k)
    <3>1. FillStatus(acked, k) \in OrderStatus
      <4>1. FillStatus(acked, k) \in ResubmitBlockingStates \cup TerminalStates
        BY <2>1, FillSettles DEF ResubmitBlockingStates
      <4> QED BY <4>1, StatusesAreStatuses
    <3>2. k \in Nat /\ k \in Shares /\ k <= p.qty /\ "exec" \in FillIds
      BY <1>2, <2>5, FillIdsAssumption DEF Shares
    <3>3. r \in OrderRecords /\ r.filled = k /\ r.approved = p.qty
      BY <2>1, <2>2, <3>1, <3>2, FilledFields
    <3>4. Put(p.id, r)
      BY <2>3, <2>5
    <3> HIDE DEF r
    <3> QED BY <2>3, <2>5, <3>2, <3>3, <3>4, PlacingKeepsAccount DEF Placed
  <2> QED BY <2>4, <2>5
<1> QED BY <1>1, <1>6, <1>7, <1>8, <1>9
\* The end of STEP 12: what was late is booked, and finished orders may be evicted.
LEMMA FinishOrdersKeepsAccount ==
    ASSUME AccountInv, FinishOrders
    PROVE  AccountInv'
<1>1. /\ UNCHANGED <<asof, items, needsResync, wasConnected, todo, fills, resolving,
                     disk, audit, verified, broker, connected>>
      /\ pc = "submitting" /\ todo = {} /\ pc' = "ran"
      /\ booked' = [o \in OrderIds |-> booked[o] + IF o \in DOMAIN fills THEN fills[o] ELSE 0]
  BY DEF FinishOrders, brokerVars
<1>2. PICK kept \in SUBSET TerminalOrders : orders' = [o \in Pending \cup kept |-> orders[o]]
  BY DEF FinishOrders
<1>3. /\ Late \in [OrderIds -> Nat] /\ Late' = NothingYet
      /\ \A o \in OrderIds : booked'[o] = booked[o] + Late[o]
  BY <1>1, LateIsTyped DEF Late, NothingYet, AccountInv
<1>4. Book(orders, booked', items, NothingYet, broker)
  <2>1. Book(orders, booked, items, Late, broker) /\ BrokerOK(broker)
    BY DEF AccountInv, Books
  <2>2. \A o \in OrderIds : /\ booked[o] \in Nat /\ Late[o] \in Nat
                            /\ booked'[o] = booked[o] + Late[o] /\ booked'[o] \in Nat
                            /\ DeltaOf(items, o, {"OPEN"}) \in Nat
                            /\ DeltaOf(items, o, {"OPEN", "REJECTED"}) \in Nat
                            /\ NothingYet[o] = 0
    <3> SUFFICES ASSUME NEW o \in OrderIds
                 PROVE  /\ booked[o] \in Nat /\ Late[o] \in Nat
                        /\ booked'[o] = booked[o] + Late[o] /\ booked'[o] \in Nat
                        /\ DeltaOf(items, o, {"OPEN"}) \in Nat
                        /\ DeltaOf(items, o, {"OPEN", "REJECTED"}) \in Nat
                        /\ NothingYet[o] = 0
      OBVIOUS
    <3>1. /\ booked[o] \in Nat /\ Late[o] \in Nat
          /\ DeltaOf(items, o, {"OPEN"}) \in Nat /\ DeltaOf(items, o, {"OPEN", "REJECTED"}) \in Nat
      BY <1>3, <2>1, BookNumbers
    <3> QED BY <1>3, <3>1 DEF NothingYet
  <2>3. BookType(orders, booked', items)
    <3>1. booked' \in [OrderIds -> Nat]
      BY <1>1, <2>2
    <3> QED BY <2>1, <3>1 DEF Book, BookType
  <2>4. Balanced(orders, booked', items, NothingYet)
    <3>1. \A o \in DOMAIN orders : o \in OrderIds
      BY <2>1 DEF Book, BookType
    <3>2. \A o \in DOMAIN orders :
              orders[o].filled = booked[o] + DeltaOf(items, o, {"OPEN", "REJECTED"}) + Late[o]
      BY <2>1 DEF Book, Balanced
    <3> QED BY <2>2, <3>1, <3>2 DEF Balanced
  <2>5. Covered(booked', items, NothingYet, broker)
    <3>1. \A o \in OrderIds :
              booked[o] + DeltaOf(items, o, {"OPEN"}) + Late[o] <= FilledIn(broker, o)
      BY <2>1 DEF Book, Covered
    <3> QED BY <2>2, <3>1 DEF Covered
  <2> QED BY <2>1, <2>3, <2>4, <2>5 DEF Book
<1>5. SameFills(orders, orders')
  <2>1. /\ DOMAIN orders' \subseteq DOMAIN orders
        /\ \A o \in DOMAIN orders' : orders'[o] = orders[o]
        /\ orders' = [o \in DOMAIN orders' |-> orders'[o]]
    BY <1>2 DEF Pending, TerminalOrders
  <2>2. \A o \in DOMAIN orders : orders[o] \in OrderRecords
    BY DEF AccountInv, Books, Book, BookType
  <2> QED BY <2>1, <2>2 DEF SameFills
<1>6. Books'
  <2>1. Book(orders', booked', items, NothingYet, broker)
    BY <1>4, <1>5, BookOfFewer
  <2> QED BY <1>1, <1>3, <2>1 DEF AccountInv, Books
<1>7. FreshInv'
  <2>1. Known' \subseteq Known
    BY <1>1, <1>5 DEF Known, SameFills
  <2> QED BY <1>1, <2>1, FreshStays DEF AccountInv
<1>8. PcInv' /\ LoopTypeOK'
  BY <1>1 DEF AccountInv, PcInv, LoopTypeOK, Points, audit
<1> QED BY <1>6, <1>7, <1>8 DEF AccountInv

\* _persist: the disk holds a book, if the write does not raise.
LEMMA PersistKeepsAccount ==
    ASSUME AccountInv, Persist
    PROVE  AccountInv'
<1>1. /\ UNCHANGED <<asof, orders, booked, items, needsResync, wasConnected, todo, fills,
                     resolving, audit, verified, broker, connected>>
      /\ pc = "recorded" /\ pc' = "idle"
  BY DEF Persist, memory, brokerVars
<1>2. disk' = Snapshot' \/ disk' = disk
  BY <1>1 DEF Persist, Snapshot, Pending
<1>3. Late = NothingYet /\ Late' = NothingYet
  BY <1>1 DEF Late, NothingYet
<1>4. /\ Book(orders', booked', items', NothingYet, broker)
      /\ Book(disk.orders, disk.booked, disk.items, NothingYet, broker)
  BY <1>1, <1>3 DEF AccountInv, Books
<1>5. /\ Book(disk'.orders, disk'.booked, disk'.items, NothingYet, broker)
      /\ DOMAIN disk'.orders \subseteq DOMAIN orders' \cup DOMAIN disk.orders
  BY <1>2, <1>4, SnapshotIsABook
<1>6. Books'
  BY <1>1, <1>3, <1>4, <1>5 DEF AccountInv, Books
<1>7. FreshInv'
  <2>1. Known' \subseteq Known
    BY <1>1, <1>5 DEF Known
  <2> QED BY <1>1, <2>1, FreshStays DEF AccountInv
<1>8. PcInv' /\ LoopTypeOK'
  BY <1>1 DEF AccountInv, PcInv, LoopTypeOK, Points, audit
<1> QED BY <1>6, <1>7, <1>8 DEF AccountInv

\* ACCEPT, up to the append, and the ACCEPT that fails there: no book moves.
LEMMA AcceptKeepsAccount ==
    ASSUME AccountInv, NEW i \in items, Accept(i) \/ AcceptUnaudited(i)
    PROVE  AccountInv'
<1>1. /\ UNCHANGED <<asof, orders, booked, items, needsResync, wasConnected, todo, fills,
                     disk, verified, broker, connected>>
      /\ pc = "idle" /\ i.state = "OPEN"
      /\ \/ pc' = "resolving" /\ resolving' = {i}
         \/ pc' = "idle" /\ resolving' = resolving
  BY DEF Accept, AcceptUnaudited, memory, brokerVars
<1>2. i \in Items /\ i.order \in OrderIds /\ i.upTo \in Shares /\ i.delta \in Nat
  BY DEF AccountInv, Books, Book, BookType, Items, Shares
<1>3. Late = NothingYet /\ Late' = NothingYet
  BY <1>1 DEF Late, NothingYet
<1>4. Books' /\ Known' = Known
  BY <1>1, <1>3, BooksStay DEF AccountInv
<1>5. FreshInv'
  BY <1>1, <1>4, FreshStays DEF AccountInv
<1>6. PcInv'
  BY <1>1 DEF AccountInv, PcInv
<1>7. /\ ledger' \in [qty : [OrderIds -> Nat], ids : SUBSET (OrderIds \X Shares),
                      broken : BOOLEAN]
      /\ journal' \in [ids : SUBSET (OrderIds \X Shares), unsaved : BOOLEAN]
  <2> DEFINE qty == [NothingYet EXCEPT ![i.order] = i.delta]
             ids == {<<i.order, i.upTo>>}
  <2>1. qty \in [OrderIds -> Nat] /\ ids \in SUBSET (OrderIds \X Shares)
    BY <1>2 DEF NothingYet
  <2>2. UNCHANGED audit \/ Appended(qty, ids) \/ AppendRaises(ids)
    BY DEF Accept, AcceptUnaudited
  <2> HIDE DEF qty, ids
  <2> QED BY <2>1, <2>2, AppendIsTyped, NoteIsTyped DEF AccountInv
<1>8. LoopTypeOK'
  BY <1>1, <1>7 DEF AccountInv, LoopTypeOK, Points
<1> QED BY <1>4, <1>5, <1>6, <1>8 DEF AccountInv

\* Close: an open item is decided, its order settled, and the book persisted.
LEMMA CloseKeepsAccount ==
    ASSUME StackInv, AccountInv, NEW i \in items, i.state = "OPEN", NEW settled,
           NEW state \in {"ACCEPTED", "REJECTED"}, Close(i, state, settled),
           i.order \in DOMAIN orders =>
             /\ settled \in OrderRecords /\ settled.filled = orders[i.order].filled
             /\ settled.approved = orders[i.order].approved,
           state = "ACCEPTED" => booked' = [booked EXCEPT ![i.order] = @ + i.delta],
           state = "REJECTED" => booked' = booked,
           pc \in {"idle", "resolving"}, resolving' = {},
           UNCHANGED <<asof, needsResync, wasConnected, todo, fills, verified, brokerVars>>
    PROVE  AccountInv'
<1>1. /\ UNCHANGED <<asof, needsResync, wasConnected, todo, fills, verified, broker, connected>>
      /\ pc' = "idle" /\ resolving' = {} /\ Noted
      /\ items' = Closing(items, i, state)
      /\ orders' = [x \in DOMAIN orders |-> IF x = i.order THEN settled ELSE orders[x]]
      /\ disk' = Snapshot' \/ disk' = disk
  BY DEF Close, brokerVars, Closing, Closed
<1>2. Late = NothingYet /\ Late' = NothingYet
  BY <1>1 DEF Late, NothingYet
<1>3. SameFills(orders, orders')
  <2>1. \A o \in DOMAIN orders : orders[o] \in OrderRecords
    BY DEF AccountInv, Books, Book, BookType
  <2> QED BY <1>1, <2>1 DEF SameFills
<1>4. Book(orders', booked', items', NothingYet, broker)
  <2>1. Book(orders, booked, items, NothingYet, broker) /\ BrokerOK(broker)
    BY <1>2 DEF AccountInv, Books
  <2> QED BY <1>1, <1>3, <2>1, NothingIsTyped, BookOfClosed
<1>5. /\ Book(disk'.orders, disk'.booked, disk'.items, NothingYet, broker)
      /\ DOMAIN disk'.orders \subseteq DOMAIN orders' \cup DOMAIN disk.orders
  BY <1>1, <1>4, SnapshotIsABook DEF AccountInv, Books
<1>6. Books'
  BY <1>1, <1>2, <1>4, <1>5 DEF AccountInv, Books
<1>7. FreshInv'
  <2>1. Known' \subseteq Known
    BY <1>1, <1>3, <1>5 DEF Known, SameFills
  <2> QED BY <1>1, <2>1, FreshStays DEF AccountInv
<1>8. PcInv'
  BY <1>1 DEF AccountInv, PcInv
<1>9. LoopTypeOK'
  <2>1. /\ ledger' \in [qty : [OrderIds -> Nat], ids : SUBSET (OrderIds \X Shares),
                        broken : BOOLEAN]
        /\ journal' \in [ids : SUBSET (OrderIds \X Shares), unsaved : BOOLEAN]
    BY <1>1, NoteIsTyped DEF AccountInv
  <2> QED BY <1>1, <2>1 DEF AccountInv, LoopTypeOK, Points
<1> QED BY <1>6, <1>7, <1>8, <1>9 DEF AccountInv

\* book_reconciled_fill and cancel_reconciled_order move the status alone.
LEMMA SettledFields ==
    ASSUME NEW r \in OrderRecords, r.status \in ResubmitBlockingStates \cup TerminalStates
    PROVE  /\ BookReconciled(r) \in OrderRecords /\ BookReconciled(r).filled = r.filled
           /\ BookReconciled(r).approved = r.approved
           /\ CancelReconciled(r) \in OrderRecords /\ CancelReconciled(r).filled = r.filled
           /\ CancelReconciled(r).approved = r.approved
<1>1. FillStatus(r, r.filled) \in OrderStatus /\ "CANCELLED" \in OrderStatus
  BY FillSettles, StatusesAreStatuses DEF OrderStatus, TerminalStates
<1> QED BY <1>1, MovedFields DEF BookReconciled, CancelReconciled

LEMMA ResolveKeepsAccount ==
    ASSUME StackInv, AccountInv, FinishAccept \/ \E i \in items : Reject(i)
    PROVE  AccountInv'
<1>1. ASSUME NEW i
      PROVE  i.order \in DOMAIN orders =>
               /\ orders[i.order] \in OrderRecords
               /\ orders[i.order].status \in ResubmitBlockingStates \cup TerminalStates
  BY DEF AccountInv, Books, Book, BookType, StackInv, Settled
<1>2. CASE FinishAccept
  <2>1. PICK i \in resolving : /\ booked' = [booked EXCEPT ![i.order] = @ + i.delta]
                               /\ Close(i, "ACCEPTED", BookReconciled(orders[i.order]))
    BY <1>2 DEF FinishAccept
  <2>2. /\ UNCHANGED <<asof, needsResync, wasConnected, todo, fills, verified, brokerVars>>
        /\ pc = "resolving" /\ resolving' = {}
    BY <1>2 DEF FinishAccept
  <2>3. i \in items /\ i.state = "OPEN"
    BY <2>2 DEF AccountInv, PcInv
  <2>4. i.order \in DOMAIN orders =>
          /\ BookReconciled(orders[i.order]) \in OrderRecords
          /\ BookReconciled(orders[i.order]).filled = orders[i.order].filled
          /\ BookReconciled(orders[i.order]).approved = orders[i.order].approved
    BY <1>1, SettledFields
  <2> QED BY <2>1, <2>2, <2>3, <2>4, CloseKeepsAccount
<1>3. ASSUME NEW i \in items, Reject(i)
      PROVE  AccountInv'
  <2>1. /\ UNCHANGED <<asof, booked, needsResync, wasConnected, todo, fills, resolving,
                       verified, brokerVars>>
        /\ pc = "idle" /\ i.state = "OPEN"
        /\ Close(i, "REJECTED", CancelReconciled(orders[i.order]))
    BY <1>3 DEF Reject
  <2>2. resolving' = {}
    BY <2>1 DEF AccountInv, PcInv
  <2>3. i.order \in DOMAIN orders =>
          /\ CancelReconciled(orders[i.order]) \in OrderRecords
          /\ CancelReconciled(orders[i.order]).filled = orders[i.order].filled
          /\ CancelReconciled(orders[i.order]).approved = orders[i.order].approved
    BY <1>1, SettledFields
  <2> QED BY <2>1, <2>2, <2>3, CloseKeepsAccount
<1> QED BY <1>2, <1>3

\* A crash empties the memory, a restart restores what the disk has.
LEMMA CrashKeepsAccount ==
    ASSUME AccountInv, Crash
    PROVE  AccountInv'
<1>1. /\ UNCHANGED <<asof, disk, ledger, verified, broker, connected>>
      /\ pc' = "down" /\ orders' = NoOrders /\ booked' = NothingYet /\ items' = {}
      /\ needsResync' = FALSE /\ wasConnected' = FALSE
      /\ todo' = {} /\ fills' = NoOrders /\ resolving' = {}
      /\ journal' = NewJournal
  BY DEF Crash, brokerVars
<1>2. DOMAIN NoOrders = {} /\ NoOrders \in [{} -> Shares]
  BY DEF NoOrders
<1>3. Late' = NothingYet
  BY <1>1, <1>2 DEF Late, NothingYet
<1>4. Books'
  <2>1. Book(NoOrders, NothingYet, {}, NothingYet, broker)
    BY EmptyBook DEF AccountInv, Books
  <2> QED BY <1>1, <1>3, <2>1 DEF AccountInv, Books
<1>5. FreshInv'
  <2>1. Known' \subseteq Known
    BY <1>1, <1>2 DEF Known
  <2> QED BY <1>1, <2>1, FreshStays DEF AccountInv
<1>6. PcInv'
  BY <1>1, <1>2 DEF PcInv
<1>7. LoopTypeOK'
  BY <1>1, <1>2 DEF AccountInv, LoopTypeOK, Points, NewJournal
<1> QED BY <1>4, <1>5, <1>6, <1>7 DEF AccountInv

\* to_json and from_json change nothing.
LEMMA StartRestores ==
    ASSUME AccountInv, Start
    PROVE  orders' = disk.orders
<1>1. /\ disk.orders = [o \in DOMAIN disk.orders |-> disk.orders[o]]
      /\ \A o \in DOMAIN disk.orders : disk.orders[o] \in OrderRecords
  BY DEF AccountInv, Books, Book, BookType
<1>2. orders' = [o \in DOMAIN disk.orders |-> Restored(disk.orders[o])]
  BY DEF Start
<1>3. \A o \in DOMAIN disk.orders : Restored(disk.orders[o]) = disk.orders[o]
  BY <1>1, RestoredFields
<1> QED BY <1>1, <1>2, <1>3

LEMMA StartKeepsAccount ==
    ASSUME AccountInv, Start
    PROVE  AccountInv'
<1>1. /\ UNCHANGED <<asof, wasConnected, todo, fills, resolving, disk, ledger, broker>>
      /\ pc = "down" /\ pc' = "idle" /\ connected' = TRUE
      /\ journal' = [ids |-> ledger.ids, unsaved |-> FALSE]
      /\ booked' = disk.booked /\ items' = disk.items
      /\ needsResync' \in BOOLEAN /\ verified' \in BOOLEAN
  BY DEF Start
<1>2. orders' = disk.orders
  BY StartRestores
<1>3. Late' = NothingYet
  BY <1>1 DEF Late, NothingYet
<1>4. Books'
  BY <1>1, <1>2, <1>3 DEF AccountInv, Books
<1>5. FreshInv'
  <2>1. Known' \subseteq Known
    BY <1>1, <1>2 DEF Known
  <2> QED BY <1>1, <2>1, FreshStays DEF AccountInv
<1>6. PcInv'
  BY <1>1 DEF AccountInv, PcInv
<1>7. LoopTypeOK'
  BY <1>1, <1>6 DEF AccountInv, PcInv, LoopTypeOK, Points
<1> QED BY <1>4, <1>5, <1>6, <1>7 DEF AccountInv

\* The broker fills, closes, disconnects and reconnects: books stay books.
LEMMA BrokerNextMoves ==
    ASSUME BrokerOK(broker), BrokerNext
    PROVE  /\ BrokerOK(broker') /\ BrokerMoves(broker, broker')
           /\ DOMAIN broker' = DOMAIN broker
           /\ connected' \in {connected, TRUE, FALSE}
<1>1. ASSUME NEW o \in OpenAtBroker, NEW k \in 1 .. broker[o].qty, Fills(o, k)
      PROVE  BrokerOK(broker') /\ BrokerMoves(broker, broker') /\ DOMAIN broker' = DOMAIN broker
  <2>1. /\ o \in DOMAIN broker /\ broker[o].filled \in Nat /\ broker[o].qty \in Shares
        /\ broker[o].open \in BOOLEAN /\ k \in Nat
    BY DEF OpenAtBroker, BrokerOK, Shares
  <2>2. /\ DOMAIN broker' = DOMAIN broker
        /\ broker'[o] = [broker[o] EXCEPT !.filled = @ + k,
                                          !.open = @ /\ broker[o].filled + k < broker[o].qty]
        /\ \A x \in DOMAIN broker : x # o => broker'[x] = broker[x]
        /\ broker' = [x \in DOMAIN broker' |-> broker'[x]]
        /\ broker[o].filled + k <= broker[o].qty
    BY <1>1, <2>1 DEF Fills
  <2>3. /\ broker'[o] \in [qty : Shares, filled : Nat, open : BOOLEAN]
        /\ broker'[o].qty = broker[o].qty /\ broker'[o].filled = broker[o].filled + k
        /\ broker'[o].open = (broker[o].open /\ broker[o].filled + k < broker[o].qty)
    <3>1. broker[o] = [qty |-> broker[o].qty, filled |-> broker[o].filled, open |-> broker[o].open]
      BY <2>1 DEF BrokerOK
    <3>2. broker'[o] = [qty |-> broker[o].qty, filled |-> broker[o].filled + k,
                        open |-> broker[o].open /\ broker[o].filled + k < broker[o].qty]
      BY <2>2, <3>1
    <3>3. broker[o].filled + k \in Nat
      BY <2>1
    <3>4. /\ broker'[o].qty = broker[o].qty /\ broker'[o].filled = broker[o].filled + k
          /\ broker'[o].open = (broker[o].open /\ broker[o].filled + k < broker[o].qty)
      BY <3>2
    <3>5. broker'[o].open \in BOOLEAN
      BY <3>4
    <3>6. broker'[o] \in [qty : Shares, filled : Nat, open : BOOLEAN]
      BY <2>1, <3>2, <3>3
    <3> QED BY <3>4, <3>6
  <2>4. \A x \in DOMAIN broker : /\ broker[x] \in [qty : Shares, filled : Nat, open : BOOLEAN]
                                 /\ broker[x].filled <= broker[x].qty
                                 /\ broker[x].open => broker[x].filled < broker[x].qty
                                 /\ x \in OrderIds /\ broker[x].filled \in Nat
    BY DEF BrokerOK
  <2>5. \A x \in DOMAIN broker' : broker'[x] \in [qty : Shares, filled : Nat, open : BOOLEAN]
    BY <2>2, <2>3, <2>4
  <2>6. BrokerOK(broker')
    <3>1. broker'[o].open => broker[o].filled + k < broker[o].qty
      BY <2>3, Zenon
    <3>2. \A x \in DOMAIN broker' : broker'[x].filled <= broker'[x].qty
      BY <2>2, <2>3, <2>4
    <3>3. ASSUME NEW x \in DOMAIN broker', broker'[x].open
          PROVE  broker'[x].filled < broker'[x].qty
      <4>1. CASE x = o
        BY <2>3, <3>1, <3>3, <4>1
      <4>2. CASE x # o
        <5>1. x \in DOMAIN broker /\ broker'[x] = broker[x]
          BY <2>2, <4>2
        <5> QED BY <2>4, <3>3, <5>1
      <4> QED BY <4>1, <4>2
    <3>4. DOMAIN broker' \subseteq OrderIds
      BY <2>2, <2>4
    <3>5. broker' \in [DOMAIN broker' -> [qty : Shares, filled : Nat, open : BOOLEAN]]
      BY <2>2, <2>5
    <3> QED BY <3>2, <3>3, <3>4, <3>5 DEF BrokerOK
  <2>7. BrokerMoves(broker, broker')
    <3>1. ASSUME NEW x \in DOMAIN broker
          PROVE  broker'[x].qty = broker[x].qty /\ broker[x].filled <= broker'[x].filled
      <4>1. CASE x = o
        BY <2>1, <2>3, <4>1
      <4>2. CASE x # o
        BY <2>2, <2>4, <4>2
      <4> QED BY <4>1, <4>2
    <3> QED BY <2>2, <3>1 DEF BrokerMoves
  <2> QED BY <2>2, <2>6, <2>7
<1>2. ASSUME NEW o \in OpenAtBroker, Closes(o)
      PROVE  BrokerOK(broker') /\ BrokerMoves(broker, broker') /\ DOMAIN broker' = DOMAIN broker
  <2>1. /\ DOMAIN broker' = DOMAIN broker
        /\ broker'[o] = [broker[o] EXCEPT !.open = FALSE]
        /\ \A x \in DOMAIN broker : x # o => broker'[x] = broker[x]
        /\ broker' = [x \in DOMAIN broker' |-> broker'[x]] /\ o \in DOMAIN broker
    BY <1>2 DEF Closes, OpenAtBroker
  <2>2. \A x \in DOMAIN broker : /\ broker[x] \in [qty : Shares, filled : Nat, open : BOOLEAN]
                                 /\ broker[x].filled <= broker[x].qty
                                 /\ broker[x].open => broker[x].filled < broker[x].qty
                                 /\ x \in OrderIds
    BY DEF BrokerOK
  <2>3. /\ broker'[o] \in [qty : Shares, filled : Nat, open : BOOLEAN]
        /\ broker'[o].qty = broker[o].qty /\ broker'[o].filled = broker[o].filled
        /\ broker'[o].open = FALSE
    BY <2>1, <2>2
  <2>4. \A x \in DOMAIN broker' : broker'[x] \in [qty : Shares, filled : Nat, open : BOOLEAN]
    BY <2>1, <2>2, <2>3
  <2>5. BrokerOK(broker')
    BY <2>1, <2>2, <2>3, <2>4 DEF BrokerOK
  <2>6. BrokerMoves(broker, broker')
    BY <2>1, <2>2, <2>3 DEF BrokerMoves
  <2> QED BY <2>1, <2>5, <2>6
<1>3. ASSUME UNCHANGED broker
      PROVE  BrokerOK(broker') /\ BrokerMoves(broker, broker') /\ DOMAIN broker' = DOMAIN broker
  BY <1>3 DEF BrokerMoves, BrokerOK
<1>4. \/ \E o \in OpenAtBroker : Closes(o) \/ \E k \in 1 .. broker[o].qty : Fills(o, k)
      \/ UNCHANGED broker
  BY DEF BrokerNext, Disconnects, Reconnects
<1>5. connected' \in {connected, TRUE, FALSE}
  BY DEF BrokerNext, Fills, Closes, Disconnects, Reconnects
<1> QED BY <1>1, <1>2, <1>3, <1>4, <1>5

LEMMA EnvironmentKeepsAccount ==
    ASSUME AccountInv, Environment
    PROVE  AccountInv'
<1>1. /\ BrokerNext
      /\ UNCHANGED <<pc, asof, orders, booked, items, needsResync, wasConnected, todo, fills,
                     resolving, disk, audit, verified>>
  BY DEF Environment, memory
<1>2. BrokerOK(broker) /\ Book(orders, booked, items, Late, broker)
  BY DEF AccountInv, Books
<1>3. /\ BrokerOK(broker') /\ BrokerMoves(broker, broker') /\ DOMAIN broker' = DOMAIN broker
      /\ connected' \in {connected, TRUE, FALSE}
  BY <1>1, <1>2, BrokerNextMoves
<1>4. Late' = Late /\ Late \in [OrderIds -> Nat]
  BY <1>1, LateIsTyped DEF Late, AccountInv
<1>5. Books'
  <2>1. Book(orders, booked, items, Late, broker')
    BY <1>2, <1>3, <1>4, BookSurvivesTheBroker
  <2>2. Book(disk.orders, disk.booked, disk.items, NothingYet, broker')
    BY <1>2, <1>3, NothingIsTyped, BookSurvivesTheBroker DEF AccountInv, Books
  <2> QED BY <1>1, <1>3, <1>4, <2>1, <2>2 DEF Books
<1>6. FreshInv'
  <2>1. Known' \subseteq Known
    BY <1>1, <1>3 DEF Known
  <2> QED BY <1>1, <2>1, FreshStays DEF AccountInv
<1>7. PcInv' /\ LoopTypeOK'
  BY <1>1, <1>3 DEF AccountInv, PcInv, LoopTypeOK, audit
<1> QED BY <1>5, <1>6, <1>7 DEF AccountInv

\* Every step preserves the invariant.
LEMMA NextKeepsAccount ==
    ASSUME StackInv, AccountInv, [Next]_vars
    PROVE  AccountInv'
<1>1. CASE SkipResync \/ PriceFails \/ PlanNothing \/ StateStoreFails \/ RecordCycle
  BY <1>1, CycleStepKeepsAccount
<1>2. CASE \E read \in Reads : Resync(read)
  BY <1>2, ResyncKeepsAccount
<1>3. CASE PlanSome
  BY <1>3, PlanKeepsAccount DEF PlanSome
<1>4. CASE Submit
  BY <1>4, SubmitKeepsAccount
<1>5. CASE FinishOrders
  BY <1>5, FinishOrdersKeepsAccount
<1>6. CASE Persist
  BY <1>6, PersistKeepsAccount
<1>7. CASE \E i \in items : Accept(i) \/ AcceptUnaudited(i)
  BY <1>7, AcceptKeepsAccount
<1>8. CASE FinishAccept \/ \E i \in items : Reject(i)
  BY <1>8, ResolveKeepsAccount
<1>9. CASE Crash
  BY <1>9, CrashKeepsAccount
<1>10. CASE Start
  BY <1>10, StartKeepsAccount
<1>11. CASE Environment
  BY <1>11, EnvironmentKeepsAccount
<1>12. CASE StartRefused \/ UNCHANGED vars
  <2>1. UNCHANGED <<pc, asof, orders, booked, items, needsResync, wasConnected, todo, fills,
                    resolving, disk, ledger, journal, verified, broker, connected>>
    BY <1>12 DEF StartRefused, vars, memory, audit, brokerVars
  <2>2. Late' = Late /\ Known' = Known
    BY <2>1 DEF Late, Known
  <2> QED BY <2>1, <2>2 DEF AccountInv, LoopTypeOK, PcInv, FreshInv, Books
<1> QED
  BY <1>1, <1>2, <1>3, <1>4, <1>5, <1>6, <1>7, <1>8, <1>9, <1>10, <1>11, <1>12
  DEF Next, Service, Operator
\* So it holds of every behaviour.
LEMMA AccountInvEver == Spec => [](StackInv /\ AccountInv)
<1>1. Init => StackInv /\ AccountInv
  <2> SUFFICES ASSUME Init PROVE StackInv /\ AccountInv
    OBVIOUS
  <2>1. /\ pc = "idle" /\ asof = 0 /\ orders = NoOrders /\ booked = NothingYet /\ items = {}
        /\ needsResync = FALSE /\ wasConnected = FALSE /\ todo = {} /\ fills = NoOrders
        /\ resolving = {} /\ verified = TRUE /\ connected = TRUE
        /\ disk.orders = NoOrders /\ disk.booked = NothingYet /\ disk.items = {}
        /\ ledger = [qty |-> NothingYet, ids |-> {}, broken |-> FALSE]
        /\ journal = [ids |-> {}, unsaved |-> FALSE]
        /\ DOMAIN broker = {} /\ broker = NoOrders
    BY DEF Init, Blank, NewJournal, BrokerInit, NoOrders
  <2>2. DOMAIN NoOrders = {} /\ NoOrders \in [{} -> Shares]
    BY DEF NoOrders
  <2>3. StackInv
    BY <2>1, <2>2 DEF StackInv, Settled, OneCycle, InFlight, TodoIsCurrent
  <2>4. BrokerOK(broker)
    BY <2>1, <2>2 DEF BrokerOK, NoOrders
  <2>5. Late = NothingYet
    BY <2>1 DEF Late, NothingYet
  <2>6. Books
    BY <2>1, <2>4, <2>5, EmptyBook DEF Books
  <2>7. FreshInv
    BY <2>1, <2>2 DEF FreshInv, Known
  <2>8. LoopTypeOK /\ PcInv
    <3>1. /\ ledger \in [qty : [OrderIds -> Nat], ids : SUBSET (OrderIds \X Shares),
                         broken : BOOLEAN]
          /\ journal \in [ids : SUBSET (OrderIds \X Shares), unsaved : BOOLEAN]
      BY <2>1, NothingIsTyped
    <3>2. pc \in Points /\ asof \in 0 .. MaxAsof
      BY <2>1, BoundsAssumption DEF Points
    <3> QED BY <2>1, <2>2, <3>1, <3>2 DEF LoopTypeOK, PcInv
  <2> QED BY <2>3, <2>6, <2>7, <2>8 DEF AccountInv
<1>2. StackInv /\ AccountInv /\ [Next]_vars => (StackInv /\ AccountInv)'
  BY NextKeepsStackInv, NextKeepsAccount
<1> QED BY <1>1, <1>2, PTL DEF Spec

\* Every variable of the loop, of the disk, the ledger and the broker has its
\* type: for one, no sum of slices, fills and reconciliations leaves the naturals.
THEOREM TypesHold == Spec => []TypeOK
<1>1. StackInv /\ AccountInv => TypeOK
  BY AccountInvTypes
<1> QED BY <1>1, AccountInvEver, PTL

\* The held-book flow (_surface_discovered_fill, _achieved_weights,
\* resolve_reconciliation, _restore_loop_state): for any fault, any read of the
\* broker's order book and a crash anywhere, the filled quantity of an order in
\* flight is what the held book has of it, what this cycle will book, and what
\* waits for the operator or was refused by him.
THEOREM FillsAreAccountedForEver == Spec => []FillsAreAccountedFor
<1>1. StackInv /\ AccountInv => FillsAreAccountedFor
  <2> SUFFICES ASSUME AccountInv, NEW o \in Pending
               PROVE  orders[o].filled = booked[o] + DeltaIn(o, {"OPEN", "REJECTED"})
                        + IF o \in DOMAIN fills /\ pc = "submitting" THEN fills[o] ELSE 0
    BY DEF FillsAreAccountedFor
  <2>1. o \in DOMAIN orders /\ o \in OrderIds
    BY DEF Pending, AccountInv, Books, Book, BookType
  <2>2. Late[o] = IF o \in DOMAIN fills /\ pc = "submitting" THEN fills[o] ELSE 0
    BY <2>1 DEF Late
  <2>3. orders[o].filled = booked[o] + DeltaOf(items, o, {"OPEN", "REJECTED"}) + Late[o]
    BY <2>1 DEF AccountInv, Books, Book, Balanced
  <2> QED BY <2>2, <2>3 DEF DeltaIn
<1> QED BY <1>1, AccountInvEver, PTL

\* The other direction: what the held book has of an order, and would have if
\* every open item were accepted, the broker really filled.
THEOREM BookIsRealEver == Spec => []BookIsReal
<1>1. StackInv /\ AccountInv => BookIsReal
  <2> SUFFICES ASSUME AccountInv, NEW o \in OrderIds
               PROVE  booked[o] + DeltaIn(o, {"OPEN"}) <= FilledAtBroker[o]
    BY DEF BookIsReal
  <2>1. Late \in [OrderIds -> Nat] /\ BrokerOK(broker) /\ Book(orders, booked, items, Late, broker)
    BY LateIsTyped DEF AccountInv, Books
  <2>2. /\ booked[o] \in Nat /\ Late[o] \in Nat /\ FilledIn(broker, o) \in Nat
        /\ DeltaOf(items, o, {"OPEN"}) \in Nat
        /\ booked[o] + DeltaOf(items, o, {"OPEN"}) + Late[o] <= FilledIn(broker, o)
    BY <2>1, BookNumbers
  <2>3. FilledAtBroker[o] = FilledIn(broker, o)
    BY DEF FilledAtBroker, FilledIn
  <2> QED BY <2>2, <2>3 DEF DeltaIn
<1> QED BY <1>1, AccountInvEver, PTL
==============================================================================
