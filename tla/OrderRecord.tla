----------------------------- MODULE OrderRecord -----------------------------
(***************************************************************************)
(* One order of execution/order_lifecycle.py: its status graph and what    *)
(* each OrderLifecycle method does to a record.  The operators are pure;   *)
(* OrderLifecycle (the class) and LiveTrading (the class inside the live   *)
(* loop) build their actions from them.                                    *)
(*                                                                         *)
(* Quantities are whole units, so the code's 1e-9 slack disappears; the    *)
(* broker's own order id is abstracted to whether it is known.             *)
(***************************************************************************)
EXTENDS Naturals

CONSTANT FillIds    \* the broker's fill (execution) ids

\* What an order may be approved for.
Shares == Nat \ {0}

TerminalStates == {"FILLED", "CANCELLED", "REJECTED", "EXPIRED"}

\* The order may be live at the broker.
ResubmitBlockingStates ==
    {"SUBMIT_PENDING", "SUBMISSION_UNCERTAIN", "ACKED", "WORKING",
     "PARTIALLY_FILLED", "CANCEL_PENDING", "BROKER_UNKNOWN",
     "RECONCILIATION_HOLD"}

OrderStatus ==
    {"CREATED", "VALIDATED", "RISK_APPROVED"}
        \cup ResubmitBlockingStates \cup TerminalStates

\* The broker never confirmed that it has the order.
Unconfirmed == {"SUBMISSION_UNCERTAIN", "BROKER_UNKNOWN"}

ResyncResolvable == Unconfirmed \cup {"ACKED", "WORKING", "PARTIALLY_FILLED"}

\* What a resync can be told: a status it maps, one it does not know, or nothing.
ResyncStatuses ==
    {"ACKED", "WORKING", "PARTIALLY_FILLED", "RECONCILIATION_HOLD"}
        \cup TerminalStates
BrokerTruth == ResyncStatuses \cup {"UNRECOGNISED", "NO_RECORD"}

Allowed(s) ==
    CASE s = "CREATED"       -> {"VALIDATED", "REJECTED"}
      [] s = "VALIDATED"     -> {"RISK_APPROVED", "REJECTED"}
      [] s = "RISK_APPROVED" -> {"SUBMIT_PENDING", "REJECTED"}
      [] s = "SUBMIT_PENDING" ->
            {"ACKED", "WORKING", "SUBMISSION_UNCERTAIN", "REJECTED", "FILLED",
             "PARTIALLY_FILLED", "BROKER_UNKNOWN"}
      [] s = "SUBMISSION_UNCERTAIN" ->
            {"ACKED", "WORKING", "PARTIALLY_FILLED", "BROKER_UNKNOWN",
             "RECONCILIATION_HOLD"} \cup TerminalStates
      [] s = "ACKED" ->
            {"WORKING", "PARTIALLY_FILLED", "CANCEL_PENDING", "BROKER_UNKNOWN",
             "RECONCILIATION_HOLD"} \cup TerminalStates
      [] s \in {"WORKING", "PARTIALLY_FILLED"} ->
            {"PARTIALLY_FILLED", "CANCEL_PENDING", "BROKER_UNKNOWN",
             "RECONCILIATION_HOLD"} \cup TerminalStates
      [] s = "CANCEL_PENDING" ->
            {"CANCELLED", "PARTIALLY_FILLED", "FILLED", "EXPIRED",
             "BROKER_UNKNOWN"}
      [] s = "BROKER_UNKNOWN" ->
            {"ACKED", "WORKING", "PARTIALLY_FILLED", "RECONCILIATION_HOLD"}
                \cup TerminalStates
      [] s = "RECONCILIATION_HOLD" ->
            {"WORKING", "PARTIALLY_FILLED"} \cup TerminalStates
      [] OTHER -> {}

\* _transition: staying put is a no-op, anything else must be allowed.
CanMove(s, to) == to = s \/ to \in Allowed(s)

OrderRecords ==
    [status : OrderStatus, approved : Shares, filled : Nat,
     brokerId : BOOLEAN, seen : SUBSET FillIds, overfill : BOOLEAN,
     commissions : Nat]

Terminal(r) == r.status \in TerminalStates

NewRecord(q) ==
    [status |-> "CREATED", approved |-> q, filled |-> 0, brokerId |-> FALSE,
     seen |-> {}, overfill |-> FALSE, commissions |-> 0]

Smaller(a, b) == IF a <= b THEN a ELSE b

Moved(r, to) == [r EXCEPT !.status = to]

WithBrokerId(r) == [r EXCEPT !.brokerId = TRUE]

WithCommission(r) == [r EXCEPT !.commissions = @ + 1]

\* reconcile_broker_fill: adopt a larger broker quantity, clamped, no status change.
WithBrokerFill(r, q) ==
    LET clamped == Smaller(q, r.approved)
    IN  IF clamped > r.filled THEN [r EXCEPT !.filled = clamped] ELSE r

\* record_fill: where the status goes once the quantity is in.
FillStatus(r, filled) ==
    LET target == IF filled >= r.approved THEN "FILLED" ELSE "PARTIALLY_FILLED"
    IN  IF CanMove(r.status, target) THEN target ELSE r.status

\* A bug: a redelivered fill counts again.
WithRedeliveredFill(r, f, q) ==
    LET filled == Smaller(r.filled + q, r.approved)
    IN  [r EXCEPT !.seen     = @ \cup {f},
                  !.filled   = filled,
                  !.overfill = @ \/ r.filled + q > r.approved,
                  !.status   = FillStatus(r, filled)]

\* record_fill
WithFill(r, f, q) ==
    LET filled == Smaller(r.filled + q, r.approved)
    IN  IF f \in r.seen
        THEN r
        ELSE [r EXCEPT !.seen     = @ \cup {f},
                       !.filled   = filled,
                       !.overfill = @ \/ r.filled + q > r.approved,
                       !.status   = FillStatus(r, filled)]

\* Bugs: resync writes what the broker says without asking the graph, or takes
\* a missing entry for the order's death.
ResyncStatusUnchecked(s, truth) ==
    LET target == IF truth = "NO_RECORD" THEN "RECONCILIATION_HOLD" ELSE truth
    IN  IF s \in ResyncResolvable /\ (truth = "NO_RECORD" => s \in Unconfirmed)
        THEN target ELSE s
ResyncStatusAssumingDeath(s, truth) ==
    LET target == IF truth = "NO_RECORD" THEN "CANCELLED" ELSE truth
    IN  IF s \in ResyncResolvable /\ truth # "UNRECOGNISED" /\ CanMove(s, target)
        THEN target ELSE s

\* resync: the status one record ends with when the broker says `truth`.  A
\* missing entry parks only an order the broker never confirmed.
ResyncStatus(s, truth) ==
    LET target == IF truth = "NO_RECORD" THEN "RECONCILIATION_HOLD" ELSE truth
        heeded == /\ s \in ResyncResolvable
                  /\ truth = "NO_RECORD" => s \in Unconfirmed
                  /\ truth # "UNRECOGNISED"
                  /\ CanMove(s, target)
    IN  IF heeded THEN target ELSE s

Resynced(r, truth) == Moved(r, ResyncStatus(r.status, truth))

\* A bug: the fill ids are not saved.
RestoredWithoutFillIds(r) == [r EXCEPT !.seen = {}]

\* to_json then from_json: every field but the wording of the history survives.
Restored(r) ==
    [status |-> r.status, approved |-> r.approved, filled |-> r.filled,
     brokerId |-> r.brokerId, seen |-> r.seen, overfill |-> r.overfill,
     commissions |-> r.commissions]

\* A bug: an acknowledged order may be submitted again.
CanResubmitAcked(r) == r.status = "REJECTED" /\ r.filled = 0

\* can_resubmit
CanResubmit(r) == r.status = "REJECTED" /\ ~r.brokerId /\ r.filled = 0
=============================================================================
