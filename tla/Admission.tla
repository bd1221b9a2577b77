------------------------------ MODULE Admission ------------------------------
(***************************************************************************)
(* STEPs 5 to 8: which symbols the signal sleeves score, which have        *)
(* features to predict on, and which the meta-labeller admits and at what  *)
(* size.  Probabilities, confidences, weights and order-flow imbalances    *)
(* are in percent; returns, costs and edges in basis points.               *)
(***************************************************************************)
EXTENDS Integers, FiniteSetsExt

Clip(x, lo, hi) == Max({lo, Min({x, hi})})

(***************************************************************************)
(* STEP 5: sleeve_health_weight, apply_signal_health, ofi_filter_gate      *)
(***************************************************************************)
\* A sleeve's registered ValidationResult: none, one that selection_rule refuses,
\* or one it passes with a stability under or over STABILITY_FLOOR.
Validations == {"none", "refused", "unstable", "stable"}

UnvalidatedWeight(mode) == IF mode = "LIVE" THEN 0 ELSE 25

\* A bug: the floor of PAPER serves LIVE too.
SleeveWeightFloored(validation, mode) ==
    CASE validation = "refused"  -> 0
      [] validation = "unstable" -> 50
      [] validation = "stable"   -> 100
      [] OTHER                   -> 25

SleeveWeight(validation, mode) ==
    CASE validation = "refused"  -> 0
      [] validation = "unstable" -> 50
      [] validation = "stable"   -> 100
      [] OTHER                   -> UnvalidatedWeight(mode)

OfiGate(direction, ofi) ==
    /\ direction = "BUY"  => ofi >= -30
    /\ direction = "SELL" => ofi <= 30

\* The symbols with a signal score: a name some enabled sleeve has a direction for,
\* either direction, that the order flow does not veto.
Scored(signals, validation, ofi, mode) ==
    {s \in DOMAIN ofi : \E sleeve \in DOMAIN signals :
        /\ SleeveWeight(validation[sleeve], mode) > 0
        /\ signals[sleeve][s] # "FLAT"
        /\ OfiGate(signals[sleeve][s], ofi[s])}

(***************************************************************************)
(* STEP 6: feature_store.get_features                                      *)
(***************************************************************************)
\* The newest eligible row of a symbol: none (or none at or before asof), too old,
\* old for one of its features only, marked stale by its contract, or fresh.
RowStates == {"none", "old", "feature_old", "flagged", "fresh"}

\* In LIVE one bad row refuses the whole universe.
RetrievalRaises(rows, mode, perFeature) ==
    mode = "LIVE" /\ \E s \in DOMAIN rows :
        rows[s] \in {"none", "old", "flagged"} \cup (IF perFeature THEN {"feature_old"} ELSE {})

\* STEP 6 wraps get_features in _safe: when it raises, a frame without columns.
Served(rows, mode, perFeature) ==
    IF RetrievalRaises(rows, mode, perFeature) THEN {}
    ELSE {s \in DOMAIN rows : rows[s] # "none"}

(***************************************************************************)
(* STEP 8: meta_labeler.compute                                            *)
(***************************************************************************)
\* SAFE_FALLBACK, what an unfitted model or a failed prediction returns.
SafeFallback == [mu |-> 0, up |-> 50, tail |-> 10, confidence |-> 0]

MinEdge(execution) ==
    CASE execution = "stressed_exec" -> 20 [] execution = "cautious_exec" -> 15 [] OTHER -> 10

\* Half a basis point of penalty per percent of tail probability: the edge is doubled.
TwiceEdge(p, cost) == 2 * p.mu - 2 * cost - p.tail

\* The marginal band: in a stressed market the edge must be half as large again.
TakeTrade(p, cost, execution) ==
    /\ p.up >= 55 /\ p.tail <= 25 /\ p.confidence >= 35
    /\ TwiceEdge(p, cost) >= 2 * MinEdge(execution)
    /\ execution = "stressed_exec" => TwiceEdge(p, cost) >= 3 * MinEdge(execution)

SizeMultiplier(p, liquidity, crowding) ==
    Clip(((p.up - p.tail) * p.confidence * Clip(liquidity, 50, 100) * Clip(100 - crowding, 50, 100))
             \div 1000000, 0, 100)
=============================================================================
