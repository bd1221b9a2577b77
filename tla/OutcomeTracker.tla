--------------------------- MODULE OutcomeTracker ---------------------------
(***************************************************************************)
(* learning/performance_tracker.py and its part of ops/persistence.py, for *)
(* one symbol: the open predictions, the prices recorded for it and the    *)
(* outcomes resolved so far, as operators over a tracker record            *)
(*   [preds    : set of [anchor, x, resolved],                             *)
(*    bars     : set of bar times with a recorded price,                   *)
(*    outcomes : number of outcomes per <<anchor, horizon>>].              *)
(* A price is identified by the time of its bar; a feature row is "ok",    *)
(* "inf" (a value the learners refuse) or "none" (no row, no example).     *)
(***************************************************************************)
EXTENDS Naturals, FiniteSets, FiniteSetsExt, SequencesExt

CONSTANTS Horizons,   \* the resolution horizons, in days (1, 5, 10, 20)
          MaxTime     \* bound: the last decision time
ASSUME TrackerAssumption ==
    Horizons \subseteq Nat \ {0} /\ IsFiniteSet(Horizons) /\ MaxTime \in Nat

Times == 1..MaxTime

EmptyTracker == [preds    |-> {},
                 bars     |-> {},
                 outcomes |-> [o \in Times \X Horizons |-> 0]]

RecordPrediction(t, anchor, x) ==
    [t EXCEPT !.preds = @ \union {[anchor |-> anchor, x |-> x, resolved |-> {}]}]

RecordPrice(t, bar) == [t EXCEPT !.bars = @ \union {bar}]

BarsUpTo(t, time) == {b \in t.bars : b <= time}

\* The most recent price with timestamp <= time; 0 when there is none.
PriceAsof(t, time) == IF BarsUpTo(t, time) = {} THEN 0 ELSE Max(BarsUpTo(t, time))

\* Mutant: any price will do.
HasAnyPrice(t, time) == t.bars # {}

HasElapsed(t, time) == \E b \in t.bars : b >= time

\* The horizons of a prediction evaluate_signal resolves now.
Resolvable(t, p) ==
    {h \in Horizons \ p.resolved :
        /\ PriceAsof(t, p.anchor) # 0
        /\ HasElapsed(t, p.anchor + h)}

Example(t, p) ==
    [anchor |-> p.anchor, x |-> p.x,
     base   |-> PriceAsof(t, p.anchor),
     future |-> PriceAsof(t, p.anchor + 1),
     seen   |-> Max(t.bars)]

\* Predictions in the order they were recorded, which is that of their times.
InOrder(preds) ==
    CHOOSE order \in [1 .. Cardinality(preds) -> preds] :
        \A i, j \in 1 .. Cardinality(preds) : i < j => order[i].anchor < order[j].anchor

\* The rows evaluate_signal hands to record_training_example, in the order the
\* predictions were recorded: the 1d outcomes of predictions with features.
NewExamples(t) ==
    LET taught == {p \in t.preds : 1 \in Resolvable(t, p) /\ p.x # "none"}
        order  == InOrder(taught)
    IN  [i \in DOMAIN order |-> Example(t, order[i])]

\* Mutant: a resolved horizon is not marked on its prediction.
EvaluateUnmarked(t) ==
    [t EXCEPT !.outcomes =
        [o \in DOMAIN @ |-> @[o] + Cardinality(
            {p \in t.preds : p.anchor = o[1] /\ o[2] \in Resolvable(t, p)})]]

EvaluateSignal(t) ==
    [t EXCEPT
        !.preds    = {[p EXCEPT !.resolved = @ \union Resolvable(t, p)] : p \in t.preds},
        !.outcomes = [o \in DOMAIN @ |-> @[o] + Cardinality(
            {p \in t.preds : p.anchor = o[1] /\ o[2] \in Resolvable(t, p)})]]

-----------------------------------------------------------------------------
(* Persistence: the deterministic retention prune of _dump_tracker.        *)

NewestTimestamp(t) ==
    Max({0} \union t.bars \union {p.anchor : p \in t.preds}
            \union {o[1] + o[2] : o \in {u \in DOMAIN t.outcomes : t.outcomes[u] > 0}})

DumpTracker(t, retention) ==
    LET Keep(time) == time + retention >= NewestTimestamp(t)
    IN  [preds    |-> {p \in t.preds : Keep(p.anchor)},
         bars     |-> {b \in t.bars : Keep(b)},
         outcomes |-> [o \in DOMAIN t.outcomes |->
                          IF Keep(o[1] + o[2]) THEN t.outcomes[o] ELSE 0]]
=============================================================================
