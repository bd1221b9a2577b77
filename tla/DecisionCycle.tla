---------------------------- MODULE DecisionCycle ----------------------------
(***************************************************************************)
(* core/engine/engine.py, _run_cycle: the thirteen steps as a pipeline     *)
(* from a cycle's inputs to the book it achieves.  One cycle, from any     *)
(* held book and any inputs: cycles chain by carrying `achieved` as the    *)
(* next `held`.  STEP 12's order handling in LIVE is LiveTrading's; here   *)
(* the broker fills any part of what is sent.  STEPs 3 and 13 decide       *)
(* nothing in the cycle (STEP 13 is Learning's).                           *)
(***************************************************************************)
EXTENDS MarketState, Admission, Optimizer, RiskGate, TLC

CONSTANTS
    Symbols,            \* inputs.symbols
    Sleeves,            \* signal sleeves
    Modes,              \* modes of the engine
    Books,              \* inputs.current_weights
    Readings,           \* market readings STEP 2 takes
    Signals,            \* what a sleeve may say of the symbols
    Flows,              \* order-flow imbalances
    Rows,               \* feature-store states
    Predictions,        \* what a fitted model may return
    Costs,              \* ex-ante costs; 10 when the cost model raises
    Vols, Risks,        \* volatilities and tails of an unlevered book
    Drawdowns,          \* inputs.drawdown_current
    KillContexts,       \* inputs.kill_context
    PaperTakes,         \* what PAPER can fill of one slice, in basis points of capital
    Slippage            \* of a PAPER fill, in basis points of the price

\* A held book is long-only.
ASSUME BooksAssumption == \A book \in Books : \A s \in DOMAIN book : book[s] \in Nat

\* Volatilities are not negative; a tail is a share of the gross, hedged by one of the
\* names or by none; PAPER fills no more than the volume, at a price that stays positive.
ASSUME CycleAssumption ==
    /\ IsFiniteSet(Symbols) /\ Unhedged \notin Symbols
    /\ Vols \subseteq Nat
    /\ Risks \subseteq [hedge : Symbols \cup {Unhedged}, unit : 0 .. 100]
    /\ Predictions \subseteq [mu : Int, up : Int, tail : Int, confidence : Int]
    /\ PaperTakes \subseteq Nat /\ Slippage \in 0 .. Whole

\* The order flow is read for the cycle's symbols.
ASSUME FlowsAssumption == \A ofi \in Flows : DOMAIN ofi \subseteq Symbols

VARIABLES
    pc,         \* the next step
    mode,
    invalid,    \* STEP 1's hard_block
    market,     \* STEP 2: the assessment and the execution regime
    signals,    \* STEP 5: the scored symbols, and those a passing sleeve backs
    served,     \* STEP 6: the symbols with features
    sizes,      \* STEP 8: the size multiplier of each admitted symbol
    held,       \* the book the cycle starts from
    opt,        \* STEP 9: the optimiser's result, weights multiplied
    gate,       \* STEP 10: the verdict and its reasons
    target,     \* STEP 10: the book to trade to
    achieved,   \* STEP 12: the book reconciled from the fills
    sent        \* live_orders_submitted is positive

cycleVars == <<pc, mode, invalid, market, signals, served, sizes, held, opt, gate, target, achieved, sent>>

NoBook    == <<>>
Weight(book, s) == IF s \in DOMAIN book THEN book[s] ELSE 0
Weights(book) == [s \in Symbols |-> Weight(book, s)]

Calm      == [severity |-> 0, defensive |-> FALSE, assessed |-> TRUE, execution |-> "normal_exec"]
NoSignals == [scored |-> {}, backed |-> {}]
EmptyOpt  == [weights |-> NoBook, risk |-> [hedge |-> Unhedged, unit |-> 0], cvar |-> 0,
              relaxed |-> FALSE, dusted |-> FALSE, path |-> "none"]
NoGate    == [approved |-> FALSE, hardStop |-> FALSE, breach |-> FALSE]

CycleInit ==
    /\ pc = "ingest" /\ mode \in Modes
    /\ invalid = FALSE /\ market = Calm /\ signals = NoSignals /\ served = {}
    /\ sizes = NoBook /\ held = NoBook /\ opt = EmptyOpt /\ gate = NoGate
    /\ target = NoBook /\ achieved = NoBook /\ sent = FALSE

(***************************************************************************)
(* STEP 1: a contract that fails validate_for_mode blocks LIVE.            *)
(***************************************************************************)
IngestAndValidate ==
    /\ pc = "ingest"
    /\ \E errors \in BOOLEAN : invalid' = (mode = "LIVE" /\ errors)
    /\ pc' = "market"
    /\ UNCHANGED <<mode, market, signals, served, sizes, held, opt, gate, target, achieved, sent>>

(***************************************************************************)
(* STEP 2: a regime detection that raises is mean_reverting; a crisis      *)
(* assessment that raises is the worst crisis.                             *)
(***************************************************************************)
DetectRegime(measurable, stressed, trending) ==
    HeuristicRegime(measurable, stressed, trending)

BuildMarketState ==
    /\ pc = "market"
    /\ \E r \in Readings, measurable \in BOOLEAN, stressed \in {40, 66}, trending \in BOOLEAN :
         \E regime \in {DetectRegime(measurable, stressed, trending), "mean_reverting"} :
           \E assessed \in BOOLEAN :
             LET crisis == IF assessed THEN Assess(r, regime) ELSE AssessmentFailed
             IN market' = [severity |-> crisis.severity,
                        defensive |-> crisis.defensive,
                        assessed  |-> assessed,
                        execution |-> ExecutionRegime(r.spread,
                            IF r.volRatio = Missing THEN 100 ELSE r.volRatio,
                            r.participation, r.minutes)]
    /\ pc' = "signals"
    /\ UNCHANGED <<mode, invalid, signals, served, sizes, held, opt, gate, target, achieved, sent>>

(***************************************************************************)
(* STEPs 4 and 5                                                           *)
(***************************************************************************)
ScoreSignals ==
    /\ pc = "signals"
    /\ \E said \in [Sleeves -> Signals], validation \in [Sleeves -> Validations], ofi \in Flows :
         signals' = [scored |-> Scored(said, validation, ofi, mode),
                     backed |-> {s \in Symbols : \E sleeve \in Sleeves :
                                    /\ said[sleeve][s] # "FLAT"
                                    /\ validation[sleeve] \in {"unstable", "stable"}}]
    /\ pc' = "admit"
    /\ UNCHANGED <<mode, invalid, market, served, sizes, held, opt, gate, target, achieved, sent>>

(***************************************************************************)
(* STEPs 6 to 8: a fitted model predicts on whatever vector STEP 6 left,   *)
(* all zeros for a symbol without features.  Scores are not read again     *)
(* when a symbol is admitted, but for the tilt of the optimiser.           *)
(***************************************************************************)
Admitted(predicted, cost, execution) ==
    {s \in Symbols : TakeTrade(predicted[s], cost, execution)}

Admit ==
    /\ pc = "admit"
    /\ \E rows \in Rows, fitted \in BOOLEAN, cost \in Costs \cup {10} :
         \E predicted \in [Symbols -> IF fitted THEN Predictions ELSE {SafeFallback}] :
           LET admitted == Admitted(predicted, cost, market.execution)
           IN  /\ served' = Served(rows, mode, TRUE)
               /\ sizes' = [s \in admitted |-> SizeMultiplier(predicted[s], 100, 0)]
               /\ signals' = IF admitted = {} THEN signals ELSE NoSignals
    /\ pc' = "optimise"
    /\ UNCHANGED <<mode, invalid, market, held, opt, gate, target, achieved, sent>>

(***************************************************************************)
(* STEP 9: the admitted names; or the long-biased baseline over the scored *)
(* ones, unless the market is defensive; or cash.  The optimiser raising   *)
(* is cash too.  Only admitted names are multiplied by their conviction.   *)
(***************************************************************************)
\* A bug: the baseline deploys in a crisis.
RouteIgnoringCrisis(sz, sg, mk) ==
    IF DOMAIN sz # {} THEN [path |-> "admitted", names |-> DOMAIN sz]
    ELSE IF sg.scored # {} THEN [path |-> "baseline", names |-> sg.scored]
    ELSE [path |-> "none", names |-> {}]

Route(sz, sg, mk) ==
    IF DOMAIN sz # {} THEN [path |-> "admitted", names |-> DOMAIN sz]
    ELSE IF sg.scored # {} /\ ~mk.defensive THEN [path |-> "baseline", names |-> sg.scored]
    ELSE [path |-> "none", names |-> {}]

Multiplied(weights, sz) ==
    [s \in DOMAIN weights |->
        IF s \in DOMAIN sz THEN (weights[s] * sz[s]) \div 100 ELSE weights[s]]

Optimise ==
    /\ pc = "optimise"
    /\ held' \in Books
    /\ LET route == Route(sizes, signals, market)
       IN  \/ /\ route.path # "none"
              /\ \E result \in OptimisedBooks(route.names, Weights(held'), CrisisScalars(market.severity),
                                              market.defensive, Vols, Risks) :
                    opt' = [weights |-> Multiplied(result.weights, sizes), risk |-> result.risk,
                            cvar |-> result.cvar, relaxed |-> result.relaxed,
                            dusted |-> result.dusted, path |-> route.path]
           \/ opt' = EmptyOpt
    /\ pc' = "gate"
    /\ UNCHANGED <<mode, invalid, market, signals, served, sizes, gate, target, achieved, sent>>

(***************************************************************************)
(* STEP 10: the hard limits look at the multiplied book and at the CVaR    *)
(* the optimiser reported before it was multiplied.                        *)
(***************************************************************************)
OverLimit(result) ==
    \/ \E s \in DOMAIN result.weights : 100 * result.weights[s] > MaxPositionWeight * Max({100, MaxLeverage})
    \/ 100 * Total(result.weights) > Whole * MaxLeverage
    \/ result.cvar > CvarLimit

\* _drawdown_scale, in percent.
DrawdownScale(level) ==
    CASE level = "SOFT" -> 80 [] level = "MEDIUM" -> 70 [] level = "HARD" -> 40
      [] level = "KILL" -> 0 [] OTHER -> 100

\* A bug: STEP 1's block is not carried to the gate's approval.
ApprovedAnyway(verdict) == verdict.approved

Approved(verdict) == verdict.approved /\ ~invalid

PretradeRiskGate ==
    /\ pc = "gate"
    /\ \E dd \in Drawdowns, ctx \in KillContexts :
         LET killed == KillReasons(ctx, mode) # {}
         IN  \E verdict \in {Gate(killed, dd, OverLimit(opt)), GateError} :
               /\ gate' = [approved |-> Approved(verdict), hardStop |-> verdict.hardStop,
                           breach |-> OverLimit(opt)]
               /\ target' = IF verdict.approved
                            THEN Times(opt.weights, DrawdownScale(DrawdownLevel(dd)), 100)
                            ELSE NoBook
    /\ pc' = "execute"
    /\ UNCHANGED <<mode, invalid, market, signals, served, sizes, held, opt, achieved, sent>>

(***************************************************************************)
(* STEPs 11 and 12                                                         *)
(***************************************************************************)
Universe == DOMAIN target \cup DOMAIN held

Abs(x) == IF x < 0 THEN -x ELSE x

Delta(s) == Clip(Weight(target, s), -Whole, Whole) - Weight(held, s)

\* A bug: the trade is sized to the target, not to what is missing of it.
OrderOfTarget(s) == Weight(target, s)

\* schedule_order: a stressed market halves every order (the engine sends none
\* as URGENT_DERISK).
OrderSize(s) ==
    IF market.execution = "stressed_exec" THEN Abs(Delta(s)) \div 2 ELSE Abs(Delta(s))

\* _n_slices: the alpha half-life of an hour gives eight.
NSlices(minutesToClose, halfLife) ==
    Clip((Min({Max({minutesToClose, 1}), 2 * Max({halfLife, 1})}) + 7) \div 15, 1, 12)

Slices == NSlices(390, 60)

\* _simulate_fills: each slice is capped by what a participation limit leaves of the
\* day's volume.
PaperFill(s, take) == Min({OrderSize(s), Slices * take})

\* _achieved_weights adds the notional of the fills, at the price paid.
Notional(s, filled, slippage) ==
    IF Delta(s) > 0 THEN (filled * (Whole + slippage)) \div Whole
    ELSE -((filled * (Whole - slippage)) \div Whole)

AchievedFrom(filled, slippage) ==
    LET book == [s \in Universe |-> Weight(held, s) + Notional(s, filled[s], slippage)]
    IN  Restrict(book, {s \in Universe : Abs(book[s]) >= 1})

Planned == {s \in Universe : Delta(s) # 0}

\* Nothing is planned in RESEARCH, nor unless approved; in LIVE nothing is sent
\* without a broker, while submits are blocked, or when the broker is away.
ExecuteNothing ==
    /\ pc = "execute"
    /\ ~gate.approved \/ mode \in {"RESEARCH", "LIVE"} \/ Planned = {}
    /\ achieved' = held /\ UNCHANGED sent

ExecutePaper ==
    /\ pc = "execute" /\ gate.approved /\ mode = "PAPER" /\ Planned # {}
    /\ \E take \in [Planned -> PaperTakes] :
         achieved' = AchievedFrom([s \in Universe |->
             IF s \in Planned THEN PaperFill(s, take[s]) ELSE 0], Slippage)
    /\ UNCHANGED sent

ExecuteLive ==
    /\ pc = "execute" /\ gate.approved /\ mode = "LIVE" /\ Planned # {}
    /\ \E part \in [Planned -> {1, 2}] :
         achieved' = AchievedFrom([s \in Universe |->
             IF s \in Planned THEN (OrderSize(s) * part[s]) \div 2 ELSE 0], 0)
    /\ sent' = TRUE

Execute ==
    /\ ExecuteNothing \/ ExecutePaper \/ ExecuteLive
    /\ pc' = "done"
    /\ UNCHANGED <<mode, invalid, market, signals, served, sizes, held, opt, gate, target>>

CycleNext ==
    \/ IngestAndValidate \/ BuildMarketState \/ ScoreSignals \/ Admit
    \/ Optimise \/ PretradeRiskGate \/ Execute

CycleSpec == CycleInit /\ [][CycleNext]_cycleVars

(***************************************************************************)
(* Properties                                                              *)
(***************************************************************************)
Done  == pc = "done"
Trade == Done /\ \E s \in Symbols : Weight(achieved, s) # Weight(held, s)

\* The envelope the market calls for, whatever the optimiser was told of it.
Envelope ==
    IF market.assessed THEN CvarBound(CrisisScalars(market.severity), market.defensive)
    ELSE (CvarLimit * 50) \div 100

\* What a cycle trades toward respects the risk budget of the market it saw: leverage,
\* and a CVaR limit tightened by the crisis severity, a failed assessment counting as
\* the worst (engine.py STEP 2 "the tightest crisis vol/CVaR envelope"); no part of
\* it is a short position.  Sizing names by conviction can undo a hedge, against what
\* engine.py:267-269 says of it ("only de-levers and cannot breach the CVaR limit"), so
\* the tail of a hedged admitted book is excepted.  A weight is rounded down each of the two times it
\* is scaled: a basis point per name.
WithinEnvelope ==
    Done /\ gate.approved =>
        /\ \A s \in DOMAIN target : target[s] >= 0
        /\ 100 * Total(target) <= Whole * MaxLeverage
        /\ opt.path = "baseline" => market.assessed /\ ~market.defensive
        /\ opt.risk.hedge = Unhedged \/ opt.path = "baseline" =>
              Cvar(target, opt.risk) <= Envelope + 2 * Cardinality(Symbols)

\* A cycle that trades was approved by the gate and by STEP 1; orders reach a broker
\* in LIVE only, and RESEARCH changes no book.
TradesAreApproved ==
    /\ Trade => gate.approved /\ ~gate.hardStop /\ ~invalid /\ mode # "RESEARCH"
    /\ sent => mode = "LIVE" /\ gate.approved /\ ~invalid

\* In LIVE a name is bought because the model's prediction was admitted, or because a
\* sleeve that passed its validation backs it outside a crisis (SIGNALS-5: no
\* un-validated sleeve drives real money).
PurchasesAreBacked ==
    Done /\ mode = "LIVE" => \A s \in Symbols :
        Weight(achieved, s) > Weight(held, s) =>
            s \in DOMAIN sizes \/ (s \in signals.backed /\ ~market.defensive)

\* A trade goes toward its target and, slippage apart, never beyond it: the achieved
\* weight is between what was held and what was wanted.
NeverTradesThrough ==
    Done => \A s \in Symbols :
        LET from == Weight(held, s)
            to   == from + (IF gate.approved THEN Delta(s) ELSE 0)
            slip == (Abs(to - from) * Slippage) \div Whole + 1
        IN  Weight(achieved, s) \in Min({from, to}) - 1 .. Max({from, to}) + slip

\* The gate's hard limits stop a book of STEP 9 only where STEP 9 itself exceeds the
\* cap it was given: a universe too small for it, or dust renormalised away
\* (engine.py:727 "normally a no-op").
BreachIsExplained ==
    gate.breach => opt.relaxed \/ opt.dusted

\* feature_store.py:249 "refusing to trade a symbol with no feature row": in LIVE
\* nothing is bought that has no features.
StaleFeaturesNeverTrade ==
    Done /\ mode = "LIVE" => \A s \in Symbols :
        Weight(achieved, s) > Weight(held, s) => s \in served
=============================================================================
