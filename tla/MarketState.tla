----------------------------- MODULE MarketState -----------------------------
(***************************************************************************)
(* core/crisis_manager.py and core/regime_engine.py: what STEP 2 makes of  *)
(* a cycle's readings.  A score is a whole percent, rounded down; the      *)
(* severity is in units of 1/10000; a share or a return is in units of     *)
(* 1/1000; ratios are in percent.                                          *)
(***************************************************************************)
EXTENDS Integers, FiniteSetsExt

Regimes == {"mean_reverting", "trending", "high_vol"}

Missing == -1000    \* an input that was not supplied, or is too short to use

Clip01(pct) == Max({0, Min({pct, 100})})

(***************************************************************************)
(* The seven detectors of assess().  Missing data scores nothing.          *)
(***************************************************************************)
CorrelationSpike(rho) == IF rho = Missing THEN 0 ELSE Clip01((100 * rho) \div 70)

VolExplosion(volRatio) == IF volRatio = Missing THEN 0 ELSE Clip01(volRatio - 100)

DrawdownThreshold(regime) ==
    CASE regime = "trending" -> 50 [] regime = "high_vol" -> 75 [] OTHER -> 30

DrawdownAcceleration(loss, regime) ==
    IF loss = Missing THEN 0 ELSE Clip01((100 * loss) \div DrawdownThreshold(regime))

BreadthCollapse(losing) == IF losing = Missing THEN 0 ELSE Clip01(5 * (losing - 50))

LiquidityStress(spread, participation) ==
    Clip01(Max({4 * spread, 2 * participation}) - 100)

GapRisk(gap) == IF gap = Missing THEN 0 ELSE Clip01((100 * gap) \div 30)

EventRisk(hours) ==
    IF hours = Missing THEN 0 ELSE IF hours < 1 THEN 100 ELSE Clip01(400 \div hours)

Severity(r, regime) ==
      22 * CorrelationSpike(r.rho)
    + 22 * VolExplosion(r.volRatio)
    + 16 * DrawdownAcceleration(r.loss, regime)
    + 15 * BreadthCollapse(r.losing)
    + 10 * LiquidityStress(r.spread, r.participation)
    + 10 * GapRisk(r.gap)
    +  5 * EventRisk(r.hours)

LevelFromSeverity(severity) ==
    IF severity < 2000 THEN "NORMAL"
    ELSE IF severity < 5000 THEN "ELEVATED"
    ELSE IF severity < 7500 THEN "CRISIS"
    ELSE "CRITICAL"

\* assess, without its cache (the engine passes use_cache=False).
Assess(r, regime) ==
    LET severity == Severity(r, regime)
    IN  [severity  |-> severity,
         defensive |-> LevelFromSeverity(severity) \in {"CRISIS", "CRITICAL"}]

\* A bug: no crisis signal, no crisis.
AssessmentIgnored == [severity |-> 0, defensive |-> FALSE]

\* STEP 2 when assess raises: fail closed.
AssessmentFailed == [severity |-> 10000, defensive |-> TRUE]

\* crisis_scalars: the multipliers, in percent, of the vol target and the CVaR limit.
CrisisScalars(severity) ==
    IF severity < 3500 THEN [vol |-> 100, cvar |-> 100]
    ELSE IF severity < 6000 THEN [vol |-> 80, cvar |-> 85]
    ELSE IF severity < 8000 THEN [vol |-> 60, cvar |-> 65]
    ELSE [vol |-> 50, cvar |-> 50]

(***************************************************************************)
(* Regimes                                                                 *)
(***************************************************************************)
\* RegimeEngine._label: the probability of stress in percent, against 65.
RegimeLabel(stressed, trending) ==
    IF stressed > 65 THEN "high_vol" ELSE IF trending THEN "trending" ELSE "mean_reverting"

\* _heuristic: a market whose volatility cannot be measured is stressed.
HeuristicRegime(measurable, stressed, trending) ==
    IF measurable THEN RegimeLabel(stressed, trending) ELSE "high_vol"

\* infer_execution_regime.
ExecutionRegime(spread, volRatio, participation, minutesToClose) ==
    IF spread > 25 \/ volRatio > 250 \/ minutesToClose < 15 \/ participation > 100
    THEN "stressed_exec"
    ELSE IF spread >= 10 \/ volRatio >= 150 \/ minutesToClose <= 60 \/ participation > 50
    THEN "cautious_exec"
    ELSE "normal_exec"
=============================================================================
