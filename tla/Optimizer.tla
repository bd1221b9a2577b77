------------------------------ MODULE Optimizer ------------------------------
(***************************************************************************)
(* core/engine/optimizer.py: optimise_portfolio after its views are mixed. *)
(* What the solver prefers is left open (any feasible book on a grid); the *)
(* caps, the dust rule, the vol target, the leverage ramp and the CVaR     *)
(* limit are its code.  A weight is a whole number of basis points of      *)
(* capital, rounded down; scales and limits are in percent or basis points.*)
(***************************************************************************)
EXTENDS Integers, FiniteSetsExt, Functions

CONSTANTS
    Grid,                   \* weights the solver can choose
    MaxPositionWeight,      \* max_position_weight
    CrisisWeight,           \* _MAX_WEIGHT["crisis"]
    MinWeight,              \* _MIN_WEIGHT
    TargetVol,              \* target_vol, percent
    MaxLeverage,            \* max_gross_leverage, percent
    LeverUpSteps,           \* settings of max_lever_up_step, percent
    CvarLimit               \* cvar_limit

\* max_lever_up_step is None by default: no ramp.
NoRamp == -1

\* Config admits positive limits only; a negative step is one of zero.
ASSUME LimitsAssumption ==
    /\ Grid \subseteq Nat
    /\ \A limit \in {MaxPositionWeight, CrisisWeight, MinWeight, TargetVol, MaxLeverage,
                      CvarLimit} : limit \in Nat
    /\ LeverUpSteps \subseteq Nat \cup {NoRamp}

Whole == 10000

Total(w) == SumFunction(w)
Times(w, num, den) == [s \in DOMAIN w |-> (w[s] * num) \div den]

Crowded(U, cap) == Cardinality(U) * cap < Whole

BaseCap(crisis) == IF crisis THEN CrisisWeight ELSE MaxPositionWeight

\* A bug: the solver is not given the cap.
Uncapped(U, crisis) == Whole

\* A universe too small for the cap relaxes it to an equal weight.
EffectiveCap(U, crisis) ==
    IF Crowded(U, BaseCap(crisis)) THEN Max({BaseCap(crisis), Whole \div Cardinality(U)})
    ELSE BaseCap(crisis)

\* _solve_mean_variance: long-only, fully invested, capped; equal weights when
\* the solver fails.
Solutions(U, cap) ==
    {[s \in U |-> Whole \div Cardinality(U)]}
    \cup {w \in [U -> Grid] : Total(w) = Whole /\ \A s \in U : w[s] <= cap}

\* Weights under the threshold are zeroed and the rest renormalised, over the cap if
\* need be.
DropDust(w) ==
    LET kept == [s \in DOMAIN w |-> IF w[s] < MinWeight THEN 0 ELSE w[s]]
    IN  IF Total(kept) = 0 THEN kept ELSE Times(kept, Whole, Total(kept))

\* The vol target as a scale of the book, in percent: a book without measurable
\* volatility is not scaled, and a leverage limit under one is not looked at.
VolScale(vol, scalar) ==
    IF vol = 0 THEN 100 ELSE Min({(TargetVol * scalar) \div vol, Max({100, MaxLeverage})})

\* The leverage ramp, where a step is set, bounds the way up only and never below an
\* unlevered book.  It measures from the part of the previous book that is in the new
\* universe, and where there is none from an unlevered book.
Ramp(step, scale, before, gross) ==
    LET allowed == (IF before = 0 THEN Whole ELSE before) * (100 + step)
    IN  IF step = NoRamp \/ scale <= 100 \/ gross = 0 \/ allowed \div gross >= scale THEN scale
        ELSE Max({100, allowed \div gross})

(***************************************************************************)
(* The CVaR of a book is homogeneous in it: unit percent of its gross, or, *)
(* when one name hedges the others, of what is left after the hedge.       *)
(***************************************************************************)
Unhedged == "unhedged"

Cvar(w, risk) ==
    LET hedge == IF risk.hedge \in DOMAIN w THEN w[risk.hedge] ELSE 0
        rest  == Total(w) - hedge
    IN  (risk.unit * (IF rest >= hedge THEN rest - hedge ELSE hedge - rest)) \div 100

CvarBound(scalars, crisis) ==
    (CvarLimit * Min({scalars.cvar, IF crisis THEN 50 ELSE 100})) \div 100

\* _enforce_cvar_limit: de-lever toward cash.
EnforceCvarLimit(w, risk, limit) ==
    IF Cvar(w, risk) <= limit THEN w ELSE Times(w, limit, Cvar(w, risk))

\* optimise_portfolio, after the solver chose w: the result for a universe U and a
\* previous book.
Optimised(w, vol, risk, U, before, scalars, crisis, step) ==
    LET limit == CvarBound(scalars, crisis)
        base  == DropDust(w)
        scale == Ramp(step, VolScale(vol, Min({scalars.vol, IF crisis THEN 50 ELSE 100})),
                      SumFunctionOnSet(before, U), Total(base))
        sized == Times(base, scale, 100)
    IN  [weights |-> EnforceCvarLimit(sized, risk, limit), risk |-> risk,
         cvar    |-> Min({Cvar(sized, risk), limit}),
         relaxed |-> Crowded(U, BaseCap(crisis)),
         dusted  |-> \E s \in U : w[s] \in 1 .. MinWeight - 1]

\* The results it may return, whatever the solver prefers.
OptimisedBooks(U, before, scalars, crisis, vols, risks) ==
    {Optimised(w, vol, risk, U, before, scalars, crisis, step)
        : w \in Solutions(U, EffectiveCap(U, crisis)), vol \in vols, risk \in risks,
          step \in LeverUpSteps}
=============================================================================
