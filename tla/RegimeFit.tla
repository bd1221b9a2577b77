------------------------------ MODULE RegimeFit ----------------------------
(***************************************************************************)
(* RegimeEngine (core/regime_engine.py): the HMM that is refitted every    *)
(* RefitEvery answers.  A fit is its number; the scaler, the model and the *)
(* state map each carry the number of the fit they come from, the answer   *)
(* those it was computed with ({} for the heuristic fallback).             *)
(***************************************************************************)
EXTENDS Naturals, FiniteSets

CONSTANTS RefitEvery, MaxCalls    \* refit_every; bound on calls
ASSUME RegimeAssumption == RefitEvery \in Nat \ {0} /\ MaxCalls \in Nat

VARIABLES scaler, hmm, stateMap,  \* the fit each part comes from, 0 for none
          cycle,                  \* _cycle
          answer,                 \* the fits the last answer used
          attempts,               \* history: fits begun
          calls,                  \* history: calls of detect_with_probs
          fittedAt                \* history: the call at which hmm was fitted

regime == <<scaler, hmm, stateMap, cycle, answer, attempts, calls, fittedAt>>

RegimeInit ==
    /\ scaler = 0 /\ hmm = 0 /\ stateMap = 0 /\ cycle = 0
    /\ answer = {} /\ attempts = 0 /\ calls = 0 /\ fittedAt = 0

Due == hmm = 0 \/ cycle % RefitEvery = 0

\* Fewer rows than min_fit_rows: the heuristic answers, nothing else moves.
TooShort ==
    /\ answer' = {} /\ calls' = calls + 1
    /\ UNCHANGED <<scaler, hmm, stateMap, cycle, attempts, fittedAt>>

\* A bug: the cycle is counted before the fit.
CountThenFit ==
    /\ Due
    /\ scaler' = attempts + 1 /\ attempts' = attempts + 1
    /\ answer' = {} /\ calls' = calls + 1 /\ cycle' = cycle + 1
    /\ UNCHANGED <<hmm, stateMap, fittedAt>>

\* _fit standardises with the new window first; a model that does not fit
\* leaves the rest and the count as they were, and the heuristic answers.
FitRaises ==
    /\ Due
    /\ scaler' = attempts + 1 /\ attempts' = attempts + 1
    /\ answer' = {} /\ calls' = calls + 1
    /\ UNCHANGED <<hmm, stateMap, cycle, fittedAt>>

\* The answer of a call that did not raise, or of one whose inference did.
Answered(fits) == answer' \in {fits, {}}

FitAndInfer ==
    /\ Due
    /\ attempts' = attempts + 1 /\ calls' = calls + 1 /\ fittedAt' = calls + 1
    /\ scaler' = attempts' /\ hmm' = attempts' /\ stateMap' = attempts'
    /\ cycle' = cycle + 1
    /\ Answered({scaler', hmm', stateMap'})

InferOnly ==
    /\ ~Due
    /\ calls' = calls + 1 /\ cycle' = cycle + 1
    /\ Answered({scaler, hmm, stateMap})
    /\ UNCHANGED <<scaler, hmm, stateMap, attempts, fittedAt>>

RegimeNext ==
    /\ calls < MaxCalls
    /\ TooShort \/ FitRaises \/ FitAndInfer \/ InferOnly

RegimeSpec == RegimeInit /\ [][RegimeNext]_regime

-----------------------------------------------------------------------------
(* An answer of the HMM is computed from the scaler, the model and the     *)
(* state map of one fit, however fits and inferences fail in between,      *)
(* although a failing fit has already replaced the scaler (_fit,           *)
(* _maybe_fit).                                                            *)
AnswersOfOneFit == Cardinality(answer) <= 1
=============================================================================
