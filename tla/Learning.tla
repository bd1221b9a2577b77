------------------------------ MODULE Learning ------------------------------
(***************************************************************************)
(* The learning loop of one symbol: STEP 7 (predict, decide on a refit)    *)
(* and STEP 13 (price, prediction, outcomes) of a cycle, the save at its   *)
(* end, the refit thread LIVE runs beside them, and crash and restart.     *)
(***************************************************************************)
EXTENDS OutcomeTracker, ReturnModel

CONSTANTS Modes,       \* the modes explored, of {"PAPER", "LIVE"}
          Features,    \* the feature rows explored, of {"ok", "inf", "none"}
          Retention,   \* retention_days
          MaxFits,     \* bound: fits that are started
          MaxCrashes   \* bound: crashes
ASSUME LearningAssumption ==
    /\ Modes \subseteq {"PAPER", "LIVE"} /\ Features \subseteq {"ok", "inf", "none"}
    /\ Retention \in Nat /\ MaxFits \in Nat /\ MaxCrashes \in Nat

VARIABLES mode,      \* the service's mode
          now,       \* asof_time of the current (or last) cycle
          pc,        \* where the cycle is
          tracker,   \* the PerformanceTracker singleton
          model,     \* the MLReturnModel singleton
          served,    \* what STEP 7 predicted this cycle
          refit,     \* the refit thread: its step and the arrays it has built
          disk,      \* the tracker as last saved
          fits, crashes

learning == <<mode, now, pc, tracker, model, served, refit, disk, fits, crashes>>

NoThread == [at |-> "none", xs |-> << >>, ys |-> << >>, vs |-> << >>]

LearningInit ==
        /\ mode \in Modes
        /\ now = 0
        /\ pc = "idle"
        /\ tracker = EmptyTracker
        /\ model = FreshModel
        /\ served = Fallback
        /\ refit = NoThread
        /\ disk = EmptyTracker
        /\ fits = 0
        /\ crashes = 0

-----------------------------------------------------------------------------
(* The cycle.                                                              *)

StartCycle(elapsed) ==
    /\ pc = "idle"
    /\ now + elapsed <= MaxTime
    /\ now' = now + elapsed
    /\ pc' = "prior"
    /\ UNCHANGED <<mode, tracker, model, served, refit, disk, fits, crashes>>

AnchorPrior ==
    /\ pc = "prior"
    /\ model' = SetPrior(model)
    /\ pc' = "predict"
    /\ UNCHANGED <<mode, now, tracker, served, refit, disk, fits, crashes>>

PredictStep ==
    /\ pc = "predict"
    /\ served' = Predict(model)
    /\ pc' = "govern"
    /\ UNCHANGED <<mode, now, tracker, model, refit, disk, fits, crashes>>

NoRefit ==
    /\ pc = "govern"
    /\ \/ refit.at # "none"
       \/ ~ReadyForInitialFit(model) /\ ~NeedsRefit(model, now, FALSE)
    /\ pc' = "learn"
    /\ UNCHANGED <<mode, now, tracker, model, served, refit, disk, fits, crashes>>

SpawnRefit ==
    /\ pc = "govern"
    /\ refit.at = "none"
    /\ \E degraded \in BOOLEAN :
          ReadyForInitialFit(model) \/ NeedsRefit(model, now, degraded)
    /\ fits < MaxFits
    /\ fits' = fits + 1
    /\ IF mode = "LIVE"
       THEN /\ refit' = [NoThread EXCEPT !.at = "size"]
            /\ UNCHANGED model
       ELSE /\ model' = RefitNow(model, fits', now)
            /\ UNCHANGED refit
    /\ pc' = "learn"
    /\ UNCHANGED <<mode, now, tracker, served, disk, crashes>>

\* STEP 13: the symbol's latest bar (late by at most one day, or no bar at
\* all), this cycle's prediction with its features, then every elapsed horizon.
PostTradeLearning(bar, x) ==
    /\ pc = "learn"
    /\ LET priced   == IF bar = 0 THEN tracker ELSE RecordPrice(tracker, bar)
           recorded == RecordPrediction(priced, now, x)
       IN  /\ model' = Remember(model, NewExamples(recorded))
           /\ tracker' = EvaluateSignal(recorded)
    /\ pc' = "save"
    /\ UNCHANGED <<mode, now, served, refit, disk, fits, crashes>>

SaveTracker ==
    /\ pc = "save"
    /\ disk' = DumpTracker(tracker, Retention)
    /\ pc' = "idle"
    /\ UNCHANGED <<mode, now, tracker, model, served, refit, fits, crashes>>

\* The process dies anywhere; the restart restores what was saved.
\* The model, its training buffer and the daemon thread die with the process.
CrashRestart ==
    /\ crashes < MaxCrashes
    /\ crashes' = crashes + 1
    /\ tracker' = disk
    /\ model' = FreshModel
    /\ served' = Fallback
    /\ refit' = NoThread
    /\ pc' = "idle"
    /\ UNCHANGED <<mode, now, disk, fits>>

-----------------------------------------------------------------------------
(* The refit thread of LIVE: it reads the buffer in three passes and then  *)
(* replaces the model's parts one by one, all without the cycle's lock.    *)

Thread(from, to) == refit.at = from /\ refit' = [refit EXCEPT !.at = to]

CycleGoesOn == UNCHANGED <<mode, now, pc, tracker, served, disk, fits, crashes>>

CheckSize ==
    /\ Thread("size", IF Len(model.buffer) < MinFit THEN "none" ELSE "readX")
    /\ UNCHANGED model
    /\ CycleGoesOn

ReadRows(from, to, field) ==
    /\ refit.at = from
    /\ refit' = [refit EXCEPT !.at = to, ![field] = model.buffer]
    /\ UNCHANGED model
    /\ CycleGoesOn

ReplaceEnsemble ==
    /\ Thread("fit", "trainEns")
    /\ model' = InstallEnsemble(model, fits)
    /\ CycleGoesOn

TrainEnsembleStep ==
    /\ refit.at = "trainEns"
    /\ IF EnsembleRaises(refit.xs, refit.ys)
       THEN /\ refit' = NoThread
            /\ UNCHANGED model
       ELSE /\ Thread("trainEns", "replaceVol")
            /\ model' = TrainEnsemble(model)
    /\ CycleGoesOn

ReplaceVol ==
    /\ Thread("replaceVol", "trainVol")
    /\ model' = InstallVol(model, fits)
    /\ CycleGoesOn

TrainVolStep ==
    /\ refit.at = "trainVol"
    /\ IF VolRaises(refit.xs, refit.vs)
       THEN /\ refit' = NoThread
            /\ UNCHANGED model
       ELSE /\ Thread("trainVol", "calibrate")
            /\ model' = TrainVol(model, fits)
    /\ CycleGoesOn

CalibrateStep ==
    /\ Thread("calibrate", "publish")
    /\ model' = CalibrateHit(model, fits)
    /\ CycleGoesOn

PublishStep ==
    /\ refit.at = "publish"
    /\ model' = Publish(model, fits, now)
    /\ refit' = NoThread
    /\ CycleGoesOn

RefitThread ==
    \/ CheckSize
    \/ ReadRows("readX", "readReturns", "xs")
    \/ ReadRows("readReturns", "readVols", "ys")
    \/ ReadRows("readVols", "fit", "vs")
    \/ ReplaceEnsemble
    \/ TrainEnsembleStep
    \/ ReplaceVol
    \/ TrainVolStep
    \/ CalibrateStep
    \/ PublishStep

LearningNext ==
    \/ \E elapsed \in 1..2 : StartCycle(elapsed)
    \/ AnchorPrior
    \/ PredictStep
    \/ NoRefit
    \/ SpawnRefit
    \/ \E bar \in {0, now - 1, now}, x \in Features : PostTradeLearning(bar, x)
    \/ SaveTracker
    \/ CrashRestart
    \/ RefitThread

LearningSpec == LearningInit /\ [][LearningNext]_learning

-----------------------------------------------------------------------------
(* Properties.                                                             *)

LearnedOnce(t) ==
    \A p \in t.preds, h \in Horizons :
        t.outcomes[<<p.anchor, h>>] = IF h \in p.resolved THEN 1 ELSE 0

\* An outcome is learned exactly once: as long as its prediction is kept, in
\* memory and on disk, over crashes, restores and retention prunes, it is
\* counted once iff its horizon is marked resolved; and no example is in the
\* training buffer twice. (performance_tracker.evaluate_signal is idempotent.)
OutcomesLearnedOnce ==
    /\ LearnedOnce(tracker)
    /\ LearnedOnce(disk)
    /\ \A i, j \in DOMAIN model.buffer :
          model.buffer[i].anchor = model.buffer[j].anchor => i = j

\* A label never looks past its horizon nor is taken before it: an example's
\* return runs from a bar no later than the prediction to one no later than the
\* target, and was computed when a bar at or after the target had been seen.
LabelsSpanTheHorizon ==
    \A i \in DOMAIN model.buffer :
        LET row == model.buffer[i]
        IN  /\ row.base <= row.anchor
            /\ row.base <= row.future
            /\ row.future <= row.anchor + 1
            /\ row.anchor + 1 <= row.seen

\* Parts of two fits never answer together once the fit that replaces them is
\* over, whether it completed or raised at any of its steps: after a raise one
\* part is untrained and predict falls back. So off LIVE, where a refit runs
\* inside STEP 7, every prediction and the prior it is shrunk to are of one
\* fit. (In the middle of a LIVE refit they need not be: the thread replaces
\* the parts one by one.)
OneFitAnswers ==
    /\ refit.at \in {"none", "size", "readX", "readReturns", "readVols", "fit"}
          /\ model.fitted /\ Answers(model)
       => IsWhole(model)
    /\ mode # "LIVE" /\ served.kind = "model"
       => {served.prior, served.vol, served.hit, served.tail} = {served.ens}

\* A fit that completed learned from rows paired with their own outcomes,
\* unless the buffer was at its cap: below it, an example appended between two
\* passes of refit() makes the arrays differ in length and the fit raises; at
\* the cap the trim keeps the lengths equal and every label shifts by one row.
ShortBuffersFitAligned ==
    refit.at \in {"replaceVol", "trainVol", "calibrate", "publish"}
        /\ Len(refit.xs) < BufferMax
    => \A i \in DOMAIN refit.xs : refit.xs[i] = refit.ys[i]

\* What refit()'s docstring says of a fit that fails: "the previous model keeps
\* serving". A model that was fitted answers whenever no refit is under way.
PreviousModelKeepsServing ==
    model.fitted /\ refit.at = "none" => Answers(model)
=============================================================================
