---------------------------- MODULE ReturnModel ----------------------------
(***************************************************************************)
(* core/ml_return_model.py as operators over a model record. A fit is      *)
(* named by a number; "ens" is _return_models, "vol" is _vol_model, each   *)
(* with the fit it belongs to and whether it has been trained ("ok").      *)
(***************************************************************************)
EXTENDS Naturals, Sequences, SequencesExt

CONSTANTS MinFit,      \* _MIN_FIT_SAMPLES
          InitialFit,  \* _INITIAL_FIT_MIN
          BufferMax,   \* _TRAINING_BUFFER_MAX
          MaxAge       \* max_age_days
ASSUME ModelAssumption ==
    MinFit \in Nat /\ InitialFit \in Nat /\ BufferMax \in Nat \ {0} /\ MaxAge \in Nat

Unfitted == [fit |-> 0, ok |-> FALSE]

FreshModel == [ens |-> Unfitted, vol |-> Unfitted, hit |-> 0, tail |-> 0,
               fitted |-> FALSE, fitTime |-> 0, prior |-> 0,
               buffer |-> << >>]

Fallback == [kind |-> "fallback"]

\* The learners answer: both have been trained.
Answers(m) == m.ens.ok /\ m.vol.ok

\* predict_batch anchors the shrinkage at the mean raw view of the ensemble it
\* finds, 0 when that raises, and leaves the anchor alone while unfitted.
SetPrior(m) ==
    IF ~m.fitted THEN m
    ELSE [m EXCEPT !.prior = IF m.ens.ok THEN m.ens.fit ELSE 0]

Predict(m) ==
    IF m.fitted /\ Answers(m)
    THEN [kind |-> "model", prior |-> m.prior, ens |-> m.ens.fit,
          vol |-> m.vol.fit, hit |-> m.hit, tail |-> m.tail]
    ELSE Fallback

\* Mutant: the buffer is never trimmed.
RememberAll(m, rows) == [m EXCEPT !.buffer = @ \o rows]

\* record_training_example: append and keep the newest BufferMax rows.
Remember(m, rows) ==
    [m EXCEPT !.buffer =
        LET all == @ \o rows
        IN  SubSeq(all, IF Len(all) > BufferMax THEN Len(all) - BufferMax + 1 ELSE 1,
                   Len(all))]

ReadyForInitialFit(m) == ~m.fitted /\ Len(m.buffer) >= InitialFit

\* "degraded" stands for the triggers on data: drift, calibration error, a
\* regime change with a falling IC, a tail rate away from the base.
NeedsRefit(m, now, degraded) ==
    m.fitted /\ (degraded \/ now - m.fitTime > MaxAge)

-----------------------------------------------------------------------------
(* The steps of fit(), each on the arrays refit() built.                   *)

\* Mutant: arrays of different lengths are cut to the shorter.
EnsembleRaisesOnValues(xs, ys) == \E i \in DOMAIN xs : xs[i].x = "inf"

\* The learners refuse a non-finite value and arrays of different lengths.
EnsembleRaises(xs, ys) ==
    Len(xs) # Len(ys) \/ \E i \in DOMAIN xs : xs[i].x = "inf"

VolRaises(xs, vs) == Len(xs) # Len(vs)

InstallEnsemble(m, id) == [m EXCEPT !.ens = [fit |-> id, ok |-> FALSE]]
TrainEnsemble(m)       == [m EXCEPT !.ens.ok = TRUE]

\* Mutant: the vol model is replaced only once it is trained.
KeepVol(m, id) == m

InstallVol(m, id)      == [m EXCEPT !.vol = [fit |-> id, ok |-> FALSE]]
TrainVol(m, id)        == [m EXCEPT !.vol = [fit |-> id, ok |-> TRUE]]
CalibrateHit(m, id)    == [m EXCEPT !.hit = id]

\* The tail calibrator and the metadata fit() publishes last.
Publish(m, id, now) ==
    [m EXCEPT !.tail = id, !.fitted = TRUE, !.fitTime = now]

\* refit() in one thread: the arrays agree, so only a value can raise.
RefitNow(m, id, now) ==
    IF Len(m.buffer) < MinFit THEN m
    ELSE IF EnsembleRaises(m.buffer, m.buffer) THEN InstallEnsemble(m, id)
    ELSE Publish(CalibrateHit(TrainVol(TrainEnsemble(InstallEnsemble(m, id)), id), id),
                 id, now)

\* All parts of the model that answer belong to one fit.
IsWhole(m) == m.ens.fit = m.vol.fit /\ m.vol.fit = m.hit /\ m.hit = m.tail
=============================================================================
