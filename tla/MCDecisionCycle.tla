--------------------------- MODULE MCDecisionCycle ---------------------------
(***************************************************************************)
(* Three symbols; caps and thresholds are those of a universe of three, so *)
(* that every rule of the optimiser has books on both sides of it.         *)
(***************************************************************************)
EXTENDS DecisionCycle

CONSTANTS a, b, c

Quiet == [rho |-> Missing, volRatio |-> 100, loss |-> 0, losing |-> Missing, spread |-> 6,
          participation |-> 20, gap |-> Missing, hours |-> Missing, minutes |-> 390]

MCReadings == {
    Quiet,
    [Quiet EXCEPT !.rho = 70, !.volRatio = 180],
    [Quiet EXCEPT !.rho = 70, !.volRatio = 260, !.loss = 50],
    [Quiet EXCEPT !.rho = 90, !.volRatio = 200, !.loss = 80, !.losing = 80, !.spread = 40,
                  !.gap = 40, !.hours = 3, !.minutes = 10]}

MCSignals == {[s \in Symbols |-> "FLAT"],
              [s \in Symbols |-> "BUY"],
              [s \in Symbols |-> IF s = a THEN "SELL" ELSE "FLAT"]}

MCFlows == {[s \in Symbols |-> 0], [s \in Symbols |-> IF s = b THEN -40 ELSE 31]}

MCRows == {[s \in Symbols |-> IF s = a THEN row ELSE "fresh"] : row \in RowStates}

MCPredictions == {
    SafeFallback,
    [mu |-> 20,  up |-> 60, tail |-> 10, confidence |-> 60],
    [mu |-> 120, up |-> 95, tail |-> 5, confidence |-> 100]}

MCBooks == {NoBook, a :> 6000, a :> 7000 @@ b :> 7000 @@ c :> 2000}

MCRisks == {[hedge |-> Unhedged, unit |-> 2], [hedge |-> Unhedged, unit |-> 6],
            [hedge |-> a, unit |-> 6]}

MCDrawdowns == {NoDrawdown, [lost |-> 12, of |-> 100], [lost |-> 16, of |-> 100]}

\* As it ships, and with the step the settings suggest.
MCLeverUpSteps == {NoRamp, 25}

NoContext == [stale |-> {}, rejected |-> 0, orders |-> 0, slip |-> 0, expectedSlip |-> 10,
              fillGap |-> 0, fillTolerance |-> 0, events |-> {}]

MCKillContexts == {NoContext, [NoContext EXCEPT !.stale = {"STALE_FEATURES"}]}
=============================================================================
