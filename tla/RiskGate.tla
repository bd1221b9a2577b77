------------------------------- MODULE RiskGate -------------------------------
(***************************************************************************)
(* core/risk_manager.py: the drawdown governor, the kill-switch battery    *)
(* and the pre-trade gate of STEP 10.  A drawdown is the exact fraction    *)
(* lost / of; a weight or a limit is an integer number of percent.         *)
(***************************************************************************)
EXTENDS Integers

NoDrawdown == [lost |-> 0, of |-> 1]

\* 1 - nav / peak, never negative; a peak that was never seen has none.
Drawdown(peak, nav) ==
    IF peak <= 0 \/ nav >= peak THEN NoDrawdown ELSE [lost |-> peak - nav, of |-> peak]

AtLeast(dd, pct) == 100 * dd.lost >= pct * dd.of
Beyond(dd, pct)  == 100 * dd.lost > pct * dd.of

\* check_drawdown: 15% itself is still HARD.
DrawdownLevel(dd) ==
    IF Beyond(dd, 15)  THEN "KILL"
    ELSE IF AtLeast(dd, 12) THEN "HARD"
    ELSE IF AtLeast(dd, 8)  THEN "MEDIUM"
    ELSE IF AtLeast(dd, 5)  THEN "SOFT"
    ELSE "NORMAL"

(***************************************************************************)
(* check_pretrade.  A kill trigger or a KILL drawdown is a hard stop, which *)
(* latches; a book over an independent hard limit only blocks the cycle.   *)
(***************************************************************************)
Gate(killActive, dd, overLimit) ==
    LET hard == killActive \/ DrawdownLevel(dd) = "KILL"
    IN  [hardStop |-> hard, approved |-> ~hard /\ ~overLimit]

\* STEP 10 when check_pretrade raises: RISK_GATE_ERROR blocks and does not latch.
GateError == [hardStop |-> FALSE, approved |-> FALSE]

(***************************************************************************)
(* check_kill_switches: ten triggers, two of them in LIVE only.  Absent    *)
(* keys take defaults that trigger nothing.                                *)
(***************************************************************************)
KillReasons(ctx, mode) ==
    {r \in {"STALE_MARKET_DATA", "STALE_FEATURES"} : mode = "LIVE" /\ r \in ctx.stale}
    \cup (IF 100 * ctx.rejected > 20 * ctx.orders THEN {"BROKER_REJECTION_RATE"} ELSE {})
    \cup (IF ctx.expectedSlip > 0 /\ ctx.slip > 3 * ctx.expectedSlip THEN {"SLIPPAGE_SPIKE"} ELSE {})
    \cup (IF ctx.fillGap > ctx.fillTolerance THEN {"FILL_MISMATCH"} ELSE {})
    \cup ctx.events
=============================================================================
