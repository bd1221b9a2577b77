------------------------------- MODULE HardStop -------------------------------
(***************************************************************************)
(* EngineService around one decision cycle (ops/run_loop.py): the drawdown *)
(* governor's NAV read, the kill-switch latch, the audit trail             *)
(* (ops/ledger.py) and loop_state.json, with the process crashing, being   *)
(* interrupted (main()'s finally: stop()) or losing a write between any    *)
(* two effects.  One RLock serialises a cycle and reset_kill_switch, so    *)
(* the lock holder has one program counter.  What a cycle trades, and the  *)
(* resync before it, is LiveTrading; here it trades or it does not.        *)
(***************************************************************************)
EXTENDS RiskGate

CONSTANTS
    Navs,           \* what the broker can report as NAV
    Capital,        \* capital_gbp
    MaxCycles,      \* bound on decision cycles begun
    MaxResets,      \* bound on resets of an engaged latch
    Faults          \* which effects may fail

ASSUME NavAssumption  == Navs \subseteq Nat \ {0} /\ Capital \in Nat \ {0}
ASSUME BoundAssumption == MaxCycles \in Nat /\ MaxResets \in Nat

VARIABLES
    pc,         \* where the lock holder is
    latch,      \* kill_latch.latched
    peak,       \* peak_nav
    lastDd,     \* last_drawdown
    cycle,      \* the cycle in flight: the drawdown it was given and STEP 10's verdict
    disk,       \* loop_state.json: kill_latch.latched and peak_nav
    unsaved,    \* the ledger's _events hold an event that was not written
    file,       \* ledger.jsonl: whether it verifies no more (a gap or a torn line),
                \* and its last KILL_SWITCH event, "missed" if writing it raised
    asked,      \* an operator is waiting to reset the kill switch
    begun,      \* decision cycles begun
    submitted,  \* history: cycles that sent orders
    cleared,    \* history: resets of an engaged latch
    stop        \* history: since the last reset a hard stop was "found" by STEP 10,
                \* and then made "durable" by a cycle or a stop() that persisted it

memory  == <<latch, peak, lastDd, cycle>>
trail   == <<unsaved, file>>
history == <<submitted, cleared, stop>>
vars    == <<pc, memory, disk, trail, asked, begun, history>>

Down     == {"down", "refused"}
InCycle  == {"measure", "decide", "save", "record", "reconcile", "engage"}
Points   == InCycle \cup {"idle", "persist", "reset", "resetting"} \cup Down
Running  == pc \notin Down

NoVerdict == [hardStop |-> FALSE, approved |-> FALSE]
NoCycle   == [drawdown |-> NoDrawdown, verdict |-> NoVerdict]
NewState  == [latched |-> FALSE, peak |-> 0]
NewFile   == [broken |-> FALSE, kill |-> "none"]

Init ==
    /\ pc = "idle"
    /\ latch = FALSE /\ peak = 0 /\ lastDd = NoDrawdown /\ cycle = NoCycle
    /\ disk = NewState
    /\ unsaved = FALSE /\ file = NewFile
    /\ asked = FALSE /\ begun = 0
    /\ submitted = 0 /\ cleared = 0 /\ stop = "none"

(***************************************************************************)
(* ImmutableLedger                                                         *)
(***************************************************************************)
KillEvents == {"engage", "reset"}

\* A bug: the kill switch is not a financial event, and leaves no line.
LedgerSkipsKills(kind) ==
    UNCHANGED <<unsaved, file>>

\* append: the event joins _events before it is written, so a write that raises
\* leaves it there alone, and the next line then follows a gap.  Every caller
\* here swallows the exception.
LedgerAppend(kind) ==
    \/ /\ UNCHANGED unsaved
       /\ file' = [broken |-> file.broken \/ unsaved,
                   kill   |-> IF kind \in KillEvents THEN kind ELSE file.kill]
    \/ /\ "ledger" \in Faults
       /\ unsaved' = TRUE
       /\ file' = IF kind \in KillEvents THEN [file EXCEPT !.kill = "missed"] ELSE file

(***************************************************************************)
(* A decision cycle: _run_once_impl, from the loop or from POST /cycle/run *)
(***************************************************************************)
\* While the latch is engaged the cycle returns _make_halted_result and
\* changes nothing but the served snapshot.
StartCycle ==
    /\ pc = "idle" /\ ~latch /\ begun < MaxCycles
    /\ pc' = "measure" /\ begun' = begun + 1
    /\ UNCHANGED <<memory, disk, trail, asked, history>>

\* A bug: the exception leaves the lock held.
AbortHoldingLock == UNCHANGED pc /\ cycle' = NoCycle

Abort == pc' = "idle" /\ cycle' = NoCycle

\* A bug: the peak follows the NAV down.
HigherPeakDropped(seen) == seen

HigherPeak(seen) == IF seen > peak THEN seen ELSE peak

\* _current_drawdown: a read that fails, or is not positive, carries the last
\* drawdown this process measured.
MeasureDrawdown ==
    /\ pc = "measure"
    /\ \/ \E seen \in Navs :
            /\ peak' = HigherPeak(seen)
            /\ lastDd' = Drawdown(peak', seen)
       \/ /\ "nav" \in Faults
          /\ UNCHANGED <<peak, lastDd>>
    /\ cycle' = [cycle EXCEPT !.drawdown = lastDd']
    /\ pc' = "decide"
    /\ UNCHANGED <<latch, disk, trail, asked, begun, history>>

\* The price provider, or input assembly, raises before the NAV is read.
PricesFail ==
    /\ pc = "measure" /\ "prices" \in Faults
    /\ Abort
    /\ UNCHANGED <<latch, peak, lastDd, disk, trail, asked, begun, history>>

\* run_cycle: STEP 10's verdict, then STEP 12 sends orders when approved.
\* build_cycle_inputs supplies no kill_context, so that in the loop no kill trigger
\* is ever active: only a KILL drawdown is a hard stop.
RunEngine ==
    /\ pc = "decide"
    /\ \E overLimit \in BOOLEAN :
         \E v \in {Gate(FALSE, cycle.drawdown, overLimit)}
                   \cup (IF "gate" \in Faults THEN {GateError} ELSE {}) :
            /\ cycle' = [NoCycle EXCEPT !.verdict = v]
            /\ stop' = IF v.hardStop /\ stop = "none" THEN "found" ELSE stop
            /\ submitted' \in {submitted} \cup (IF v.approved THEN {submitted + 1} ELSE {})
    /\ pc' = "save"
    /\ UNCHANGED <<latch, peak, lastDd, disk, trail, asked, begun, cleared>>

\* state_store.save, outside every try: when it raises the cycle ends here.
SaveLearningState ==
    /\ pc = "save"
    /\ \/ pc' = "record" /\ UNCHANGED cycle
       \/ "state_store" \in Faults /\ Abort
    /\ UNCHANGED <<latch, peak, lastDd, disk, trail, asked, begun, history>>

RecordCycle ==
    /\ pc = "record"
    /\ LedgerAppend("cycle")
    /\ pc' = "reconcile"
    /\ UNCHANGED <<memory, disk, asked, begun, history>>

\* _reconcile: a divergence, or a failed account read, is recorded; a broker
\* that reports a NAV of zero is taken to hold the starting capital.
Reconcile ==
    /\ pc = "reconcile"
    /\ \/ /\ \E seen \in Navs \cup (IF "nav" \in Faults THEN {Capital} ELSE {}) :
               peak' = HigherPeak(seen)
          /\ UNCHANGED trail \/ LedgerAppend("reconciliation")
       \/ /\ "nav" \in Faults
          /\ UNCHANGED peak
          /\ LedgerAppend("reconciliation")
    /\ pc' = "engage"
    /\ UNCHANGED <<latch, lastDd, cycle, disk, asked, begun, history>>

\* _engage_kill_latch.
EngageLatch ==
    /\ pc = "engage"
    /\ \/ /\ cycle.verdict.hardStop /\ ~latch
          /\ latch' = TRUE
          /\ LedgerAppend("engage")
       \/ /\ ~cycle.verdict.hardStop \/ latch
          /\ UNCHANGED <<latch, trail>>
    /\ pc' = "persist"
    /\ UNCHANGED <<peak, lastDd, cycle, disk, asked, begun, history>>

Snapshot == [latched |-> latch, peak |-> peak]

\* _persist and _atomic_write_json: all of it or nothing.  The write
\* that follows a hard stop's engagement makes the stop durable.
PersistOrRaise(stopped) ==
    \/ disk' = Snapshot /\ stop' = IF stopped THEN "durable" ELSE stop
    \/ "disk" \in Faults /\ UNCHANGED <<disk, stop>>

PersistCycle ==
    /\ pc = "persist"
    /\ PersistOrRaise(cycle.verdict.hardStop)
    /\ Abort
    /\ UNCHANGED <<latch, peak, lastDd, trail, asked, begun, submitted, cleared>>

(***************************************************************************)
(* The operator                                                            *)
(***************************************************************************)
\* reset_kill_switch waits for the lock: from a console of the process, and
\* from POST /kill-switch/reset unless the mode is LIVE.
AskReset ==
    /\ Running /\ ~asked /\ cleared < MaxResets
    /\ asked' = TRUE
    /\ UNCHANGED <<pc, memory, disk, trail, begun, history>>

ResetNothing ==
    /\ pc = "idle" /\ asked /\ ~latch
    /\ asked' = FALSE /\ stop' = "none"
    /\ UNCHANGED <<pc, memory, disk, trail, begun, submitted, cleared>>

ResetLatch ==
    /\ pc = "idle" /\ asked /\ latch
    /\ latch' = FALSE /\ stop' = "none" /\ cleared' = cleared + 1
    /\ LedgerAppend("reset")
    /\ pc' = "resetting"
    /\ UNCHANGED <<peak, lastDd, cycle, disk, asked, begun, submitted>>

PersistReset ==
    /\ pc = "resetting"
    /\ PersistOrRaise(FALSE)
    /\ pc' = "idle" /\ asked' = FALSE
    /\ UNCHANGED <<memory, trail, begun, submitted, cleared>>

(***************************************************************************)
(* The process                                                             *)
(***************************************************************************)
Forgotten ==
    /\ latch' = FALSE /\ peak' = 0 /\ lastDd' = NoDrawdown /\ cycle' = NoCycle
    /\ unsaved' = FALSE /\ asked' = FALSE

\* A crash may tear the line the ledger was writing.
Crash ==
    /\ Running /\ "crash" \in Faults
    /\ pc' = "down"
    /\ Forgotten
    /\ \/ UNCHANGED file
       \/ /\ pc \in {"record", "reconcile", "engage"} \/ (pc = "idle" /\ asked /\ latch)
          /\ file' = [file EXCEPT !.broken = TRUE]
    /\ UNCHANGED <<disk, begun, history>>

\* KeyboardInterrupt in main(), which serves no API: the cycle is abandoned
\* where it is, and the finally clause's stop() persists what is in memory.
Interrupt ==
    /\ Running /\ ~asked
    /\ PersistOrRaise(pc = "persist" /\ cycle.verdict.hardStop)
    /\ pc' = "down"
    /\ Forgotten
    /\ UNCHANGED <<file, begun, submitted, cleared>>

\* Bug: the latch is not restored.
RestoreUnlatched(saved) ==
    latch' = FALSE /\ peak' = saved.peak

\* _restore_loop_state.
RestoreLoopState(saved) ==
    latch' = saved.latched /\ peak' = saved.peak

\* EngineService() loads and verifies the ledger, start() restores the loop state;
\* an unreadable loop_state.json is logged and the service starts fresh.
Restart ==
    /\ pc = "down" /\ ~file.broken
    /\ RestoreLoopState(disk) \/ ("unreadable" \in Faults /\ RestoreLoopState(NewState))
    /\ pc' = "idle"
    /\ UNCHANGED <<lastDd, cycle, disk, trail, asked, begun, history>>

RestartRefused ==
    /\ pc = "down" /\ file.broken
    /\ pc' = "refused"
    /\ UNCHANGED <<memory, disk, trail, asked, begun, history>>

CycleStep ==
    \/ MeasureDrawdown \/ PricesFail \/ RunEngine \/ SaveLearningState
    \/ RecordCycle \/ Reconcile \/ EngageLatch \/ PersistCycle

Next ==
    \/ StartCycle \/ CycleStep
    \/ AskReset \/ ResetNothing \/ ResetLatch \/ PersistReset
    \/ Crash \/ Interrupt \/ Restart \/ RestartRefused

\* The lock holder runs on; a waiter gets the lock because the loop sleeps
\* between cycles without it, again and again rather than for ever (SF).
Fairness ==
    /\ WF_vars(CycleStep) /\ WF_vars(PersistReset)
    /\ SF_vars(ResetLatch) /\ SF_vars(ResetNothing)

Spec     == Init /\ [][Next]_vars
FairSpec == Spec /\ Fairness

(***************************************************************************)
(* Properties                                                              *)
(***************************************************************************)
\* The audit trail tells of a durable stop: its last KILL_SWITCH event is the
\* engagement, unless writing one raised (append failures are swallowed).
AuditShowsStop == stop = "durable" => file.kill \in {"engage", "missed"}

\* The drawdown governor never measures from a peak lower than one it persisted,
\* restarts, failed reads and zero NAVs included (_current_drawdown: "Peak is
\* durable across restarts").
GovernorKeepsPeak == Running => peak >= disk.peak

\* Once a hard stop is durable no cycle sends an order until an operator resets
\* the kill switch, whatever crashes, restarts or fails in between.
Latch == INSTANCE Halt WITH
    halted <- (stop = "durable"), traded <- submitted, cleared <- cleared
ImplementsHalt == Latch!Spec

\* An operator who asks gets the latch cleared, unless the process dies first:
\* no path through a cycle keeps the lock.
OperatorIsServed == asked ~> (~asked \/ ~Running)

\* run_loop.py:410 "the latch then halts every SUBSEQUENT cycle until an operator
\* reset": no order goes out between a hard stop that STEP 10 found and a reset.
NoAutomaticReenable == [][submitted' > submitted => stop = "none"]_vars
=============================================================================
